--------------------------- MODULE MCLogPipeline ---------------------------
(* LogPipeline on small instances: storages and channels that overflow,     *)
(* clears that land between any two steps of the handler.                   *)
EXTENDS LogPipeline
=============================================================================

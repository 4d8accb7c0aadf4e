----------------------------- MODULE MCTransfer -----------------------------
(* Transfer with streams shorter and longer than the buffer.                *)
EXTENDS Transfer
=============================================================================

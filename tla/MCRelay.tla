------------------------------ MODULE MCRelay ------------------------------
(* Relay with streams of one byte, as long as the buffers.                  *)
EXTENDS Relay
=============================================================================

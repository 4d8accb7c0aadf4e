------------------------------ MODULE Transfer ------------------------------
(***************************************************************************)
(* transfer_one_direction (debug_stream.rs): it drives poll_copy to its    *)
(* end, takes the transferred text out of the buffer of the copy, shuts    *)
(* the writer down and keeps reporting the result.                         *)
(*                                                                         *)
(* Whether bytes are valid UTF-8, and whether Request::from_string panics  *)
(* on them, depends on what they say, which is abstracted: both outcomes   *)
(* are possible for any stream.                                            *)
(***************************************************************************)
EXTENDS CopyBuffer

VARIABLES
  state,     \* TransferState; "failed": Err was returned, "panicked": unwound
  count,     \* the u64 of ShuttingDown and Done
  captured,  \* their String, as a function on 1..n
  reused     \* history: TRUE once a drained buffer was filled again

transfer == <<state, count, captured>>
tvars == <<vars, transfer, reused>>

-----------------------------------------------------------------------------
States == {"Running", "ShuttingDown", "Done", "failed", "panicked"}
Over == {"Done", "failed", "panicked"}

TransferTypeOK ==
  /\ TypeOK
  /\ state \in States
  /\ count \in Nat
  /\ captured \in [1..count -> Nat]
  /\ reused \in BOOLEAN
  /\ state = "Running" => count = 0

TransferInit ==
  /\ Init
  /\ state = "Running" /\ count = 0
  /\ captured = [k \in 1..0 |-> 0]
  /\ reused = FALSE

(* buf.buf[..n], for n no more than its length.                            *)
BufferStart(n) == [k \in 1..n |-> buf[k - 1]]

(* Running: poll_copy goes on until it is ready.                           *)
CopyStep(Step) ==
  /\ state = "Running"
  /\ pc \notin Ended
  /\ Step
  /\ reused' = (reused \/ (amt > 0 /\ cap = 0 /\ cap' > 0))
  /\ UNCHANGED transfer

(* Variant of TakeOk: the last byte is left out.                           *)
TakeOkShort ==
  /\ state = "Running" /\ pc = "ok"
  /\ \/ /\ amt <= BufSize
        /\ state' = "ShuttingDown"
        /\ count' = IF amt > 0 THEN amt - 1 ELSE 0
        /\ captured' = BufferStart(IF amt > 0 THEN amt - 1 ELSE 0)
     \/ state' = "panicked" /\ UNCHANGED <<count, captured>>
  /\ UNCHANGED <<vars, reused>>

(* poll_copy gave Ok(amt).  The slice panics when amt exceeds the buffer,  *)
(* the unwraps of from_utf8 and from_string when the text is not right.    *)
TakeOk ==
  /\ state = "Running" /\ pc = "ok"
  /\ \/ /\ amt <= BufSize
        /\ state' = "ShuttingDown"
        /\ count' = amt
        /\ captured' = BufferStart(amt)
     \/ state' = "panicked" /\ UNCHANGED <<count, captured>>
  /\ UNCHANGED <<vars, reused>>

(* poll_copy gave UnexpectedEof: the whole buffer is taken as text, and    *)
(* the error is only returned if that is not UTF-8.                        *)
TakeEof ==
  /\ state = "Running" /\ pc = "eof"
  /\ \/ state' = "ShuttingDown" /\ count' = BufSize /\ captured' = BufferStart(BufSize)
     \/ state' = "failed" /\ UNCHANGED <<count, captured>>
  /\ UNCHANGED <<vars, reused>>

TakeErr ==
  /\ state = "Running" /\ pc = "err"
  /\ state' = "failed"
  /\ UNCHANGED <<vars, count, captured, reused>>

(* Variant of ShutdownReady: only after a clean end.                       *)
ShutdownOnlyOk ==
  /\ state = "ShuttingDown" /\ pc = "ok"
  /\ state' = "Done"
  /\ UNCHANGED <<vars, count, captured, reused>>

(* poll_shutdown: Ok, or UnexpectedEof which is taken for Ok.              *)
ShutdownReady ==
  /\ state = "ShuttingDown"
  /\ state' = "Done"
  /\ UNCHANGED <<vars, count, captured, reused>>

ShutdownErr ==
  /\ state = "ShuttingDown"
  /\ state' = "failed"
  /\ UNCHANGED <<vars, count, captured, reused>>

Takes == TakeOk \/ TakeEof \/ TakeErr

TransferNext ==
  \/ CopyStep(Poll \/ Fills \/ Writes \/ Flushes \/ Fails)
  \/ Takes \/ ShutdownReady \/ ShutdownErr
  \/ Source /\ UNCHANGED <<transfer, reused>>

TransferSpec == TransferInit /\ [][TransferNext]_tvars

(* A poll runs to its end and is repeated when its waker is due; the peer  *)
(* at the writing end reads on, so poll_write, poll_flush and              *)
(* poll_shutdown are not pending forever.  The source owes nothing: it may *)
(* stay silent.                                                            *)
TransferFairness ==
  /\ WF_tvars(CopyStep(Poll /\ WakeDue))
  /\ WF_tvars(CopyStep(Fills \/ Writes \/ Flushes))
  /\ SF_tvars(CopyStep(\E i \in 1..BufSize : WriteReady(i)))
  /\ SF_tvars(CopyStep(FlushReady))
  /\ WF_tvars(Takes)
  /\ WF_tvars(ShutdownReady)

FairTransfer == TransferSpec /\ TransferFairness

-----------------------------------------------------------------------------
Stream(n) == [k \in 1..n |-> k]
Clean == state \in {"ShuttingDown", "Done"} /\ pc = "ok"

(* As long as the buffer was not reused, the text taken is the stream,     *)
(* however the bytes were split into reads, top-ups and partial writes     *)
(* (debug_stream.rs:53).                                                   *)
OneFillCaptured == (Clean /\ ~reused) => captured = Stream(amt)

(* A stream of any length is copied "using buffers of the specified size"  *)
(* (debug_stream.rs:106): a transfer does not panic for its length.        *)
LongStreamsEnd == state = "panicked" => amt <= BufSize

(* Once the source has closed, the transfer is over some day: the writer   *)
(* takes what is left and is shut down, or fails (FairTransfer, under      *)
(* which it is not pending for ever).                                      *)
ClosedSourceEnds == closed ~> state \in Over
=============================================================================

------------------------------- MODULE Relay -------------------------------
(***************************************************************************)
(* copy_bidirectional_impl (debug_stream.rs): one task that drives two     *)
(* transfers, client to target ("up") and target to client ("down").  Each *)
(* poll of the task calls transfer_one_direction for up, then for down; an *)
(* error of either returns at once, and Ok is returned by the first poll   *)
(* that finds both Done.                                                   *)
(*                                                                         *)
(* Each direction is a Transfer of its own; this module says when its      *)
(* steps happen.  The peers may send, close and take bytes at any time,    *)
(* also between the two calls of a poll.                                   *)
(***************************************************************************)
EXTENDS Naturals

CONSTANTS
  UpBuf, UpMax,     \* BufSize and MaxBytes of up
  DownBuf, DownMax  \* and of down

ASSUME RelayAssumption ==
  /\ UpBuf \in Nat \ {0} /\ UpMax \in Nat
  /\ DownBuf \in Nat \ {0} /\ DownMax \in Nat

VARIABLES
  turn,  \* "idle" between polls, the direction being polled, or the result
  u_read_done, u_need_flush, u_pos, u_cap, u_amt, u_buf, u_pc, u_wait,
  u_sent, u_closed, u_rd, u_out, u_flushed,
  u_state, u_count, u_captured, u_reused,
  d_read_done, d_need_flush, d_pos, d_cap, d_amt, d_buf, d_pc, d_wait,
  d_sent, d_closed, d_rd, d_out, d_flushed,
  d_state, d_count, d_captured, d_reused

Up == INSTANCE Transfer WITH
  BufSize <- UpBuf, MaxBytes <- UpMax,
  read_done <- u_read_done, need_flush <- u_need_flush, pos <- u_pos,
  cap <- u_cap, amt <- u_amt, buf <- u_buf, pc <- u_pc, wait <- u_wait,
  sent <- u_sent, closed <- u_closed, rd <- u_rd, out <- u_out,
  flushed <- u_flushed, state <- u_state, count <- u_count,
  captured <- u_captured, reused <- u_reused

Down == INSTANCE Transfer WITH
  BufSize <- DownBuf, MaxBytes <- DownMax,
  read_done <- d_read_done, need_flush <- d_need_flush, pos <- d_pos,
  cap <- d_cap, amt <- d_amt, buf <- d_buf, pc <- d_pc, wait <- d_wait,
  sent <- d_sent, closed <- d_closed, rd <- d_rd, out <- d_out,
  flushed <- d_flushed, state <- d_state, count <- d_count,
  captured <- d_captured, reused <- d_reused

upRun == <<u_state, u_count, u_captured, u_reused>>
up == <<u_read_done, u_need_flush, u_pos, u_cap, u_amt, u_buf, u_pc, u_wait,
        u_sent, u_closed, u_rd, u_out, u_flushed, upRun>>
downRun == <<d_state, d_count, d_captured, d_reused>>
down == <<d_read_done, d_need_flush, d_pos, d_cap, d_amt, d_buf, d_pc, d_wait,
          d_sent, d_closed, d_rd, d_out, d_flushed, downRun>>
rvars == <<turn, up, down>>

Results == {"ok", "err", "panicked"}

-----------------------------------------------------------------------------
RelayInit == turn = "idle" /\ Up!TransferInit /\ Down!TransferInit

(* A call of transfer_one_direction enters poll_copy while it is Running.  *)
CallUp == IF u_state = "Running" THEN Up!CopyStep(Up!Poll) ELSE UNCHANGED up
CallDown == IF d_state = "Running" THEN Down!CopyStep(Down!Poll) ELSE UNCHANGED down

(* What the call does until it returns.                                    *)
UpInside ==
  \/ Up!CopyStep(Up!Fills \/ Up!Writes \/ Up!Flushes \/ Up!Fails)
  \/ Up!Takes \/ Up!ShutdownReady \/ Up!ShutdownErr

DownInside ==
  \/ Down!CopyStep(Down!Fills \/ Down!Writes \/ Down!Flushes \/ Down!Fails)
  \/ Down!Takes \/ Down!ShutdownReady \/ Down!ShutdownErr

(* It returns Pending from poll_copy or from poll_shutdown, or Ready(Ok).  *)
Yields(state, pc) ==
  \/ state = "Running" /\ pc = "parked"
  \/ state \in {"ShuttingDown", "Done"}

(* Variant of Begin: poll_copy is entered whatever the TransferState.      *)
BeginRestarts ==
  /\ turn = "idle"
  /\ turn' = "up"
  /\ u_pc' = "fill"
  /\ UNCHANGED <<u_read_done, u_need_flush, u_pos, u_cap, u_amt, u_buf, u_wait,
                 u_sent, u_closed, u_rd, u_out, u_flushed, upRun, down>>

(* The executor polls the task.                                            *)
Begin ==
  /\ turn = "idle"
  /\ turn' = "up"
  /\ CallUp
  /\ UNCHANGED down

UpRuns == turn = "up" /\ UpInside /\ UNCHANGED <<turn, down>>
DownRuns == turn = "down" /\ DownInside /\ UNCHANGED <<turn, up>>

(* Variant of UpReturns: ready! at the first call (debug_stream.rs:144).   *)
UpReturnsReady ==
  /\ turn = "up"
  /\ Yields(u_state, u_pc)
  /\ \/ u_state = "Done" /\ turn' = "down" /\ CallDown
     \/ u_state # "Done" /\ turn' = "idle" /\ UNCHANGED down
  /\ UNCHANGED up

(* Variant: down is left alone once up is Done.                            *)
UpReturnsLast ==
  /\ turn = "up"
  /\ Yields(u_state, u_pc)
  /\ \/ u_state # "Done" /\ turn' = "down" /\ CallDown
     \/ u_state = "Done" /\ turn' = "idle" /\ UNCHANGED down
  /\ UNCHANGED up

(* Whether up is Ready or Pending, down is polled in the same poll.        *)
UpReturns ==
  /\ turn = "up"
  /\ Yields(u_state, u_pc)
  /\ turn' = "down"
  /\ CallDown
  /\ UNCHANGED up

(* Variant of DownReturns: the relay ends with the first direction.        *)
DownReturnsEither ==
  /\ turn = "down"
  /\ Yields(d_state, d_pc)
  /\ turn' = IF u_state = "Done" \/ d_state = "Done" THEN "ok" ELSE "idle"
  /\ UNCHANGED <<up, down>>

(* The two ready! at the end of the closure.                               *)
DownReturns ==
  /\ turn = "down"
  /\ Yields(d_state, d_pc)
  /\ turn' = IF u_state = "Done" /\ d_state = "Done" THEN "ok" ELSE "idle"
  /\ UNCHANGED <<up, down>>

(* The `?` of either call, and a panic that unwinds through the task.      *)
Breaks ==
  /\ \/ turn = "up" /\ u_state = "failed" /\ turn' = "err"
     \/ turn = "down" /\ d_state = "failed" /\ turn' = "err"
     \/ turn = "up" /\ u_state = "panicked" /\ turn' = "panicked"
     \/ turn = "down" /\ d_state = "panicked" /\ turn' = "panicked"
  /\ UNCHANGED <<up, down>>

(* The peers; their streams are dropped with the task.                     *)
UpSource ==
  /\ turn \notin Results
  /\ Up!Source
  /\ UNCHANGED <<upRun, turn, down>>

DownSource ==
  /\ turn \notin Results
  /\ Down!Source
  /\ UNCHANGED <<downRun, turn, up>>

InPoll == UpRuns \/ UpReturns \/ DownRuns \/ DownReturns \/ Breaks

RelayNext == Begin \/ InPoll \/ UpSource \/ DownSource

RelaySpec == RelayInit /\ [][RelayNext]_rvars

-----------------------------------------------------------------------------
(* The task is polled again when one of the calls of its last poll has a   *)
(* waker that is due: poll_copy's, or that of a pending shutdown.          *)
WakeIsDue ==
  \/ u_state = "ShuttingDown"
  \/ u_state = "Running" /\ Up!WakeDue
  \/ d_state = "ShuttingDown"
  \/ d_state = "Running" /\ Down!WakeDue

RelayScheduling == WF_rvars(Begin /\ WakeIsDue) /\ WF_rvars(InPoll)

RelayFairSpec == RelaySpec /\ RelayScheduling

(* The peer at the writing end of a direction takes bytes, in the end: no  *)
(* write, flush or shutdown of it is pending forever.  Assumptions of the  *)
(* properties, each of the direction it speaks of.                         *)
TargetTakes ==
  /\ SF_rvars(UpRuns /\ Up!CopyStep(\E i \in 1..UpBuf : Up!WriteReady(i)))
  /\ SF_rvars(UpRuns /\ Up!CopyStep(Up!FlushReady))
  /\ SF_rvars(UpRuns /\ Up!ShutdownReady)

ClientTakes ==
  /\ SF_rvars(DownRuns /\ Down!CopyStep(\E i \in 1..DownBuf : Down!WriteReady(i)))
  /\ SF_rvars(DownRuns /\ Down!CopyStep(Down!FlushReady))
  /\ SF_rvars(DownRuns /\ Down!ShutdownReady)

-----------------------------------------------------------------------------
(* Each direction of a relay behaves as a transfer by itself, whatever the *)
(* other does: what holds of Transfer holds of both, the order and         *)
(* completeness of the bytes above all (debug_stream.rs:143-144).          *)
TwoTransfers == Up!TransferSpec /\ Down!TransferSpec

(* Ok is returned for two directions that are over: each writer was shut   *)
(* down, and one that did not meet UnexpectedEof has written and flushed   *)
(* all its peer sent before closing.  The text returned for such a one is  *)
(* that stream, if its buffer was not reused (debug_stream.rs:53,148-153). *)
OkMeansBoth ==
  turn = "ok" =>
    /\ u_state = "Done" /\ d_state = "Done"
    /\ u_pc = "ok" => /\ u_closed /\ u_flushed = u_sent
                      /\ ~u_reused => u_captured = Up!Stream(u_sent)
    /\ d_pc = "ok" => /\ d_closed /\ d_flushed = d_sent
                      /\ ~d_reused => d_captured = Down!Stream(d_sent)

(* Between two polls, and while the other direction is polled, a direction *)
(* has returned Pending or Ready: no error or panic of it, no text to take *)
(* and no half done write is left for a poll that may never come           *)
(* (debug_stream.rs:143-151).                                              *)
BothReturned ==
  /\ turn \in {"idle", "up"} => Yields(d_state, d_pc)
  /\ turn \in {"idle", "down"} => Yields(u_state, u_pc)

(* What one peer sends is written and flushed to the other although the    *)
(* opposite direction is silent, half-closed or blocked by a peer that     *)
(* takes nothing - or the relay is over, or that direction met             *)
(* UnexpectedEof (debug_stream.rs:143-151).                                *)
FlowsAlone ==
  /\ TargetTakes =>
       \A k \in 1..UpMax :
         u_sent >= k ~> (u_flushed >= k \/ u_pc \in Up!Errors \/ turn \in Results)
  /\ ClientTakes =>
       \A k \in 1..DownMax :
         d_sent >= k ~> (d_flushed >= k \/ d_pc \in Down!Errors \/ turn \in Results)

(* Once both peers have closed the relay returns.                          *)
RelayEnds ==
  (TargetTakes /\ ClientTakes) => ((u_closed /\ d_closed) ~> turn \in Results)
=============================================================================

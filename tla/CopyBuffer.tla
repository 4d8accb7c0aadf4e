----------------------------- MODULE CopyBuffer -----------------------------
(***************************************************************************)
(* CopyBuffer::poll_copy (copy.rs): one direction of a tunnel.             *)
(*                                                                         *)
(* The task is polled; during a poll it reads into a fixed buffer and      *)
(* writes out of it until the reader or the writer is pending, an error    *)
(* occurs, or everything up to EOF has been written and flushed.  Each     *)
(* call of poll_read, poll_write and poll_flush is a step, and the source  *)
(* may send between any two of them.                                       *)
(*                                                                         *)
(* Bytes are abstracted to their position in the stream: the k-th byte the *)
(* source sends is k, and 0 is the initial content of a buffer slot.       *)
(***************************************************************************)
EXTENDS Naturals

CONSTANTS
  BufSize,   \* length of buf (DEFAULT_BUF_SIZE, 8192 in the program)
  MaxBytes   \* bound: bytes the source sends before it closes

ASSUME BufferAssumption == BufSize \in Nat \ {0} /\ MaxBytes \in Nat

VARIABLES
  (* the fields of CopyBuffer *)
  read_done, need_flush, pos, cap, amt, buf,
  (* where poll_copy is, and what it waits for when it gave Pending *)
  pc, wait,
  (* the source: bytes sent and closed; bytes poll_read has returned *)
  sent, closed, rd,
  (* the writer: bytes it was given, and how many of them it has flushed *)
  out, flushed

fields == <<read_done, need_flush, pos, cap, amt, buf>>
source == <<sent, closed>>
vars == <<fields, pc, wait, source, rd, out, flushed>>

-----------------------------------------------------------------------------
Slots == 0..(BufSize - 1)

(* "fill": head of the loop.  "write": the write loop.  "flush_idle" and   *)
(* "flush_end": the two poll_flush calls.  "parked": Pending was returned. *)
(* "ok", "eof", "err": Ready(Ok(amt)), Ready(Err) of kind UnexpectedEof,   *)
(* and of any other kind.                                                  *)
Ended == {"ok", "eof", "err"}
Errors == {"eof", "err"}
Points == {"fill", "write", "flush_idle", "flush_end", "parked"} \cup Ended

TypeOK ==
  /\ read_done \in BOOLEAN /\ need_flush \in BOOLEAN
  /\ pos \in 0..BufSize /\ cap \in 0..BufSize
  /\ amt \in Nat
  /\ buf \in [Slots -> Nat]
  /\ pc \in Points
  /\ wait \in {"none", "read", "write", "flush"}
  /\ sent \in 0..MaxBytes /\ closed \in BOOLEAN
  /\ rd \in 0..MaxBytes
  /\ flushed \in Nat
  /\ out \in [1..amt -> Nat]

Init ==
  /\ read_done = FALSE /\ need_flush = FALSE
  /\ pos = 0 /\ cap = 0 /\ amt = 0
  /\ buf = [i \in Slots |-> 0]
  /\ pc = "parked" /\ wait = "none"
  /\ sent = 0 /\ closed = FALSE
  /\ rd = 0
  /\ out = [k \in 1..0 |-> 0] /\ flushed = 0

Park(reason) == pc' = "parked" /\ wait' = reason
Goto(point) == pc' = point /\ UNCHANGED wait

-----------------------------------------------------------------------------
(* Variant of Fill: a read that ignores what the buffer holds (no          *)
(* set_filled).                                                            *)
FillAtStart(n) ==
  /\ n \in 0..(BufSize - cap)
  /\ n <= sent - rd
  /\ n = 0 => cap = BufSize \/ (closed /\ sent = rd)
  /\ buf' = [i \in Slots |-> IF i < n THEN rd + 1 + i ELSE buf[i]]
  /\ read_done' = (n = 0)
  /\ cap' = cap + n
  /\ rd' = rd + n

(* poll_fill_buf, when the reader is ready with n bytes.  It has none at   *)
(* EOF, and none either for a buffer that is full, whatever it holds: a    *)
(* read that adds nothing sets read_done in both cases.                    *)
Fill(n) ==
  /\ n \in 0..(BufSize - cap)
  /\ n <= sent - rd
  /\ n = 0 => cap = BufSize \/ (closed /\ sent = rd)
  /\ buf' = [i \in Slots |-> IF cap <= i /\ i < cap + n
                             THEN rd + 1 + (i - cap) ELSE buf[i]]
  /\ read_done' = (n = 0)
  /\ cap' = cap + n
  /\ rd' = rd + n

ReaderPending == sent = rd /\ ~closed

(* Variant of WantsRead: also into a full buffer.                          *)
WantsReadAlways == ~read_done

(* The condition under which poll_copy and poll_write_buf read at all.     *)
WantsRead == cap < BufSize /\ ~read_done

Poll ==
  /\ pc = "parked"
  /\ Goto("fill")
  /\ UNCHANGED <<fields, source, rd, out, flushed>>

SkipFill ==
  /\ pc = "fill"
  /\ ~WantsRead
  /\ Goto("write")
  /\ UNCHANGED <<fields, source, rd, out, flushed>>

FillReady(n) ==
  /\ pc = "fill"
  /\ WantsRead
  /\ Fill(n)
  /\ Goto("write")
  /\ UNCHANGED <<need_flush, pos, amt, source, out, flushed>>

FillErr(e) ==
  /\ pc = "fill"
  /\ WantsRead
  /\ Goto(e)
  /\ UNCHANGED <<fields, source, rd, out, flushed>>

(* Variant: the flush before waiting is forgotten.                         *)
FillPendingNoFlush ==
  /\ pc = "fill"
  /\ WantsRead
  /\ ReaderPending
  /\ \/ pos # cap /\ Goto("write")
     \/ pos = cap /\ Park("read")
  /\ UNCHANGED <<fields, source, rd, out, flushed>>

(* A pending reader is ignored while there is something to write; with an  *)
(* empty buffer what was written so far is flushed before giving Pending.  *)
FillPending ==
  /\ pc = "fill"
  /\ WantsRead
  /\ ReaderPending
  /\ \/ pos # cap /\ Goto("write")
     \/ pos = cap /\ need_flush /\ Goto("flush_idle")
     \/ pos = cap /\ ~need_flush /\ Park("read")
  /\ UNCHANGED <<fields, source, rd, out, flushed>>

(* Variants: need_flush is not set; the write starts at slot 0.            *)
WriteNoFlush(i) ==
  /\ pc = "write"
  /\ i \in 1..(cap - pos)
  /\ out' = [k \in 1..(amt + i) |->
               IF k <= amt THEN out[k] ELSE buf[pos + (k - amt) - 1]]
  /\ pos' = pos + i
  /\ amt' = amt + i
  /\ Goto("write")
  /\ UNCHANGED <<read_done, need_flush, cap, buf, source, rd, flushed>>

WriteFromStart(i) ==
  /\ pc = "write"
  /\ i \in 1..(cap - pos)
  /\ out' = [k \in 1..(amt + i) |->
               IF k <= amt THEN out[k] ELSE buf[(k - amt) - 1]]
  /\ pos' = pos + i
  /\ amt' = amt + i
  /\ need_flush' = TRUE
  /\ Goto("write")
  /\ UNCHANGED <<read_done, cap, buf, source, rd, flushed>>

(* poll_write takes i bytes of buf[pos..cap].                              *)
WriteReady(i) ==
  /\ pc = "write"
  /\ i \in 1..(cap - pos)
  /\ out' = [k \in 1..(amt + i) |->
               IF k <= amt THEN out[k] ELSE buf[pos + (k - amt) - 1]]
  /\ pos' = pos + i
  /\ amt' = amt + i
  /\ need_flush' = TRUE
  /\ Goto("write")
  /\ UNCHANGED <<read_done, cap, buf, source, rd, flushed>>

(* poll_write fails, or takes nothing (WriteZero).                         *)
WriteErr(e) ==
  /\ pc = "write"
  /\ pos < cap
  /\ Goto(e)
  /\ UNCHANGED <<fields, source, rd, out, flushed>>

(* poll_write is pending: the buffer is topped up when the reader is ready *)
(* and there is room, an error of that read is returned, and Pending is    *)
(* given in every other case.                                              *)
WritePending ==
  /\ pc = "write"
  /\ pos < cap
  /\ \/ /\ WantsRead
        /\ \E n \in 0..BufSize : Fill(n)
        /\ Park("write")
     \/ /\ WantsRead
        /\ \E e \in Errors : Goto(e)
        /\ UNCHANGED <<buf, read_done, cap, rd>>
     \/ /\ WantsRead => ReaderPending
        /\ Park("write")
        /\ UNCHANGED <<buf, read_done, cap, rd>>
  /\ UNCHANGED <<need_flush, pos, amt, source, out, flushed>>

(* Variant: one write instead of the loop.                                 *)
EmptiedAfterOne ==
  /\ pc = "write"
  /\ pos = cap \/ pos > 0
  /\ pos' = 0 /\ cap' = 0
  /\ Goto(IF read_done THEN "flush_end" ELSE "fill")
  /\ UNCHANGED <<read_done, need_flush, amt, buf, source, rd, out, flushed>>

(* End of the write loop: the buffer is considered empty.                  *)
Emptied ==
  /\ pc = "write"
  /\ pos = cap
  /\ pos' = 0 /\ cap' = 0
  /\ Goto(IF read_done THEN "flush_end" ELSE "fill")
  /\ UNCHANGED <<read_done, need_flush, amt, buf, source, rd, out, flushed>>

FlushReady ==
  /\ \/ /\ pc = "flush_idle"
        /\ need_flush' = FALSE
        /\ Park("read")
     \/ /\ pc = "flush_end"
        /\ Goto("ok")
        /\ UNCHANGED need_flush
  /\ flushed' = amt
  /\ UNCHANGED <<read_done, pos, cap, amt, buf, source, rd, out>>

FlushPending ==
  /\ pc \in {"flush_idle", "flush_end"}
  /\ Park("flush")
  /\ UNCHANGED <<fields, source, rd, out, flushed>>

FlushErr(e) ==
  /\ pc \in {"flush_idle", "flush_end"}
  /\ Goto(e)
  /\ UNCHANGED <<fields, source, rd, out, flushed>>

-----------------------------------------------------------------------------
(* The peer at the reading end.                                            *)
Send(n) ==
  /\ ~closed
  /\ sent + n <= MaxBytes
  /\ sent' = sent + n
  /\ UNCHANGED <<fields, pc, wait, closed, rd, out, flushed>>

Close ==
  /\ ~closed
  /\ closed' = TRUE
  /\ UNCHANGED <<fields, pc, wait, sent, rd, out, flushed>>

Source == Close \/ \E n \in 1..MaxBytes : Send(n)

Fails == \E e \in Errors : FillErr(e) \/ WriteErr(e) \/ FlushErr(e)
Fills == SkipFill \/ FillPending \/ \E n \in 0..BufSize : FillReady(n)
Writes == Emptied \/ WritePending \/ \E i \in 1..BufSize : WriteReady(i)
Flushes == FlushReady \/ FlushPending

Next == Poll \/ Fills \/ Writes \/ Flushes \/ Fails \/ Source

Spec == Init /\ [][Next]_vars

(* The executor runs a poll to its end, and polls again once what the task *)
(* waits for has happened; the task may also be woken for no reason of its *)
(* own (the other direction shares its waker), which is not relied on.     *)
WakeDue == wait # "read" \/ ~ReaderPending

-----------------------------------------------------------------------------
(* Safety.                                                                 *)

(* The window of unwritten bytes lies in the buffer (the debug_assert of   *)
(* copy.rs:200-203) and holds exactly the bytes that were read and not yet *)
(* written, in order, also after a top-up during a pending write.          *)
WindowHoldsRest ==
  /\ pos <= cap /\ cap <= BufSize
  /\ rd = amt + (cap - pos)
  /\ \A i \in Slots : pos <= i /\ i < cap => buf[i] = amt + 1 + (i - pos)

(* What the writer was given is the stream itself, nothing lost, repeated  *)
(* or reordered by partial writes and refills.                             *)
Verbatim == \A k \in 1..amt : out[k] = k

(* Ready(Ok(amt)) is returned only when EOF was seen and every byte sent   *)
(* has been written and flushed.                                           *)
OkMeansAll ==
  pc = "ok" => /\ read_done /\ closed
               /\ amt = sent
               /\ flushed = amt

(* The task never waits for the reader while the writer sits on bytes it   *)
(* was not told to flush (copy.rs:147-148: "to avoid deadlock when the     *)
(* reader depends on buffered writer").                                    *)
NoUnflushedWait ==
  (pc = "parked" /\ wait = "read") => flushed = amt

(* The facts that make the invariants above inductive.                     *)
FlushAccounted == flushed <= amt /\ (need_flush \/ flushed = amt)
EofSeen == read_done => closed /\ rd = sent
EmptyAtFlush == pc \in {"flush_idle", "flush_end", "ok"} => pos = cap
EndAtFlush == pc \in {"flush_end", "ok"} => read_done
SourceAhead == rd <= sent

CopyInv ==
  /\ TypeOK
  /\ WindowHoldsRest
  /\ Verbatim
  /\ OkMeansAll
  /\ NoUnflushedWait
  /\ FlushAccounted
  /\ EofSeen
  /\ EmptyAtFlush
  /\ EndAtFlush
  /\ SourceAhead

(* poll_copy implements a pipe of capacity BufSize.                        *)
Pipe == INSTANCE BytePipe
        WITH Capacity <- BufSize, taken <- rd, given <- out,
             ended <- IF pc = "ok" THEN "ok"
                      ELSE IF pc \in Errors THEN "broken" ELSE "open"
PipeSpec == Pipe!Spec

-----------------------------------------------------------------------------
(* Liveness, under the fairness that Transfer states.                      *)

(* Every byte the source sends is flushed to the peer, or the copy fails;  *)
(* the source need not send more, nor close, for that to happen.           *)
SentIsFlushed ==
  \A k \in 1..MaxBytes : sent >= k ~> (flushed >= k \/ pc \in Errors)
=============================================================================

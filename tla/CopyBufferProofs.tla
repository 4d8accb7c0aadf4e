-------------------------- MODULE CopyBufferProofs --------------------------
(***************************************************************************)
(* Proofs about poll_copy, for a buffer of any size and a stream of any    *)
(* length: CopyInv is inductive, so what the writer is given is the stream *)
(* itself, and poll_copy implements BytePipe.                              *)
(***************************************************************************)
EXTENDS CopyBuffer, TLAPS

(* A CopyBuffer as `new` makes it satisfies the invariant.                 *)
LEMMA InitCopy == Init => CopyInv
  <1> SUFFICES ASSUME Init PROVE CopyInv
    OBVIOUS
  <1> USE BufferAssumption DEF Init
  <1>1. out \in [1..amt -> Nat] /\ Verbatim
    <2>1. 1..amt = {}
      OBVIOUS
    <2> QED BY <2>1 DEF Verbatim
  <1>2. TypeOK
    <2>1. buf \in [Slots -> Nat] /\ pc \in Points
      BY DEF Points
    <2>2. pos \in 0..BufSize /\ sent \in 0..MaxBytes /\ rd \in 0..MaxBytes
      OBVIOUS
    <2> QED BY <1>1, <2>1, <2>2 DEF TypeOK
  <1>3. WindowHoldsRest
    BY DEF WindowHoldsRest, Slots
  <1>4. OkMeansAll /\ NoUnflushedWait /\ FlushAccounted /\ EofSeen
        /\ EmptyAtFlush /\ EndAtFlush /\ SourceAhead
    BY DEF OkMeansAll, NoUnflushedWait, FlushAccounted, EofSeen, EmptyAtFlush,
       EndAtFlush, SourceAhead
  <1> QED BY <1>1, <1>2, <1>3, <1>4 DEF CopyInv

(* A read appends to the window: everything CopyInv says of the buffer     *)
(* holds of it with n more bytes (poll_fill_buf, copy.rs:43-62).           *)
LEMMA FillKeepsWindow ==
  ASSUME CopyInv, NEW n, Fill(n), WantsRead, ~(pc \in {"flush_idle", "flush_end", "ok"}),
         UNCHANGED <<pos, amt, sent, closed>>
  PROVE  /\ cap' \in 0..BufSize /\ rd' \in 0..MaxBytes
         /\ read_done' \in BOOLEAN
         /\ buf' \in [Slots -> Nat]
         /\ WindowHoldsRest'
         /\ EofSeen'
         /\ SourceAhead'
  <1> USE BufferAssumption DEF CopyInv, TypeOK, Fill, Slots
  <1>1. n \in Nat /\ cap + n <= BufSize /\ rd + n <= sent
    BY DEF SourceAhead
  <1>2. cap' \in 0..BufSize /\ rd' \in 0..MaxBytes /\ read_done' \in BOOLEAN
    BY <1>1
  <1>3. buf' \in [Slots -> Nat]
    BY <1>1
  <1>4. WindowHoldsRest'
    <2>1. pos <= cap' /\ cap' <= BufSize /\ rd' = amt + (cap' - pos)
      BY <1>1 DEF WindowHoldsRest
    <2>2. ASSUME NEW i \in Slots, pos <= i, i < cap'
          PROVE  buf'[i] = amt + 1 + (i - pos)
      <3>1. CASE i < cap
        BY <1>1, <2>2, <3>1 DEF WindowHoldsRest
      <3>2. CASE cap <= i
        BY <1>1, <2>2, <3>2 DEF WindowHoldsRest
      <3> QED BY <3>1, <3>2
    <2> QED BY <2>1, <2>2 DEF WindowHoldsRest
  <1>5. EofSeen' /\ SourceAhead'
    BY <1>1 DEF EofSeen, SourceAhead, WantsRead
  <1> QED BY <1>2, <1>3, <1>4, <1>5

(* A step that touches neither the buffer, nor its window, nor what was    *)
(* written says the same of them after as before.                          *)
LEMMA WindowUntouched ==
  ASSUME CopyInv, UNCHANGED <<pos, cap, buf, rd, amt, out>>
  PROVE  /\ WindowHoldsRest' /\ Verbatim'
         /\ pos' \in 0..BufSize /\ cap' \in 0..BufSize /\ amt' \in Nat
         /\ buf' \in [Slots -> Nat] /\ rd' \in 0..MaxBytes
         /\ out' \in [1..amt' -> Nat]
  BY DEF CopyInv, TypeOK, Slots, WindowHoldsRest, Verbatim

(* Reads, real or skipped, keep the invariant (copy.rs:115-167).           *)
LEMMA FillsKeep == CopyInv /\ (Poll \/ Fills) => CopyInv'
  <1> SUFFICES ASSUME CopyInv, Poll \/ Fills PROVE CopyInv'
    OBVIOUS
  <1> USE BufferAssumption
      DEF Points, Ended, Goto, Park
  <1>1. CASE Poll \/ SkipFill \/ FillPending
    <2> USE <1>1 DEF Poll, SkipFill, FillPending, fields, source
    <2>1. UNCHANGED <<pos, cap, buf, rd, amt, out>>
      OBVIOUS
    <2>2. TypeOK' /\ WindowHoldsRest' /\ Verbatim'
      BY <2>1, WindowUntouched DEF CopyInv, TypeOK
    <2>3. OkMeansAll' /\ NoUnflushedWait' /\ EmptyAtFlush' /\ EndAtFlush'
      BY DEF CopyInv, OkMeansAll, NoUnflushedWait, EmptyAtFlush, EndAtFlush,
         FlushAccounted
    <2>4. FlushAccounted' /\ EofSeen' /\ SourceAhead'
      BY DEF CopyInv, FlushAccounted, EofSeen, SourceAhead
    <2> QED BY <2>2, <2>3, <2>4 DEF CopyInv
  <1>2. ASSUME NEW n \in 0..BufSize, FillReady(n)
        PROVE  CopyInv'
    <2>1. /\ cap' \in 0..BufSize /\ rd' \in 0..MaxBytes
          /\ read_done' \in BOOLEAN
          /\ buf' \in [Slots -> Nat]
          /\ WindowHoldsRest' /\ EofSeen' /\ SourceAhead'
      BY <1>2, FillKeepsWindow DEF FillReady, source
    <2>2. TypeOK'
      BY <1>2, <2>1 DEF FillReady, source, CopyInv, TypeOK, Slots
    <2>3. Verbatim' /\ FlushAccounted'
      BY <1>2 DEF FillReady, source, CopyInv, Verbatim, FlushAccounted
    <2>4. OkMeansAll' /\ NoUnflushedWait' /\ EmptyAtFlush' /\ EndAtFlush'
      BY <1>2 DEF FillReady, OkMeansAll, NoUnflushedWait, EmptyAtFlush, EndAtFlush
    <2> QED BY <2>1, <2>2, <2>3, <2>4 DEF CopyInv
  <1> QED BY <1>1, <1>2 DEF Fills

(* The write loop keeps the invariant: a partial write moves the front of  *)
(* the window, a pending one may move its end (copy.rs:170-211).           *)
LEMMA WritesKeep == CopyInv /\ Writes => CopyInv'
  <1> SUFFICES ASSUME CopyInv, Writes PROVE CopyInv'
    OBVIOUS
  <1> USE BufferAssumption DEF Points, Ended, Goto, Park
  <1>1. CASE Emptied
    BY <1>1 DEF Emptied, source,
       CopyInv, TypeOK, Slots, WindowHoldsRest, Verbatim, OkMeansAll,
       NoUnflushedWait, FlushAccounted, EofSeen, EmptyAtFlush, EndAtFlush,
       SourceAhead
  <1>2. CASE WritePending
    <2> USE <1>2 DEF WritePending
    <2>1. ASSUME WantsRead, NEW n \in 0..BufSize, Fill(n), Park("write")
          PROVE  CopyInv'
      <3>1. /\ cap' \in 0..BufSize /\ rd' \in 0..MaxBytes
            /\ read_done' \in BOOLEAN
            /\ buf' \in [Slots -> Nat]
            /\ WindowHoldsRest' /\ EofSeen' /\ SourceAhead'
        BY <2>1, FillKeepsWindow DEF source
      <3>2. TypeOK'
        BY <2>1, <3>1 DEF source, CopyInv, TypeOK, Slots
      <3>3. Verbatim' /\ FlushAccounted'
        BY DEF source, CopyInv, Verbatim, FlushAccounted
      <3>4. OkMeansAll' /\ NoUnflushedWait' /\ EmptyAtFlush' /\ EndAtFlush'
        BY <2>1 DEF OkMeansAll, NoUnflushedWait, EmptyAtFlush, EndAtFlush
      <3> QED BY <3>1, <3>2, <3>3, <3>4 DEF CopyInv
    <2>2. ASSUME UNCHANGED <<buf, read_done, cap, rd>>,
                 \/ pc' = "parked" /\ wait' = "write"
                 \/ pc' \in Errors /\ wait' = wait
          PROVE  CopyInv'
      BY <2>2 DEF source, Errors,
         CopyInv, TypeOK, Slots, WindowHoldsRest, Verbatim, OkMeansAll,
         NoUnflushedWait, FlushAccounted, EofSeen, EmptyAtFlush, EndAtFlush,
         SourceAhead
    <2> QED BY <2>1, <2>2
  <1>3. ASSUME NEW i \in 1..BufSize, WriteReady(i)
        PROVE  CopyInv'
    <2> USE <1>3 DEF WriteReady
    <2>1. i \in Nat /\ i > 0 /\ pos + i <= cap
      BY DEF CopyInv, TypeOK
    <2>2. TypeOK'
      <3>1. ASSUME NEW k \in 1..(amt + i), ~(k <= amt)
            PROVE  pos + (k - amt) - 1 \in Slots
        BY <2>1, <3>1 DEF CopyInv, TypeOK, Slots
      <3>2. ASSUME NEW k \in 1..(amt + i)
            PROVE  (IF k <= amt THEN out[k] ELSE buf[pos + (k - amt) - 1]) \in Nat
        <4>1. CASE k <= amt
          BY <2>1, <4>1 DEF CopyInv, TypeOK
        <4>2. CASE ~(k <= amt)
          BY <3>1, <4>2 DEF CopyInv, TypeOK
        <4> QED BY <4>1, <4>2
      <3>3. out' \in [1..amt' -> Nat]
        BY <3>2
      <3>4. amt' \in Nat /\ pos' \in 0..BufSize
        BY <2>1 DEF CopyInv, TypeOK
      <3> QED BY <3>3, <3>4 DEF source, CopyInv, TypeOK
    <2>3. WindowHoldsRest'
      BY <2>1 DEF CopyInv, TypeOK, Slots, WindowHoldsRest
    <2>4. Verbatim'
      <3> SUFFICES ASSUME NEW k \in 1..amt' PROVE out'[k] = k
        BY DEF Verbatim
      <3>1. CASE k <= amt
        BY <2>1, <3>1 DEF CopyInv, TypeOK, Verbatim
      <3>2. CASE ~(k <= amt)
        <4> DEFINE j == pos + (k - amt) - 1
        <4>1. j \in Slots /\ pos <= j /\ j < cap
          BY <2>1, <3>2 DEF CopyInv, TypeOK, Slots
        <4>2. buf[j] = amt + 1 + (j - pos)
          BY <4>1 DEF CopyInv, WindowHoldsRest
        <4>3. out'[k] = buf[j]
          BY <2>1, <3>2 DEF CopyInv, TypeOK
        <4> QED BY <2>1, <4>2, <4>3, <3>2 DEF CopyInv, TypeOK
      <3> QED BY <3>1, <3>2
    <2>5. OkMeansAll' /\ NoUnflushedWait' /\ EmptyAtFlush' /\ EndAtFlush'
      BY DEF OkMeansAll, NoUnflushedWait, EmptyAtFlush, EndAtFlush
    <2>6. FlushAccounted' /\ EofSeen' /\ SourceAhead'
      BY <2>1 DEF source, CopyInv, TypeOK, FlushAccounted, EofSeen, SourceAhead
    <2> QED BY <2>2, <2>3, <2>4, <2>5, <2>6 DEF CopyInv
  <1> QED BY <1>1, <1>2, <1>3 DEF Writes

(* Flushes, failures and the source keep the invariant.                    *)
LEMMA OthersKeep == CopyInv /\ (Flushes \/ Fails \/ Source) => CopyInv'
  <1> SUFFICES ASSUME CopyInv, Flushes \/ Fails \/ Source PROVE CopyInv'
    OBVIOUS
  <1> USE BufferAssumption
      DEF Points, Ended, Goto, Park, fields, source
  <1>0. UNCHANGED <<pos, cap, buf, rd, amt, out>>
    BY DEF Flushes, FlushReady, FlushPending, Fails, FillErr, WriteErr, FlushErr,
       Source, Close, Send
  <1>1. CASE Flushes
    <2> USE <1>1 DEF Flushes, FlushReady, FlushPending
    <2>1. TypeOK' /\ WindowHoldsRest' /\ Verbatim'
      BY <1>0, WindowUntouched DEF CopyInv, TypeOK
    <2>2. FlushAccounted' /\ EofSeen' /\ SourceAhead' /\ NoUnflushedWait'
      BY DEF CopyInv, TypeOK, FlushAccounted, EofSeen, SourceAhead, NoUnflushedWait
    <2>3. EmptyAtFlush' /\ EndAtFlush'
      BY DEF CopyInv, EmptyAtFlush, EndAtFlush
    <2>4. OkMeansAll'
      BY DEF CopyInv, TypeOK, OkMeansAll, EmptyAtFlush, EndAtFlush, EofSeen,
         WindowHoldsRest
    <2> QED BY <2>1, <2>2, <2>3, <2>4 DEF CopyInv
  <1>2. CASE Fails
    <2> USE <1>2 DEF Fails, FillErr, WriteErr, FlushErr, Errors
    <2>1. TypeOK' /\ WindowHoldsRest' /\ Verbatim'
      BY <1>0, WindowUntouched DEF CopyInv, TypeOK
    <2>2. FlushAccounted' /\ EofSeen' /\ SourceAhead' /\ NoUnflushedWait'
      BY DEF CopyInv, FlushAccounted, EofSeen, SourceAhead, NoUnflushedWait
    <2>3. EmptyAtFlush' /\ EndAtFlush' /\ OkMeansAll'
      BY DEF CopyInv, EmptyAtFlush, EndAtFlush, OkMeansAll
    <2> QED BY <2>1, <2>2, <2>3 DEF CopyInv
  <1>3. CASE Source
    <2> USE <1>3 DEF Source, Close, Send
    <2>1. sent' \in 0..MaxBytes /\ sent' >= sent /\ closed' \in BOOLEAN
      <3>1. CASE Close
        BY <3>1 DEF CopyInv, TypeOK
      <3>2. ASSUME NEW n \in 1..MaxBytes, Send(n)
            PROVE  sent' \in 0..MaxBytes /\ sent' >= sent /\ closed' \in BOOLEAN
        BY <3>2 DEF CopyInv, TypeOK
      <3> QED BY <3>1, <3>2
    <2>2. TypeOK' /\ WindowHoldsRest' /\ Verbatim'
      BY <1>0, <2>1, WindowUntouched DEF CopyInv, TypeOK
    <2>3. FlushAccounted' /\ NoUnflushedWait' /\ EmptyAtFlush' /\ EndAtFlush'
      BY DEF CopyInv, FlushAccounted, NoUnflushedWait, EmptyAtFlush, EndAtFlush
    <2>4. EofSeen' /\ SourceAhead' /\ OkMeansAll'
      BY <2>1 DEF CopyInv, TypeOK, EofSeen, SourceAhead, OkMeansAll
    <2> QED BY <2>2, <2>3, <2>4 DEF CopyInv
  <1> QED BY <1>1, <1>2, <1>3

LEMMA StutterKeeps == CopyInv /\ UNCHANGED vars => CopyInv'
  BY DEF vars, fields, source, CopyInv, TypeOK, WindowHoldsRest, Verbatim,
     OkMeansAll, NoUnflushedWait, FlushAccounted, EofSeen, EmptyAtFlush,
     EndAtFlush, SourceAhead

(* CopyInv holds throughout (copy.rs).                                     *)
THEOREM CopyInvariant == Spec => []CopyInv
  <1>1. CopyInv /\ [Next]_vars => CopyInv'
    BY FillsKeep, WritesKeep, OthersKeep, StutterKeeps DEF Next
  <1> QED BY InitCopy, <1>1, PTL DEF Spec

(* The writer is given the stream itself, whatever the partial reads,      *)
(* partial writes and top-ups (copy.rs:64-86, 170-193).                    *)
THEOREM WrittenVerbatim == Spec => []Verbatim
  BY CopyInvariant, PTL DEF CopyInv

(* Ready(Ok(amt)) means every byte sent was written and flushed            *)
(* (copy.rs:209-226).                                                      *)
THEOREM OkIsComplete == Spec => []OkMeansAll
  BY CopyInvariant, PTL DEF CopyInv

(* The task never waits for the reader while the writer holds unflushed    *)
(* bytes (copy.rs:144-165).                                                *)
THEOREM NeverWaitsUnflushed == Spec => []NoUnflushedWait
  BY CopyInvariant, PTL DEF CopyInv

-----------------------------------------------------------------------------
(* The refinement.                                                         *)

(* By Verbatim the writer's bytes are those of the abstract pipe.          *)
LEMMA OutIsStream == CopyInv => out = Pipe!Stream(amt)
  BY DEF CopyInv, TypeOK, Verbatim, Pipe!Stream

(* What the bounds of the window say of the bytes inside.                  *)
LEMMA WindowArithmetic ==
  ASSUME NEW a \in Nat, NEW p \in 0..BufSize, NEW c \in 0..BufSize,
         NEW r \in 0..MaxBytes, p <= c, r = a + (c - p)
  PROVE  a \in 0..r /\ r \in Nat /\ r <= a + BufSize
  BY BufferAssumption

(* Under the mapping a step of poll_copy is a step of the pipe or none.    *)
LEMMA StepRefines ==
  ASSUME CopyInv, CopyInv', [Next]_vars
  PROVE  [Pipe!Next]_(Pipe!pipe)
  <1> DEFINE end == IF pc = "ok" THEN "ok"
                    ELSE IF pc \in Errors THEN "broken" ELSE "open"
  <1>1. out = Pipe!Stream(amt) /\ out' = Pipe!Stream(amt')
    BY OutIsStream, OutIsStream DEF CopyInv, TypeOK, Verbatim, Pipe!Stream
  <1>2. /\ amt \in 0..rd /\ amt' \in 0..rd' /\ rd' \in Nat
        /\ rd <= amt + BufSize /\ rd' <= amt' + BufSize
    <2>1. amt \in 0..rd /\ rd \in Nat /\ rd <= amt + BufSize
      BY WindowArithmetic DEF CopyInv, TypeOK, WindowHoldsRest
    <2>2. amt' \in 0..rd' /\ rd' \in Nat /\ rd' <= amt' + BufSize
      <3>1. /\ amt' \in Nat /\ pos' \in 0..BufSize /\ cap' \in 0..BufSize
            /\ rd' \in 0..MaxBytes
        BY DEF CopyInv, TypeOK
      <3>2. pos' <= cap' /\ cap' <= BufSize /\ rd' = amt' + (cap' - pos')
        BY DEF CopyInv, WindowHoldsRest
      <3> QED BY <3>1, <3>2, WindowArithmetic
    <2> QED BY <2>1, <2>2
  <1>3. ASSUME ~(pc \in Ended), ~(pc' \in Ended), rd <= rd', amt <= amt'
        PROVE  Pipe!Move
    <2>1. end = "open" /\ end' = "open"
      BY <1>3 DEF Ended, Errors
    <2>2. amt \in 0..rd /\ amt' \in amt..rd' /\ rd' \in Nat /\ rd' >= rd
      BY <1>2, <1>3 DEF CopyInv, TypeOK
    <2> QED BY <1>1, <1>2, <2>1, <2>2 DEF Pipe!Move
  <1>4. ASSUME UNCHANGED <<rd, out>>, pc' \in Errors, ~(pc \in Ended)
        PROVE  Pipe!Break
    BY <1>4 DEF Pipe!Break, Ended, Errors
  <1>5. ASSUME UNCHANGED <<rd, out, pc>>
        PROVE  UNCHANGED Pipe!pipe
    BY <1>5 DEF Pipe!pipe
  <1>6. CASE Poll \/ SkipFill \/ FillPending \/ Emptied \/ FlushPending
    <2>1. ~(pc \in Ended) /\ ~(pc' \in Ended) /\ rd' = rd /\ amt' = amt
      BY <1>6 DEF Poll, SkipFill, FillPending, Emptied, FlushPending, Goto, Park,
         Ended, fields
    <2> QED BY <1>3, <2>1, <1>2 DEF Pipe!Next
  <1>7. ASSUME NEW n \in 0..BufSize, FillReady(n)
        PROVE  [Pipe!Next]_(Pipe!pipe)
    <2>1. ~(pc \in Ended) /\ ~(pc' \in Ended) /\ amt' = amt
      BY <1>7 DEF FillReady, Goto, Ended
    <2>2. rd <= rd'
      BY <1>7, BufferAssumption DEF FillReady, Fill, CopyInv, TypeOK
    <2> QED BY <1>3, <2>1, <2>2, <1>2 DEF Pipe!Next
  <1>8. ASSUME NEW i \in 1..BufSize, WriteReady(i)
        PROVE  [Pipe!Next]_(Pipe!pipe)
    <2>1. ~(pc \in Ended) /\ ~(pc' \in Ended) /\ rd' = rd
      BY <1>8 DEF WriteReady, Goto, Ended
    <2>2. amt <= amt'
      BY <1>8, BufferAssumption DEF WriteReady, CopyInv, TypeOK
    <2> QED BY <1>3, <2>1, <2>2, <1>2 DEF Pipe!Next
  <1>9. CASE WritePending
    <2> USE <1>9 DEF WritePending
    <2>1. ~(pc \in Ended) /\ amt' = amt /\ out' = out
      BY DEF Ended
    <2>2. ASSUME NEW n \in 0..BufSize, Fill(n), Park("write")
          PROVE  Pipe!Move
      <3>1. rd <= rd' /\ ~(pc' \in Ended)
        BY <2>2, BufferAssumption DEF Fill, Park, Ended, CopyInv, TypeOK
      <3> QED BY <1>2, <1>3, <2>1, <3>1
    <2>3. ASSUME NEW e \in Errors, Goto(e), rd' = rd
          PROVE  Pipe!Break
      BY <1>4, <2>1, <2>3 DEF Goto
    <2>4. ASSUME Park("write"), rd' = rd
          PROVE  Pipe!Move
      BY <1>2, <1>3, <2>1, <2>4 DEF Park, Ended
    <2> QED BY <2>2, <2>3, <2>4 DEF Pipe!Next
  <1>10. CASE FlushReady
    <2>1. CASE pc = "flush_idle"
      <3>1. ~(pc \in Ended) /\ ~(pc' \in Ended) /\ rd' = rd /\ amt' = amt
        BY <1>10, <2>1 DEF FlushReady, Park, Ended
      <3> QED BY <1>3, <3>1, <1>2 DEF Pipe!Next
    <2>2. CASE pc = "flush_end"
      <3>1. rd = amt
        BY <2>2 DEF CopyInv, TypeOK, WindowHoldsRest, EmptyAtFlush
      <3>2. pc' = "ok" /\ UNCHANGED <<rd, out>>
        BY <1>10, <2>2 DEF FlushReady, Goto
      <3>3. end = "open" /\ end' = "ok"
        BY <2>2, <3>2 DEF Errors
      <3> QED BY <1>1, <3>1, <3>2, <3>3 DEF Pipe!Next, Pipe!Finish
    <2> QED BY <1>10, <2>1, <2>2 DEF FlushReady
  <1>11. CASE Fails
    <2>1. UNCHANGED <<rd, out>> /\ pc' \in Errors /\ ~(pc \in Ended)
      BY <1>11 DEF Fails, FillErr, WriteErr, FlushErr, Goto, Ended
    <2> QED BY <1>4, <2>1 DEF Pipe!Next
  <1>12. CASE Source \/ UNCHANGED vars
    BY <1>5, <1>12 DEF Source, Close, Send, vars
  <1> QED
    BY <1>6, <1>7, <1>8, <1>9, <1>10, <1>11, <1>12
    DEF Next, Fills, Writes, Flushes

(* poll_copy implements the pipe of capacity BufSize.                      *)
THEOREM CopyIsPipe == Spec => PipeSpec
  <1>1. Init => Pipe!Init
    BY DEF Init, Pipe!Init, Pipe!Stream, Errors
  <1> QED BY <1>1, StepRefines, CopyInvariant, PTL DEF Spec, PipeSpec, Pipe!Spec
=============================================================================

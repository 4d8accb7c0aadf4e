--------------------------- MODULE TransferProofs ---------------------------
(***************************************************************************)
(* Proofs about transfer_one_direction, for a buffer of any size and a     *)
(* stream of any length: it drives poll_copy and nothing else touches the  *)
(* buffer, so what holds of poll_copy holds of it, and the text it takes   *)
(* is the stream as long as the buffer was filled once.                    *)
(***************************************************************************)
EXTENDS Transfer, CopyBufferProofs

LEMMA TransferInitIsCopy == TransferInit => Init
  BY DEF TransferInit

(* Every step is one of poll_copy or leaves it alone.                      *)
LEMMA TransferStepIsCopy == [TransferNext]_tvars => [Next]_vars
<1> SUFFICES ASSUME [TransferNext]_tvars PROVE [Next]_vars
  OBVIOUS
<1>1. CASE CopyStep(Poll \/ Fills \/ Writes \/ Flushes \/ Fails)
  BY <1>1 DEF CopyStep, Next
<1>2. CASE Takes \/ ShutdownReady \/ ShutdownErr
  BY <1>2 DEF Takes, TakeOk, TakeEof, TakeErr, ShutdownReady, ShutdownErr
<1>3. CASE Source
  BY <1>3 DEF Next
<1>4. CASE UNCHANGED tvars
  BY <1>4 DEF tvars
<1>5. QED
  BY <1>1, <1>2, <1>3, <1>4 DEF TransferNext

(* transfer_one_direction implements poll_copy (debug_stream.rs:28).       *)
THEOREM TransferIsCopy == TransferSpec => Spec
  BY TransferInitIsCopy, TransferStepIsCopy, PTL DEF TransferSpec, Spec

(* And so the invariant of the buffer holds (copy.rs).                     *)
THEOREM TransferKeepsCopy == TransferSpec => []CopyInv
  BY TransferIsCopy, CopyInvariant, PTL

(* The window of unwritten bytes is in the buffer and holds what was read  *)
(* and not yet written: the debug_assert of copy.rs:200-203.               *)
THEOREM WindowIsRest == TransferSpec => []WindowHoldsRest
  BY TransferKeepsCopy, PTL DEF CopyInv

(* A transfer is a pipe of the capacity of its buffer.                     *)
THEOREM TransferIsPipe == TransferSpec => PipeSpec
  BY TransferIsCopy, CopyIsPipe, PTL

-----------------------------------------------------------------------------
(* A buffer that was filled once holds the stream from its start, up to    *)
(* `cap` and, once it was emptied for good, up to `amt`.                   *)
FilledOnce ==
  \/ /\ pos = amt
     /\ \A i \in Slots : i < cap => buf[i] = i + 1
  \/ /\ cap = 0 /\ pos = 0 /\ amt > 0 /\ amt <= BufSize
     /\ \A i \in Slots : i < amt => buf[i] = i + 1

TakenIsStream ==
  Clean => /\ count = amt
           /\ ~reused => captured = Stream(amt)

CaptureInv ==
  /\ CopyInv
  /\ state \in States /\ reused \in BOOLEAN
  /\ state \in {"ShuttingDown", "Done"} => pc \in Ended
  /\ ~reused => FilledOnce
  /\ TakenIsStream

LEMMA InitCapture == TransferInit => CaptureInv
<1> SUFFICES ASSUME TransferInit PROVE CaptureInv
  OBVIOUS
<1>1. CopyInv
  BY InitCopy DEF TransferInit
<1>2. FilledOnce
  BY BufferAssumption DEF TransferInit, Init, FilledOnce, Slots
<1>3. QED
  BY <1>1, <1>2 DEF TransferInit, CaptureInv, States, TakenIsStream, Clean

(* A step of poll_copy that does not fill an emptied buffer.               *)
LEMMA CopyKeepsFilledOnce ==
  ASSUME CopyInv, FilledOnce, [Next]_vars, ~(amt > 0 /\ cap = 0 /\ cap' > 0)
  PROVE  FilledOnce'
<1> USE BufferAssumption
<1>1. /\ pos \in Nat /\ cap \in Nat /\ amt \in Nat /\ BufSize \in Nat
      /\ pos <= cap /\ cap <= BufSize /\ pos <= amt
  BY DEF CopyInv, TypeOK, WindowHoldsRest, FilledOnce
<1>2. CASE UNCHANGED <<pos, cap, amt, buf>>
  BY <1>2 DEF FilledOnce, Slots
<1>3. ASSUME NEW n \in 0..BufSize, Fill(n), UNCHANGED <<pos, amt>>
      PROVE  FilledOnce'
  <2>1. n \in Nat /\ cap' = cap + n
    BY <1>3 DEF Fill
  <2>2. CASE n = 0
    <3>1. cap' = cap /\ \A i \in Slots : buf'[i] = buf[i]
      BY <1>1, <1>3, <2>1, <2>2 DEF Fill, Slots
    <3>2. QED
      BY <1>3, <3>1 DEF FilledOnce, Slots
  <2>3. CASE n # 0
    <3>1. /\ pos = amt
          /\ \A i \in Slots : i < cap => buf[i] = i + 1
      BY <1>1, <1>3, <2>1, <2>3 DEF FilledOnce
    <3>2. rd = cap
      BY <1>1, <3>1 DEF CopyInv, TypeOK, WindowHoldsRest
    <3>3. ASSUME NEW i \in Slots, i < cap' PROVE buf'[i] = i + 1
      BY <1>1, <1>3, <2>1, <3>1, <3>2, <3>3 DEF Fill, Slots
    <3>4. QED
      BY <1>3, <3>1, <3>3 DEF FilledOnce, Slots
  <2>4. QED
    BY <2>2, <2>3
<1>4. ASSUME NEW i \in 1..BufSize, WriteReady(i)
      PROVE  FilledOnce'
  <2>1. /\ i \in 1..(cap - pos) /\ pos' = pos + i /\ amt' = amt + i
        /\ UNCHANGED <<cap, buf>>
    BY <1>4 DEF WriteReady
  <2>2. pos = amt /\ \A j \in Slots : j < cap => buf[j] = j + 1
    BY <1>1, <2>1 DEF FilledOnce
  <2>3. QED
    BY <1>1, <2>1, <2>2 DEF FilledOnce, Slots
<1>5. CASE Emptied
  <2>1. pos = cap /\ pos' = 0 /\ cap' = 0 /\ UNCHANGED <<amt, buf>>
    BY <1>5 DEF Emptied
  <2>2. CASE amt = 0
    BY <1>1, <2>1, <2>2 DEF FilledOnce, Slots
  <2>3. CASE amt # 0
    BY <1>1, <2>1, <2>3 DEF FilledOnce, Slots
  <2>4. QED
    BY <2>2, <2>3
<1>6. CASE Poll \/ SkipFill \/ FillPending \/ Flushes \/ Fails \/ Source \/ UNCHANGED vars
  BY <1>2, <1>6 DEF Poll, SkipFill, FillPending, Flushes, FlushReady, FlushPending,
     Fails, FillErr, WriteErr, FlushErr, Source, Close, Send, vars, fields
<1>7. ASSUME NEW n \in 0..BufSize, FillReady(n)
      PROVE  FilledOnce'
  BY <1>3, <1>7 DEF FillReady
<1>8. CASE WritePending
  BY <1>2, <1>3, <1>8 DEF WritePending
<1>9. QED
  BY <1>4, <1>5, <1>6, <1>7, <1>8 DEF Next, Fills, Writes

(* The text taken at the end, when nothing is left to write.               *)
LEMMA TakeKeepsCapture ==
  ASSUME CaptureInv, Takes
  PROVE  CaptureInv'
<1> USE BufferAssumption
<1>1. CopyInv' /\ UNCHANGED <<vars, reused>>
  BY StutterKeeps DEF Takes, TakeOk, TakeEof, TakeErr, CaptureInv
<1>2. FilledOnce' = FilledOnce
  BY <1>1 DEF FilledOnce, vars, fields
<1>3. CASE TakeOk
  <2>1. CASE amt <= BufSize /\ state' = "ShuttingDown"
    <3>1. pc = "ok" /\ count' = amt /\ captured' = BufferStart(amt)
      BY <1>3, <2>1 DEF TakeOk
    <3>2. ASSUME ~reused PROVE captured' = Stream(amt)
      <4>1. pos = cap /\ amt \in Nat /\ cap \in Nat /\ amt <= BufSize
        BY <2>1, <3>1 DEF CaptureInv, CopyInv, TypeOK, EmptyAtFlush
      <4>2. \A i \in Slots : i < amt => buf[i] = i + 1
        BY <3>2, <4>1 DEF CaptureInv, FilledOnce
      <4>3. ASSUME NEW k \in 1..amt PROVE buf[k - 1] = k
        BY <4>1, <4>2 DEF Slots
      <4>4. QED
        BY <3>1, <4>3 DEF BufferStart, Stream
    <3>3. QED
      BY <1>1, <1>2, <2>1, <3>1, <3>2
      DEF CaptureInv, TakenIsStream, Clean, States, Ended, Stream, vars, fields
  <2>2. CASE state' = "panicked"
    BY <1>1, <1>2, <2>2 DEF CaptureInv, TakenIsStream, Clean, States
  <2>3. QED
    BY <1>3, <2>1, <2>2 DEF TakeOk
<1>4. CASE TakeEof \/ TakeErr
  BY <1>1, <1>2, <1>4
  DEF TakeEof, TakeErr, CaptureInv, TakenIsStream, Clean, States, Ended, vars
<1>5. QED
  BY <1>3, <1>4 DEF Takes

LEMMA StepKeepsCapture ==
  ASSUME CaptureInv, [TransferNext]_tvars
  PROVE  CaptureInv'
<1>1. [Next]_vars
  BY TransferStepIsCopy
<1>2. CopyInv'
  BY <1>1, FillsKeep, WritesKeep, OthersKeep, StutterKeeps DEF CaptureInv, Next
<1>3. CASE CopyStep(Poll \/ Fills \/ Writes \/ Flushes \/ Fails)
  <2>1. state = "Running" /\ state' = "Running" /\ reused' \in BOOLEAN
    BY <1>3 DEF CopyStep, transfer, CaptureInv
  <2>2. ~reused' => ~reused /\ ~(amt > 0 /\ cap = 0 /\ cap' > 0)
    BY <1>3 DEF CopyStep
  <2>3. ~reused' => FilledOnce'
    BY <1>1, <2>2, CopyKeepsFilledOnce DEF CaptureInv
  <2>4. QED
    BY <1>2, <2>1, <2>3 DEF CaptureInv, TakenIsStream, Clean, States
<1>4. CASE Takes
  BY <1>4, TakeKeepsCapture
<1>5. CASE ShutdownReady \/ ShutdownErr
  <2>1. UNCHANGED <<vars, count, captured, reused>> /\ state = "ShuttingDown"
    BY <1>5 DEF ShutdownReady, ShutdownErr
  <2>2. FilledOnce' = FilledOnce
    BY <2>1 DEF FilledOnce, vars, fields
  <2>3. state' \in {"Done", "failed"}
    BY <1>5 DEF ShutdownReady, ShutdownErr
  <2>4. TakenIsStream'
    BY <2>1, <2>3 DEF CaptureInv, TakenIsStream, Clean, Stream, vars, fields
  <2>5. QED
    BY <1>2, <2>1, <2>2, <2>3, <2>4 DEF CaptureInv, States, vars
<1>6. CASE Source /\ UNCHANGED <<transfer, reused>>
  <2>1. UNCHANGED <<fields, pc, transfer, reused>>
    BY <1>6 DEF Source, Close, Send
  <2>2. FilledOnce' = FilledOnce /\ TakenIsStream'
    BY <2>1 DEF FilledOnce, CaptureInv, TakenIsStream, Clean, Stream, fields, transfer
  <2>3. QED
    BY <1>2, <2>1, <2>2 DEF CaptureInv, transfer
<1>7. CASE UNCHANGED tvars
  <2>1. FilledOnce' = FilledOnce /\ TakenIsStream'
    BY <1>7 DEF FilledOnce, CaptureInv, TakenIsStream, Clean, Stream, tvars, vars,
       fields, transfer
  <2>2. QED
    BY <1>2, <1>7, <2>1 DEF CaptureInv, tvars, vars, transfer
<1>8. QED
  BY <1>3, <1>4, <1>5, <1>6, <1>7 DEF TransferNext

(* The inductive invariant of a transfer (debug_stream.rs:12-77).          *)
THEOREM CaptureInvariant == TransferSpec => []CaptureInv
  BY InitCapture, StepKeepsCapture, PTL DEF TransferSpec

(* What is taken for the log of a stream that fitted the buffer is the     *)
(* stream, whatever the sizes of the reads and writes                      *)
(* (debug_stream.rs:53).                                                   *)
THEOREM CapturedIsStream == TransferSpec => []OneFillCaptured
<1>1. CaptureInv => OneFillCaptured
  BY DEF CaptureInv, TakenIsStream, OneFillCaptured
<1>2. QED
  BY <1>1, CaptureInvariant, PTL

(* Only a buffer that was filled again breaks what the doc comment says of *)
(* streams of any length: without that, amt is within the slice            *)
(* (debug_stream.rs:53,106).                                               *)
THEOREM OneFillFits == TransferSpec => [](reused \/ LongStreamsEnd)
<1>1. CaptureInv => reused \/ LongStreamsEnd
  BY DEF CaptureInv, FilledOnce, LongStreamsEnd, CopyInv, TypeOK
<1>2. QED
  BY <1>1, CaptureInvariant, PTL

(* The types of a transfer: the text taken has the length returned with    *)
(* it, and holds bytes of the buffer (debug_stream.rs:12-16,45-77).        *)
THEOREM TransferTypes == TransferSpec => []TransferTypeOK
<1>1. TransferInit => TransferTypeOK
  <2> SUFFICES ASSUME TransferInit PROVE TransferTypeOK
    OBVIOUS
  <2>1. TypeOK
    BY InitCopy DEF TransferInit, CopyInv
  <2>2. captured \in [1..count -> Nat]
    BY DEF TransferInit
  <2>3. QED
    BY <2>1, <2>2 DEF TransferInit, TransferTypeOK, States
<1>2. CopyInv /\ CopyInv' /\ TransferTypeOK /\ [TransferNext]_tvars => TransferTypeOK'
  <2> SUFFICES ASSUME CopyInv, CopyInv', TransferTypeOK, [TransferNext]_tvars
               PROVE  TransferTypeOK'
    OBVIOUS
  <2>1. TypeOK' /\ TypeOK
    BY DEF CopyInv
  <2>2. ASSUME NEW n \in Nat, n <= BufSize
        PROVE  BufferStart(n) \in [1..n -> Nat]
    <3>1. ASSUME NEW k \in 1..n PROVE buf[k - 1] \in Nat
      BY <2>1, <2>2, BufferAssumption DEF TypeOK, Slots
    <3>2. QED
      BY <3>1 DEF BufferStart
  <2>3. CASE CopyStep(Poll \/ Fills \/ Writes \/ Flushes \/ Fails)
    BY <2>1, <2>3 DEF CopyStep, TransferTypeOK, transfer
  <2>4. CASE TakeOk
    <3>1. CASE amt <= BufSize /\ state' = "ShuttingDown"
      BY <2>1, <2>2, <2>4, <3>1 DEF TakeOk, TransferTypeOK, States, TypeOK
    <3>2. CASE state' = "panicked"
      BY <2>1, <2>4, <3>2 DEF TakeOk, TransferTypeOK, States
    <3>3. QED
      BY <2>4, <3>1, <3>2 DEF TakeOk
  <2>5. CASE TakeEof
    <3>1. BufSize \in Nat /\ BufferStart(BufSize) \in [1..BufSize -> Nat]
      BY <2>2, BufferAssumption
    <3>2. QED
      BY <2>1, <2>5, <3>1 DEF TakeEof, TransferTypeOK, States
  <2>6. CASE TakeErr \/ ShutdownReady \/ ShutdownErr
    BY <2>1, <2>6 DEF TakeErr, ShutdownReady, ShutdownErr, TransferTypeOK, States
  <2>7. CASE UNCHANGED <<transfer, reused>>
    BY <2>1, <2>7 DEF TransferTypeOK, transfer
  <2>8. QED
    BY <2>3, <2>4, <2>5, <2>6, <2>7 DEF TransferNext, Takes, tvars
<1>3. QED
  BY <1>1, <1>2, TransferKeepsCopy, PTL DEF TransferSpec
=============================================================================

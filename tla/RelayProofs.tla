---------------------------- MODULE RelayProofs ----------------------------
(***************************************************************************)
(* Proofs about the relay, for buffers of any size and streams of any      *)
(* length: each of its directions is a transfer of its own, so the results *)
(* of TransferProofs hold of both, and Ok speaks of both.                  *)
(***************************************************************************)
EXTENDS Relay, TLAPS

(* The proved transfers that Up and Down are.                              *)
UpProved == INSTANCE TransferProofs WITH
  BufSize <- UpBuf, MaxBytes <- UpMax,
  read_done <- u_read_done, need_flush <- u_need_flush, pos <- u_pos,
  cap <- u_cap, amt <- u_amt, buf <- u_buf, pc <- u_pc, wait <- u_wait,
  sent <- u_sent, closed <- u_closed, rd <- u_rd, out <- u_out,
  flushed <- u_flushed, state <- u_state, count <- u_count,
  captured <- u_captured, reused <- u_reused

DownProved == INSTANCE TransferProofs WITH
  BufSize <- DownBuf, MaxBytes <- DownMax,
  read_done <- d_read_done, need_flush <- d_need_flush, pos <- d_pos,
  cap <- d_cap, amt <- d_amt, buf <- d_buf, pc <- d_pc, wait <- d_wait,
  sent <- d_sent, closed <- d_closed, rd <- d_rd, out <- d_out,
  flushed <- d_flushed, state <- d_state, count <- d_count,
  captured <- d_captured, reused <- d_reused

-----------------------------------------------------------------------------
(* What the relay leaves alone of a direction.                             *)
LEMMA UpStays == UNCHANGED up => UNCHANGED Up!tvars
  BY DEF up, upRun, Up!tvars, Up!vars, Up!fields, Up!source, Up!transfer

LEMMA DownStays == UNCHANGED down => UNCHANGED Down!tvars
  BY DEF down, downRun, Down!tvars, Down!vars, Down!fields, Down!source, Down!transfer

(* A step of the relay is a step of the one direction and of the other, or *)
(* leaves it alone: calls, returns and the end of the relay move neither.  *)
LEMMA UpStep == [RelayNext]_rvars => [Up!TransferNext]_(Up!tvars)
<1> SUFFICES ASSUME [RelayNext]_rvars PROVE [Up!TransferNext]_(Up!tvars)
  OBVIOUS
<1>1. CASE Begin
  <2>1. CASE u_state = "Running"
    BY <1>1, <2>1 DEF Begin, CallUp, Up!TransferNext, Up!CopyStep
  <2>2. CASE u_state # "Running"
    BY <1>1, <2>2, UpStays DEF Begin, CallUp
  <2>3. QED
    BY <2>1, <2>2
<1>2. CASE UpRuns
  BY <1>2 DEF UpRuns, UpInside, Up!TransferNext, Up!CopyStep
<1>3. CASE UpReturns \/ DownRuns \/ DownReturns \/ Breaks \/ DownSource
  BY <1>3, UpStays DEF UpReturns, DownRuns, DownReturns, Breaks, DownSource
<1>4. CASE UpSource
  BY <1>4 DEF UpSource, upRun, Up!TransferNext, Up!transfer
<1>5. CASE UNCHANGED rvars
  BY <1>5, UpStays DEF rvars
<1>6. QED
  BY <1>1, <1>2, <1>3, <1>4, <1>5 DEF RelayNext, InPoll

LEMMA DownStep == [RelayNext]_rvars => [Down!TransferNext]_(Down!tvars)
<1> SUFFICES ASSUME [RelayNext]_rvars PROVE [Down!TransferNext]_(Down!tvars)
  OBVIOUS
<1>1. CASE UpReturns
  <2>1. CASE d_state = "Running"
    BY <1>1, <2>1 DEF UpReturns, CallDown, Down!TransferNext, Down!CopyStep
  <2>2. CASE d_state # "Running"
    BY <1>1, <2>2, DownStays DEF UpReturns, CallDown
  <2>3. QED
    BY <2>1, <2>2
<1>2. CASE DownRuns
  BY <1>2 DEF DownRuns, DownInside, Down!TransferNext, Down!CopyStep
<1>3. CASE Begin \/ UpRuns \/ DownReturns \/ Breaks \/ UpSource
  BY <1>3, DownStays DEF Begin, UpRuns, DownReturns, Breaks, UpSource
<1>4. CASE DownSource
  BY <1>4 DEF DownSource, downRun, Down!TransferNext, Down!transfer
<1>5. CASE UNCHANGED rvars
  BY <1>5, DownStays DEF rvars
<1>6. QED
  BY <1>1, <1>2, <1>3, <1>4, <1>5 DEF RelayNext, InPoll

(* Each direction of the relay is a transfer by itself                     *)
(* (debug_stream.rs:143-144).                                              *)
THEOREM RelayIsTwoTransfers == RelaySpec => TwoTransfers
<1>1. RelayInit => Up!TransferInit /\ Down!TransferInit
  BY DEF RelayInit
<1>2. RelaySpec => Up!TransferSpec
  BY <1>1, UpStep, PTL DEF RelaySpec, Up!TransferSpec
<1>3. RelaySpec => Down!TransferSpec
  BY <1>1, DownStep, PTL DEF RelaySpec, Down!TransferSpec
<1>4. QED
  BY <1>2, <1>3 DEF TwoTransfers
-----------------------------------------------------------------------------
(* Up and UpProved are the same transfer, so what is proved of the one     *)
(* holds of the other; Down likewise.                                      *)
LEMMA UpIsProved == Up!TransferSpec => UpProved!TransferSpec
<1> USE DEF
      Up!Slots, UpProved!Slots, Up!Errors, UpProved!Errors, Up!Ended,
      UpProved!Ended, Up!WantsRead, UpProved!WantsRead, Up!ReaderPending,
      UpProved!ReaderPending, Up!Goto, UpProved!Goto, Up!Park, UpProved!Park,
      Up!Fill, UpProved!Fill, Up!Init, UpProved!Init, Up!TransferInit,
      UpProved!TransferInit, Up!fields, UpProved!fields, Up!source,
      UpProved!source, Up!transfer, UpProved!transfer, Up!vars,
      UpProved!vars, Up!tvars, UpProved!tvars, Up!Poll, UpProved!Poll,
      Up!Fills, UpProved!Fills, Up!SkipFill, UpProved!SkipFill,
      Up!FillPending, UpProved!FillPending, Up!FillReady, UpProved!FillReady,
      Up!Writes, UpProved!Writes, Up!Emptied, UpProved!Emptied,
      Up!WritePending, UpProved!WritePending, Up!WriteReady,
      UpProved!WriteReady, Up!Flushes, UpProved!Flushes, Up!FlushReady,
      UpProved!FlushReady, Up!FlushPending, UpProved!FlushPending, Up!Fails,
      UpProved!Fails, Up!FillErr, UpProved!FillErr, Up!WriteErr,
      UpProved!WriteErr, Up!FlushErr, UpProved!FlushErr, Up!Source,
      UpProved!Source, Up!Close, UpProved!Close, Up!Send, UpProved!Send,
      Up!CopyStep, UpProved!CopyStep, Up!Takes, UpProved!Takes, Up!TakeOk,
      UpProved!TakeOk, Up!TakeEof, UpProved!TakeEof, Up!TakeErr,
      UpProved!TakeErr, Up!BufferStart, UpProved!BufferStart,
      Up!ShutdownReady, UpProved!ShutdownReady, Up!ShutdownErr,
      UpProved!ShutdownErr
<1>1. Up!TransferInit => UpProved!TransferInit
  OBVIOUS
<1>2. UNCHANGED Up!tvars => UNCHANGED UpProved!tvars
  OBVIOUS
<1>3. /\ Up!Poll => UpProved!Poll
      /\ Up!Flushes => UpProved!Flushes
      /\ Up!Fails => UpProved!Fails
      /\ Up!Source => UpProved!Source
  OBVIOUS
<1>4. Up!Fills => UpProved!Fills
  OBVIOUS
<1>5. Up!Writes => UpProved!Writes
  OBVIOUS
<1>6. Up!Takes \/ Up!ShutdownReady \/ Up!ShutdownErr =>
        UpProved!Takes \/ UpProved!ShutdownReady \/ UpProved!ShutdownErr
  OBVIOUS
<1> HIDE DEF
      Up!Poll, UpProved!Poll, Up!Fills, UpProved!Fills, Up!Writes,
      UpProved!Writes, Up!Flushes, UpProved!Flushes, Up!Fails,
      UpProved!Fails, Up!Source, UpProved!Source, Up!Takes, UpProved!Takes,
      Up!ShutdownReady, UpProved!ShutdownReady, Up!ShutdownErr,
      UpProved!ShutdownErr, Up!tvars, UpProved!tvars
<1>7. Up!TransferNext => UpProved!TransferNext
  BY <1>3, <1>4, <1>5, <1>6 DEF Up!TransferNext, UpProved!TransferNext
<1>8. [Up!TransferNext]_(Up!tvars) => [UpProved!TransferNext]_(UpProved!tvars)
  BY <1>2, <1>7
<1>9. QED
  BY <1>1, <1>8, PTL DEF Up!TransferSpec, UpProved!TransferSpec

LEMMA DownIsProved == Down!TransferSpec => DownProved!TransferSpec
<1> USE DEF
      Down!Slots, DownProved!Slots, Down!Errors, DownProved!Errors,
      Down!Ended, DownProved!Ended, Down!WantsRead, DownProved!WantsRead,
      Down!ReaderPending, DownProved!ReaderPending, Down!Goto,
      DownProved!Goto, Down!Park, DownProved!Park, Down!Fill,
      DownProved!Fill, Down!Init, DownProved!Init, Down!TransferInit,
      DownProved!TransferInit, Down!fields, DownProved!fields, Down!source,
      DownProved!source, Down!transfer, DownProved!transfer, Down!vars,
      DownProved!vars, Down!tvars, DownProved!tvars, Down!Poll,
      DownProved!Poll, Down!Fills, DownProved!Fills, Down!SkipFill,
      DownProved!SkipFill, Down!FillPending, DownProved!FillPending,
      Down!FillReady, DownProved!FillReady, Down!Writes, DownProved!Writes,
      Down!Emptied, DownProved!Emptied, Down!WritePending,
      DownProved!WritePending, Down!WriteReady, DownProved!WriteReady,
      Down!Flushes, DownProved!Flushes, Down!FlushReady,
      DownProved!FlushReady, Down!FlushPending, DownProved!FlushPending,
      Down!Fails, DownProved!Fails, Down!FillErr, DownProved!FillErr,
      Down!WriteErr, DownProved!WriteErr, Down!FlushErr, DownProved!FlushErr,
      Down!Source, DownProved!Source, Down!Close, DownProved!Close,
      Down!Send, DownProved!Send, Down!CopyStep, DownProved!CopyStep,
      Down!Takes, DownProved!Takes, Down!TakeOk, DownProved!TakeOk,
      Down!TakeEof, DownProved!TakeEof, Down!TakeErr, DownProved!TakeErr,
      Down!BufferStart, DownProved!BufferStart, Down!ShutdownReady,
      DownProved!ShutdownReady, Down!ShutdownErr, DownProved!ShutdownErr
<1>1. Down!TransferInit => DownProved!TransferInit
  OBVIOUS
<1>2. UNCHANGED Down!tvars => UNCHANGED DownProved!tvars
  OBVIOUS
<1>3. /\ Down!Poll => DownProved!Poll
      /\ Down!Flushes => DownProved!Flushes
      /\ Down!Fails => DownProved!Fails
      /\ Down!Source => DownProved!Source
  OBVIOUS
<1>4. Down!Fills => DownProved!Fills
  OBVIOUS
<1>5. Down!Writes => DownProved!Writes
  OBVIOUS
<1>6. Down!Takes \/ Down!ShutdownReady \/ Down!ShutdownErr =>
        DownProved!Takes \/ DownProved!ShutdownReady \/ DownProved!ShutdownErr
  OBVIOUS
<1> HIDE DEF
      Down!Poll, DownProved!Poll, Down!Fills, DownProved!Fills, Down!Writes,
      DownProved!Writes, Down!Flushes, DownProved!Flushes, Down!Fails,
      DownProved!Fails, Down!Source, DownProved!Source, Down!Takes,
      DownProved!Takes, Down!ShutdownReady, DownProved!ShutdownReady,
      Down!ShutdownErr, DownProved!ShutdownErr, Down!tvars, DownProved!tvars
<1>7. Down!TransferNext => DownProved!TransferNext
  BY <1>3, <1>4, <1>5, <1>6 DEF Down!TransferNext, DownProved!TransferNext
<1>8. [Down!TransferNext]_(Down!tvars) => [DownProved!TransferNext]_(DownProved!tvars)
  BY <1>2, <1>7
<1>9. QED
  BY <1>1, <1>8, PTL DEF Down!TransferSpec, DownProved!TransferSpec

(* What Ok of the relay says of itself.                                    *)
LEMMA OkIsBothDone == RelaySpec => [](turn = "ok" => u_state = "Done" /\ d_state = "Done")
<1> DEFINE Both == turn = "ok" => u_state = "Done" /\ d_state = "Done"
<1>1. RelayInit => Both
  BY DEF RelayInit
<1>2. Both /\ [RelayNext]_rvars => Both'
  BY DEF RelayNext, Begin, InPoll, UpRuns, UpReturns, DownRuns, DownReturns, Breaks,
     UpSource, DownSource, Results, rvars, up, down, upRun, downRun
<1>3. QED
  BY <1>1, <1>2, PTL DEF RelaySpec

-----------------------------------------------------------------------------
(* What poll_copy and transfer_one_direction keep, both directions keep.   *)
LEMMA BothCapture == RelaySpec => [](UpProved!CaptureInv /\ DownProved!CaptureInv)
<1>1. RelaySpec => []UpProved!CaptureInv
  BY RelayAssumption, RelayIsTwoTransfers, UpIsProved, UpProved!CaptureInvariant
  DEF TwoTransfers
<1>2. RelaySpec => []DownProved!CaptureInv
  BY RelayAssumption, RelayIsTwoTransfers, DownIsProved, DownProved!CaptureInvariant
  DEF TwoTransfers
<1>3. QED
  BY <1>1, <1>2, PTL

(* Each writer was given a start of what the other peer sent, unchanged    *)
(* and in order, and neither direction waits for its reader while the      *)
(* writer sits on unflushed bytes: the peers are never made to wait for    *)
(* each other by the relay (copy.rs:147-148).                              *)
THEOREM BothVerbatim ==
  RelaySpec => [](/\ Up!Verbatim /\ Up!NoUnflushedWait
                  /\ Down!Verbatim /\ Down!NoUnflushedWait)
<1>1. UpProved!CaptureInv => Up!Verbatim /\ Up!NoUnflushedWait
  BY DEF UpProved!CaptureInv, UpProved!CopyInv, UpProved!Verbatim, Up!Verbatim,
     UpProved!NoUnflushedWait, Up!NoUnflushedWait
<1>2. DownProved!CaptureInv => Down!Verbatim /\ Down!NoUnflushedWait
  BY DEF DownProved!CaptureInv, DownProved!CopyInv, DownProved!Verbatim, Down!Verbatim,
     DownProved!NoUnflushedWait, Down!NoUnflushedWait
<1>3. QED
  BY <1>1, <1>2, BothCapture, PTL

(* Ok is returned for two directions that are over; one without an error   *)
(* has written and flushed all its peer sent before closing, and its text  *)
(* is that stream if its buffer was not reused (debug_stream.rs:148-153).  *)
THEOREM OkSpeaksOfBoth == RelaySpec => []OkMeansBoth
<1>1. UpProved!CaptureInv =>
        (u_state = "Done" /\ u_pc = "ok" =>
           /\ u_closed /\ u_flushed = u_sent
           /\ ~u_reused => u_captured = Up!Stream(u_sent))
  BY DEF UpProved!CaptureInv, UpProved!TakenIsStream, UpProved!Clean, UpProved!Stream,
     UpProved!CopyInv, UpProved!OkMeansAll, Up!Stream
<1>2. DownProved!CaptureInv =>
        (d_state = "Done" /\ d_pc = "ok" =>
           /\ d_closed /\ d_flushed = d_sent
           /\ ~d_reused => d_captured = Down!Stream(d_sent))
  BY DEF DownProved!CaptureInv, DownProved!TakenIsStream, DownProved!Clean,
     DownProved!Stream, DownProved!CopyInv, DownProved!OkMeansAll, Down!Stream
<1>3. /\ UpProved!CaptureInv /\ DownProved!CaptureInv
      /\ turn = "ok" => u_state = "Done" /\ d_state = "Done"
      => OkMeansBoth
  BY <1>1, <1>2 DEF OkMeansBoth
<1>4. QED
  BY <1>3, BothCapture, OkIsBothDone, PTL

(* A direction that is not being polled has returned                       *)
(* (debug_stream.rs:143-151).                                              *)
THEOREM BothHaveReturned == RelaySpec => []BothReturned
<1>1. RelayInit => BothReturned
  BY DEF RelayInit, BothReturned, Yields, Up!TransferInit, Up!Init, Down!TransferInit,
     Down!Init
<1>2. BothReturned /\ [RelayNext]_rvars => BothReturned'
  <2> SUFFICES ASSUME BothReturned, [RelayNext]_rvars PROVE BothReturned'
    OBVIOUS
  <2>1. CASE Begin
    BY <2>1 DEF Begin, BothReturned, Yields, down, downRun
  <2>2. CASE UpRuns \/ DownRuns
    BY <2>2 DEF UpRuns, DownRuns, BothReturned, Yields, down, downRun, up, upRun
  <2>3. CASE UpReturns \/ DownReturns \/ Breaks
    BY <2>3 DEF UpReturns, DownReturns, Breaks, BothReturned, Yields, up, upRun, down,
       downRun
  <2>4. CASE UpSource
    BY <2>4 DEF UpSource, Up!Source, Up!Send, Up!Close, BothReturned, Yields, upRun,
       down, downRun
  <2>5. CASE DownSource
    BY <2>5 DEF DownSource, Down!Source, Down!Send, Down!Close, BothReturned, Yields,
       up, upRun, downRun
  <2>6. CASE UNCHANGED rvars
    BY <2>6 DEF rvars, up, upRun, down, downRun, BothReturned, Yields
  <2>7. QED
    BY <2>1, <2>2, <2>3, <2>4, <2>5, <2>6 DEF RelayNext, InPoll
<1>3. QED
  BY <1>1, <1>2, PTL DEF RelaySpec

(* Each direction is a pipe of the capacity of its own buffer: what one    *)
(* peer sends is handed over to the other once and in order, and Ok comes  *)
(* after all of it, whatever the opposite direction does.                  *)
THEOREM RelayIsTwoPipes == RelaySpec => Up!PipeSpec /\ Down!PipeSpec
<1>1. RelaySpec => UpProved!PipeSpec
  BY RelayAssumption, RelayIsTwoTransfers, UpIsProved, UpProved!TransferIsPipe
  DEF TwoTransfers
<1>2. RelaySpec => DownProved!PipeSpec
  BY RelayAssumption, RelayIsTwoTransfers, DownIsProved, DownProved!TransferIsPipe
  DEF TwoTransfers
<1>3. UpProved!PipeSpec => Up!PipeSpec
  <2> USE DEF
        Up!Errors, UpProved!Errors, Up!Pipe!Stream, UpProved!Pipe!Stream,
        Up!Pipe!pipe, UpProved!Pipe!pipe
  <2>1. UpProved!Pipe!Init => Up!Pipe!Init
    BY DEF Up!Pipe!Init, UpProved!Pipe!Init
  <2>2. [UpProved!Pipe!Next]_(UpProved!Pipe!pipe) => [Up!Pipe!Next]_(Up!Pipe!pipe)
    BY DEF Up!Pipe!Next, UpProved!Pipe!Next, Up!Pipe!Move, UpProved!Pipe!Move,
       Up!Pipe!Finish, UpProved!Pipe!Finish, Up!Pipe!Break, UpProved!Pipe!Break
  <2>3. QED
    BY <2>1, <2>2, PTL
    DEF Up!PipeSpec, UpProved!PipeSpec, Up!Pipe!Spec, UpProved!Pipe!Spec
<1>4. DownProved!PipeSpec => Down!PipeSpec
  <2> USE DEF
        Down!Errors, DownProved!Errors, Down!Pipe!Stream, DownProved!Pipe!Stream,
        Down!Pipe!pipe, DownProved!Pipe!pipe
  <2>1. DownProved!Pipe!Init => Down!Pipe!Init
    BY DEF Down!Pipe!Init, DownProved!Pipe!Init
  <2>2. [DownProved!Pipe!Next]_(DownProved!Pipe!pipe)
          => [Down!Pipe!Next]_(Down!Pipe!pipe)
    BY DEF Down!Pipe!Next, DownProved!Pipe!Next, Down!Pipe!Move, DownProved!Pipe!Move,
       Down!Pipe!Finish, DownProved!Pipe!Finish, Down!Pipe!Break, DownProved!Pipe!Break
  <2>3. QED
    BY <2>1, <2>2, PTL
    DEF Down!PipeSpec, DownProved!PipeSpec, Down!Pipe!Spec, DownProved!Pipe!Spec
<1>5. QED
  BY <1>1, <1>2, <1>3, <1>4
=============================================================================

---------------------------- MODULE ShellProofs ----------------------------
(***************************************************************************)
(* Proofs about the drag of a window and about the tabs, by themselves and *)
(* as parts of the shell, for windows, screens, queues and sets of tabs of *)
(* any size.                                                               *)
(***************************************************************************)
EXTENDS Shell, SequenceTheorems, FiniteSetTheorems, FunctionTheorems, TLAPS

LEMMA ReachIsInt == /\ \A w \in -Reach..Reach : w \in Int
                    /\ \A c \in Screen : c \in Int
  BY DragAssumption

(* What is posted is one event more, made where the cursor is.             *)
LEMMA PostIs ==
  ASSUME DragTypeOK, NEW kind \in Kinds, NEW row \in Screen, Post(kind, row)
  PROVE  /\ events' \in Seq(Events)
         /\ Len(events') = Len(events) + 1 /\ Len(events') <= MaxQueue
         /\ \A i \in 1..Len(events) : events'[i] = events[i]
         /\ events'[Len(events')] =
              [kind |-> kind, at |-> row - window, fresh |-> TRUE]
<1> DEFINE e == [kind |-> kind, at |-> row - window, fresh |-> TRUE]
<1>1. e \in Events
  BY ReachIsInt DEF Events, DragTypeOK
<1>2. /\ events \in Seq(Events) /\ Len(events) \in Nat
      /\ events' = Append(events, e) /\ Len(events) < MaxQueue
      /\ MaxQueue \in Nat
  BY DragAssumption DEF DragTypeOK, Post
<1> HIDE DEF e
<1>3. QED
  BY <1>1, <1>2, AppendProperties DEF e

(* What is left after the first event, which is handled.                   *)
LEMMA RestIs ==
  ASSUME DragTypeOK, events # <<>>
  PROVE  /\ Rest \in Seq(Events)
         /\ Len(Rest) = Len(events) - 1
         /\ \A i \in 1..Len(Rest) :
              /\ Rest[i].kind = events[i + 1].kind
              /\ Rest[i].at = events[i + 1].at
              /\ Rest[i].fresh = (events[i + 1].fresh /\ window' = window)
<1> DEFINE n == Len(events) - 1
<1>1. events \in Seq(Events) /\ Len(events) \in Nat \ {0} /\ n \in Nat
  BY EmptySeq DEF DragTypeOK
<1>2. \A i \in 1..n : events[i + 1] \in Events
  BY <1>1, ElementOfSeq
<1>3. \A i \in 1..n :
        [kind |-> events[i + 1].kind, at |-> events[i + 1].at,
         fresh |-> events[i + 1].fresh /\ window' = window] \in Events
  BY <1>2 DEF Events
<1>4. Rest \in [1..n -> Events]
  BY <1>3 DEF Rest
<1>5. Rest \in Seq(Events) /\ Len(Rest) = n
  BY <1>1, <1>4, SeqDef, LenProperties
<1>6. QED
  BY <1>5 DEF Rest

-----------------------------------------------------------------------------
LEMMA InitDrag == DragInit => DragInv
<1> SUFFICES ASSUME DragInit PROVE DragInv
  OBVIOUS
<1>1. <<>> \in Seq(Events) /\ Len(<<>>) = 0 /\ 0 \in -Reach..Reach /\ 0 <= MaxQueue
  BY DragAssumption, EmptySeq
<1>2. DragTypeOK
  <2>1. events \in Seq(Events) /\ Len(events) <= MaxQueue
    BY <1>1 DEF DragInit
  <2>2. window \in -Reach..Reach
    BY <1>1 DEF DragInit
  <2>3. /\ is_dragging \in BOOLEAN /\ held \in BOOLEAN
        /\ exact \in BOOLEAN /\ lost \in BOOLEAN /\ cursor \in Screen
    BY DEF DragInit
  <2>4. drag_start_position \in Int /\ last_cursor_position \in Int
    BY DEF DragInit
  <2>5. QED
    BY <2>1, <2>2, <2>3, <2>4 DEF DragTypeOK
<1>3. DragIsEnding
  <2>1. ~is_dragging /\ \A j \in (0 + 1)..Len(events) : events[j].kind # "pressed"
    BY <1>1 DEF DragInit
  <2>2. QED
    BY <2>1 DEF DragIsEnding, NoPressAfter
<1>4. NewestIsTrue /\ GrabFollows
  BY DEF DragInit, NewestIsTrue, GrabFollows
<1>5. QED
  BY <1>2, <1>3, <1>4 DEF DragInv

(* A move of the mouse.  With the button down it is always told; with the  *)
(* button up nothing is dragged, or will be when the queue is empty.       *)
LEMMA CursorKeepsDrag ==
  ASSUME DragInv, NEW row \in Screen, CursorMoves(row)
  PROVE  DragInv'
<1>0. DragTypeOK /\ UNCHANGED <<cells, window, held, history>> /\ cursor' = row
  BY DEF DragInv, CursorMoves
<1> USE DEF cells, history
<1>1. CASE Over(row) \/ held
  <2>1. Post("moved", row)
    BY <1>1 DEF CursorMoves
  <2>2. /\ events' \in Seq(Events) /\ Len(events) \in Nat
        /\ Len(events') = Len(events) + 1 /\ Len(events') <= MaxQueue
        /\ \A i \in 1..Len(events) : events'[i] = events[i]
        /\ events'[Len(events')] =
             [kind |-> "moved", at |-> row - window, fresh |-> TRUE]
    BY <1>0, <2>1, PostIs DEF Kinds, DragTypeOK
  <2>3. DragTypeOK' /\ events' # <<>>
    BY <1>0, <2>2 DEF DragTypeOK
  <2>4. DragIsEnding'
    BY <1>0, <2>2 DEF DragInv, DragIsEnding, NoPressAfter, Ends
  <2>5. NewestIsTrue'
    BY <1>0, <2>2 DEF NewestIsTrue
  <2>6. QED
    BY <2>3, <2>4, <2>5 DEF DragInv, GrabFollows
<1>2. CASE ~(Over(row) \/ held)
  <2>1. UNCHANGED events /\ ~held
    BY <1>2 DEF CursorMoves
  <2>2. DragTypeOK' /\ DragIsEnding' /\ NewestIsTrue'
    BY <1>0, <2>1 DEF DragInv, DragTypeOK, DragIsEnding, NoPressAfter, Ends, NewestIsTrue
  <2>3. GrabFollows'
    <3>1. (events = <<>> /\ ~lost) => ~is_dragging
      BY <2>1, EmptySeq DEF DragInv, DragIsEnding
    <3>2. QED
      BY <1>0, <2>1, <3>1 DEF GrabFollows
  <2>4. QED
    BY <2>2, <2>3 DEF DragInv
<1>3. QED
  BY <1>1, <1>2

(* The buttons, and a capture that is lost.                                *)
LEMMA ButtonKeepsDrag ==
  ASSUME DragInv, ButtonDown \/ ButtonUp \/ OtherButton
  PROVE  DragInv'
<1>0. /\ DragTypeOK /\ cursor \in Screen /\ UNCHANGED <<cells, window, cursor, exact>>
      /\ lost' \in BOOLEAN
  BY DEF DragInv, DragTypeOK, ButtonDown, ButtonUp, OtherButton, history
<1> USE DEF cells, history
<1>1. ASSUME NEW kind \in Kinds, Post(kind, cursor)
      PROVE  /\ events' \in Seq(Events) /\ Len(events) \in Nat
             /\ Len(events') = Len(events) + 1 /\ Len(events') <= MaxQueue
             /\ \A i \in 1..Len(events) : events'[i] = events[i]
             /\ events'[Len(events')] =
                  [kind |-> kind, at |-> cursor - window, fresh |-> TRUE]
             /\ events' # <<>> /\ NewestIsTrue' /\ GrabFollows'
  <2>1. /\ events' \in Seq(Events) /\ Len(events) \in Nat
        /\ Len(events') = Len(events) + 1 /\ Len(events') <= MaxQueue
        /\ \A i \in 1..Len(events) : events'[i] = events[i]
        /\ events'[Len(events')] =
             [kind |-> kind, at |-> cursor - window, fresh |-> TRUE]
    BY <1>0, <1>1, PostIs DEF DragTypeOK
  <2>2. events' # <<>>
    BY <2>1
  <2>3. QED
    BY <1>0, <2>1, <2>2 DEF NewestIsTrue, GrabFollows
<1>2. CASE ButtonDown
  <2>1. Post("pressed", cursor) /\ held' = TRUE
    BY <1>2 DEF ButtonDown
  <2>2. DragTypeOK' /\ NewestIsTrue' /\ GrabFollows'
    BY <1>0, <1>1, <2>1 DEF DragTypeOK, Kinds
  <2>3. DragIsEnding'
    BY <2>1 DEF DragIsEnding
  <2>4. QED
    BY <2>2, <2>3 DEF DragInv
<1>3. CASE ButtonUp
  <2>1. Post("released", cursor) /\ held' = FALSE
    BY <1>3 DEF ButtonUp
  <2>2. DragTypeOK' /\ NewestIsTrue' /\ GrabFollows'
    BY <1>0, <1>1, <2>1 DEF DragTypeOK, Kinds
  <2>3. DragIsEnding'
    <3>1. /\ Len(events) \in Nat /\ Len(events') = Len(events) + 1
          /\ events'[Len(events')].kind = "released"
      BY <1>1, <2>1 DEF Kinds
    <3>2. /\ Len(events') \in 1..Len(events')
          /\ events'[Len(events')].kind \in {"released", "other"}
          /\ \A j \in (Len(events') + 1)..Len(events') : events'[j].kind # "pressed"
      BY <3>1
    <3>3. QED
      BY <3>2 DEF DragIsEnding, Ends, NoPressAfter
  <2>4. QED
    BY <2>2, <2>3 DEF DragInv
<1>4. CASE OtherButton
  <2>1. Post("other", cursor) /\ held' = held
    BY <1>4 DEF OtherButton
  <2>2. DragTypeOK' /\ NewestIsTrue' /\ GrabFollows'
    BY <1>0, <1>1, <2>1 DEF DragTypeOK, Kinds
  <2>3. DragIsEnding'
    BY <1>0, <1>1, <2>1 DEF DragInv, DragIsEnding, Ends, NoPressAfter, Kinds
  <2>4. QED
    BY <2>2, <2>3 DEF DragInv
<1>5. QED
  BY <1>2, <1>3, <1>4

LEMMA LossKeepsDrag == DragInv /\ LoseCapture => DragInv'
  BY DEF LoseCapture, DragInv, DragTypeOK, DragIsEnding, NewestIsTrue,
     GrabFollows, cells

-----------------------------------------------------------------------------
(* The handler.  Whatever it does with the first event, the rest of the    *)
(* queue still ends the drag if the queue did ...                          *)
LEMMA HandledIsEnding ==
  ASSUME DragTypeOK, DragIsEnding, events # <<>>, events' = Rest,
         UNCHANGED <<held, lost>>,
         Ends(Head(events)) => ~is_dragging',
         is_dragging' => is_dragging \/ Head(events).kind = "pressed"
  PROVE  DragIsEnding'
<1>1. /\ Rest \in Seq(Events) /\ Len(Rest) = Len(events) - 1
      /\ \A i \in 1..Len(Rest) : Rest[i].kind = events[i + 1].kind
  BY RestIs
<1>2. /\ Len(events) \in Nat \ {0} /\ events \in Seq(Events)
      /\ Head(events) = events[1]
  BY EmptySeq DEF DragTypeOK
<1> SUFFICES ASSUME ~held, ~lost
             PROVE  \/ \E i \in 1..Len(Rest) :
                         /\ Ends(Rest[i])
                         /\ \A j \in (i + 1)..Len(Rest) : Rest[j].kind # "pressed"
                    \/ /\ ~is_dragging'
                       /\ \A j \in (0 + 1)..Len(Rest) : Rest[j].kind # "pressed"
  <2> HIDE DEF Rest
  <2>1. QED
    BY DEF DragIsEnding, NoPressAfter, Ends
<1>3. CASE \E i \in 1..Len(events) : Ends(events[i]) /\ NoPressAfter(i)
  <2>1. PICK i \in 1..Len(events) : Ends(events[i]) /\ NoPressAfter(i)
    BY <1>3
  <2>2. \A j \in i..Len(Rest) : Rest[j].kind # "pressed"
    BY <1>1, <1>2, <2>1 DEF NoPressAfter
  <2>3. CASE i = 1
    BY <1>1, <1>2, <2>1, <2>2, <2>3
  <2>4. CASE i # 1
    <3>1. i - 1 \in 1..Len(Rest) /\ Rest[i - 1].kind = events[i].kind
      BY <1>1, <1>2, <2>1, <2>4
    <3>2. Ends(Rest[i - 1]) /\ \A j \in ((i - 1) + 1)..Len(Rest) : Rest[j].kind # "pressed"
      BY <1>1, <2>1, <2>2, <3>1 DEF Ends
    <3>3. QED
      BY <3>1, <3>2
  <2>5. QED
    BY <2>3, <2>4
<1>4. CASE ~is_dragging /\ NoPressAfter(0)
  <2>1. \A j \in 1..Len(events) : events[j].kind # "pressed"
    BY <1>4 DEF NoPressAfter
  <2>2. ~is_dragging' /\ \A j \in (0 + 1)..Len(Rest) : Rest[j].kind # "pressed"
    BY <1>1, <1>2, <1>4, <2>1
  <2>3. QED
    BY <2>2
<1>5. QED
  BY <1>3, <1>4 DEF DragIsEnding

(* ... and the newest event is true, or known to be out of date.           *)
LEMMA HandledIsTrue ==
  ASSUME DragTypeOK, NewestIsTrue, events # <<>>, events' = Rest,
         UNCHANGED <<held, cursor>>
  PROVE  NewestIsTrue'
<1>1. /\ Rest \in Seq(Events) /\ Len(Rest) = Len(events) - 1
      /\ \A i \in 1..Len(Rest) :
           /\ Rest[i].at = events[i + 1].at
           /\ Rest[i].fresh = (events[i + 1].fresh /\ window' = window)
  BY RestIs
<1>2. Len(events) \in Nat \ {0} /\ events \in Seq(Events)
  BY EmptySeq DEF DragTypeOK
<1> SUFFICES ASSUME held, Rest # <<>>, Rest[Len(Rest)].fresh
             PROVE  Rest[Len(Rest)].at = cursor - window'
  BY DEF NewestIsTrue
<1>3. Len(Rest) \in 1..Len(Rest) /\ Len(Rest) + 1 = Len(events)
  BY <1>1, <1>2, EmptySeq
<1>4. events[Len(events)].fresh /\ window' = window
  BY <1>1, <1>3
<1>5. events[Len(events)].at = cursor - window
  BY <1>4 DEF NewestIsTrue
<1>6. QED
  BY <1>1, <1>3, <1>4, <1>5

(* If that was the last event while nothing ends the drag, it was true.    *)
LEMMA LastIsTrue ==
  ASSUME DragInv, events # <<>>, Rest = <<>>, ~lost, Head(events).fresh,
         Head(events).kind = "pressed" \/ (Head(events).kind = "moved" /\ is_dragging)
  PROVE  Head(events).at = cursor - window
<1>1. events \in Seq(Events) /\ Len(events) \in Nat \ {0} /\ Head(events) = events[1]
  BY EmptySeq DEF DragInv, DragTypeOK
<1>2. Len(events) = 1
  BY <1>1, RestIs, EmptySeq DEF DragInv
<1>3. held
  <2>1. ~\E i \in 1..Len(events) : Ends(events[i]) /\ NoPressAfter(i)
    BY <1>1, <1>2 DEF Ends
  <2>2. ~(~is_dragging /\ NoPressAfter(0))
    BY <1>1, <1>2 DEF NoPressAfter
  <2>3. QED
    BY <2>1, <2>2 DEF DragInv, DragIsEnding
<1>4. QED
  BY <1>1, <1>2, <1>3 DEF DragInv, NewestIsTrue

LEMMA HandlerKeepsDrag ==
  ASSUME DragInv, NEW kind \in Kinds, Handles(kind)
  PROVE  DragInv'
<1> DEFINE e == Head(events)
<1>1. /\ DragTypeOK /\ DragIsEnding /\ NewestIsTrue
      /\ events # <<>> /\ e.kind = kind /\ events' = Rest
      /\ UNCHANGED <<cursor, held, lost>>
  BY DEF DragInv, Handles
<1>2. e \in Events /\ Rest \in Seq(Events) /\ Len(Rest) <= MaxQueue
  <2>1. events \in Seq(Events) /\ Len(events) <= MaxQueue /\ Len(events) \in Nat
    BY <1>1 DEF DragTypeOK
  <2>2. MaxQueue \in Nat
    BY DragAssumption
  <2>3. QED
    BY <1>1, <2>1, <2>2, RestIs, HeadTailProperties
<1>3. e.at \in Int /\ e.fresh \in BOOLEAN
  BY <1>2 DEF Events
<1>4. NewestIsTrue'
  BY <1>1, HandledIsTrue
<1>5. CASE kind = "moved"
  <2>1. Moved(e.at)
    BY <1>5 DEF Handles
  <2>2. DragTypeOK'
    BY <1>1, <1>2, <1>3, <2>1 DEF DragTypeOK, Moved
  <2>3. DragIsEnding'
    BY <1>1, <1>5, <2>1, HandledIsEnding DEF Moved, Ends
  <2>4. GrabFollows'
    <3> SUFFICES ASSUME is_dragging', Rest = <<>>, exact', ~lost
                 PROVE  cursor - window' = drag_start_position'
      BY <1>1 DEF GrabFollows
    <3>1. is_dragging /\ e.fresh
      BY <2>1 DEF Moved
    <3>2. e.at = cursor - window
      BY <1>1, <1>5, <3>1, LastIsTrue
    <3>3. window' = window + (e.at - drag_start_position)
          /\ drag_start_position' = drag_start_position
      BY <2>1, <3>1 DEF Moved
    <3>4. window \in Int /\ cursor \in Int /\ drag_start_position \in Int
      BY <1>1, ReachIsInt DEF DragTypeOK
    <3>5. QED
      BY <3>2, <3>3, <3>4
  <2>5. QED
    BY <1>4, <2>2, <2>3, <2>4 DEF DragInv
<1>6. CASE kind = "pressed"
  <2>1. Pressed
    BY <1>6 DEF Handles
  <2>2. DragTypeOK'
    BY <1>1, <1>2, <1>3, <2>1 DEF DragTypeOK, Pressed
  <2>3. DragIsEnding'
    BY <1>1, <1>6, HandledIsEnding DEF Ends
  <2>4. GrabFollows'
    <3> SUFFICES ASSUME is_dragging', Rest = <<>>, exact', ~lost
                 PROVE  cursor - window' = drag_start_position'
      BY <1>1 DEF GrabFollows
    <3>1. /\ e.fresh /\ e.at = last_cursor_position
          /\ drag_start_position' = last_cursor_position /\ window' = window
      BY <2>1 DEF Pressed
    <3>2. e.at = cursor - window
      BY <1>1, <1>6, <3>1, LastIsTrue
    <3>3. QED
      BY <3>1, <3>2
  <2>5. QED
    BY <1>4, <2>2, <2>3, <2>4 DEF DragInv
<1>7. CASE kind \in {"released", "other"}
  <2>1. Released
    BY <1>7 DEF Handles
  <2>2. DragTypeOK'
    BY <1>1, <1>2, <2>1 DEF DragTypeOK, Released
  <2>3. DragIsEnding'
    BY <1>1, <2>1, HandledIsEnding DEF Released
  <2>4. QED
    BY <1>4, <2>1, <2>2, <2>3 DEF DragInv, GrabFollows, Released
<1>8. QED
  BY <1>5, <1>6, <1>7 DEF Kinds

LEMMA StepKeepsDrag == DragInv /\ [DragNext]_dragVars => DragInv'
<1> SUFFICES ASSUME DragInv, [DragNext]_dragVars PROVE DragInv'
  OBVIOUS
<1>1. CASE WindowSystem
  BY <1>1, CursorKeepsDrag, ButtonKeepsDrag, LossKeepsDrag DEF WindowSystem
<1>2. CASE \E kind \in Kinds : Handles(kind)
  BY <1>2, HandlerKeepsDrag
<1>3. CASE UNCHANGED dragVars
  BY <1>3 DEF dragVars, cells, history, DragInv, DragTypeOK, DragIsEnding,
     NoPressAfter, Ends, NewestIsTrue, GrabFollows
<1>4. QED
  BY <1>1, <1>2, <1>3 DEF DragNext

THEOREM DragInvariant == DragSpec => []DragInv
<1>1. QED
  BY InitDrag, StepKeepsDrag, PTL DEF DragSpec

(* The grabbed point of the title bar is under the cursor once the queue   *)
(* is empty (componts.rs:82-92,102-105).                                   *)
THEOREM WindowFollowsHand == DragSpec => []GrabFollows
<1>1. DragInv => GrabFollows
  BY DEF DragInv
<1>2. QED
  BY <1>1, DragInvariant, PTL

(* A window is dragged with the button down only (componts.rs:102-113).    *)
THEOREM DragNeedsButton == DragSpec => []NoStrayDrag
<1>1. DragInv => NoStrayDrag
  BY EmptySeq DEF DragInv, DragIsEnding, NoStrayDrag
<1>2. QED
  BY <1>1, DragInvariant, PTL

-----------------------------------------------------------------------------
LEMMA UpToHasSize ==
  \A n \in Nat : IsFiniteSet(1..n) /\ Cardinality(1..n) = n
<1> TAKE n \in Nat
<1>1. n \in Int /\ 1 \in Int /\ (IF 1 > n THEN 0 ELSE n - 1 + 1) = n
  OBVIOUS
<1>2. QED
  BY <1>1, FS_Interval

(* Counting the members up to each one numbers a finite set of numbers     *)
(* from 1, without gaps: an injection into a set of the same size is onto. *)
LEMMA NthIs ==
  ASSUME NEW S \in SUBSET Nat, IsFiniteSet(S)
  PROVE  /\ Cardinality(S) \in Nat
         /\ \A k \in 1..Cardinality(S) : Nth(S, k) \in S
         /\ \A k, l \in 1..Cardinality(S) : Nth(S, k) = Nth(S, l) => k = l
         /\ \A i \in S : \E k \in 1..Cardinality(S) : Nth(S, k) = i
         /\ \A k, l \in 1..Cardinality(S) : Nth(S, k) < Nth(S, l) => k < l
<1> DEFINE upto(m) == {j \in S : j <= m}
           n == Cardinality(S)
           rank == [i \in S |-> Cardinality(upto(i))]
<1>1. n \in Nat /\ IsFiniteSet(1..n) /\ Cardinality(1..n) = n
  BY FS_CardinalityType, UpToHasSize
<1>2. ASSUME NEW i \in S
      PROVE  IsFiniteSet(upto(i)) /\ Cardinality(upto(i)) \in 1..n
  <2>1. /\ IsFiniteSet(upto(i)) /\ Cardinality(upto(i)) <= n
    BY FS_Subset
  <2>2. Cardinality(upto(i)) \in Nat /\ i \in upto(i)
    BY <2>1, FS_CardinalityType
  <2>3. Cardinality(upto(i)) # 0
    BY <2>1, <2>2, FS_EmptySet
  <2>4. QED
    BY <1>1, <2>1, <2>2, <2>3
<1>3. ASSUME NEW i \in S, NEW j \in S, i < j
      PROVE  Cardinality(upto(i)) < Cardinality(upto(j))
  <2>0. \A m \in S : m \in Nat
    OBVIOUS
  <2>1. upto(i) \in SUBSET upto(j) /\ j \in upto(j) /\ j \notin upto(i)
    <3>1. \A m \in S : m <= i => m <= j
      BY <1>3, <2>0
    <3>2. ~(j <= i) /\ j <= j
      BY <1>3, <2>0
    <3>3. QED
      BY <3>1, <3>2
  <2>2. upto(i) # upto(j)
    BY <2>1
  <2>3. /\ Cardinality(upto(i)) <= Cardinality(upto(j))
        /\ Cardinality(upto(i)) # Cardinality(upto(j))
    <3>1. IsFiniteSet(upto(j)) /\ upto(i) \in SUBSET upto(j)
      BY <1>2, <2>1
    <3> HIDE DEF upto
    <3>2. /\ Cardinality(upto(i)) <= Cardinality(upto(j))
          /\ Cardinality(upto(j)) = Cardinality(upto(i)) => upto(j) = upto(i)
      BY <3>1, FS_Subset
    <3>3. QED
      BY <2>2, <3>2
  <2>4. Cardinality(upto(i)) \in Int /\ Cardinality(upto(j)) \in Int
    <3>1. Cardinality(upto(i)) \in 1..n /\ Cardinality(upto(j)) \in 1..n /\ n \in Nat
      BY <1>1, <1>2
    <3> HIDE DEF upto, n
    <3>2. QED
      BY <3>1
  <2> HIDE DEF upto
  <2>5. QED
    BY <2>3, <2>4
<1>4. rank \in [S -> 1..n]
  BY <1>2
<1>5. /\ \A i, j \in S : i < j => rank[i] < rank[j]
      /\ \A i, j \in S : rank[i] = rank[j] => i = j
  <2>1. \A i, j \in S : i < j => rank[i] < rank[j]
    BY <1>3
  <2>2. \A i \in S : i \in Nat /\ rank[i] \in Nat
    BY <1>1, <1>4
  <2>3. QED
    BY <2>1, <2>2
<1>6. rank \in Injection(S, 1..n)
  BY <1>4, <1>5, Fun_IsInj
<1>7. rank \in Surjection(S, 1..n)
  BY <1>1, <1>6, FS_Injection
<1>8. \A k \in 1..n : \E i \in S : rank[i] = k
  BY <1>7 DEF Surjection
<1>9. \A k \in 1..n : Nth(S, k) \in S /\ rank[Nth(S, k)] = k
  BY <1>8 DEF Nth
<1>10. ASSUME NEW i \in S
       PROVE  \E k \in 1..n : Nth(S, k) = i
  <2>1. rank[i] \in 1..n
    BY <1>4
  <2>2. rank[Nth(S, rank[i])] = rank[i] /\ Nth(S, rank[i]) \in S
    BY <1>9, <2>1
  <2>3. QED
    BY <1>5, <2>1, <2>2
<1>11. ASSUME NEW k \in 1..n, NEW l \in 1..n, Nth(S, k) < Nth(S, l)
       PROVE  k < l
  <2>1. /\ Nth(S, k) \in S /\ rank[Nth(S, k)] = k
        /\ Nth(S, l) \in S /\ rank[Nth(S, l)] = l
    BY <1>9
  <2> HIDE DEF rank
  <2>2. rank[Nth(S, k)] < rank[Nth(S, l)]
    BY <1>5, <1>11, <2>1
  <2>3. QED
    BY <2>1, <2>2
<1>12. QED
  BY <1>1, <1>9, <1>10, <1>11

(* The filter: what is left are the other tabs, in their order, and none   *)
(* of them twice if none was (componts.rs:300-302).                        *)
LEMMA WithoutIs ==
  ASSUME NEW T, NEW tabs \in Seq(T), NEW t
  PROVE  /\ Without(tabs, t) \in Seq(T)
         /\ Len(Without(tabs, t)) <= Len(tabs)
         /\ ToSet(Without(tabs, t)) = ToSet(tabs) \ {t}
         /\ IsInjective(tabs) => IsInjective(Without(tabs, t))
         /\ \A u, v : u # t /\ v # t /\ Before(tabs, u, v)
                       => Before(Without(tabs, t), u, v)
<1> DEFINE kept == {i \in 1..Len(tabs) : tabs[i] # t}
           n == Cardinality(kept)
           w == Without(tabs, t)
<1>1. /\ Len(tabs) \in Nat /\ DOMAIN tabs = 1..Len(tabs)
      /\ \A i \in 1..Len(tabs) : tabs[i] \in T
  BY LenProperties, ElementOfSeq
<1>2. IsFiniteSet(kept) /\ kept \in SUBSET Nat /\ n <= Len(tabs)
  <2>1. IsFiniteSet(1..Len(tabs)) /\ Cardinality(1..Len(tabs)) = Len(tabs)
    BY <1>1, UpToHasSize
  <2>2. kept \in SUBSET (1..Len(tabs))
    OBVIOUS
  <2>3. QED
    BY <1>1, <2>1, <2>2, FS_Subset
<1>3. /\ n \in Nat
      /\ \A k \in 1..n : Nth(kept, k) \in kept
      /\ \A k, l \in 1..n : Nth(kept, k) = Nth(kept, l) => k = l
      /\ \A i \in kept : \E k \in 1..n : Nth(kept, k) = i
      /\ \A k, l \in 1..n : Nth(kept, k) < Nth(kept, l) => k < l
  <2> HIDE DEF kept
  <2> QED
    BY <1>2, NthIs
<1>4. w = [k \in 1..n |-> tabs[Nth(kept, k)]]
  BY DEF Without
<1>5. kept \subseteq 1..Len(tabs) /\ \A i \in 1..Len(tabs) : i \in kept <=> tabs[i] # t
  OBVIOUS
<1> HIDE DEF kept, n, w
<1>6. w \in [1..n -> T] /\ DOMAIN w = 1..n
  BY <1>1, <1>3, <1>4, <1>5
<1>7. w \in Seq(T) /\ Len(w) = n
  BY <1>3, <1>6, SeqDef, LenProperties
<1>8. ToSet(w) = ToSet(tabs) \ {t}
  <2>1. ASSUME NEW u \in ToSet(w) PROVE u \in ToSet(tabs) \ {t}
    <3>1. PICK k \in 1..n : u = tabs[Nth(kept, k)]
      BY <1>4, <1>6, <2>1 DEF ToSet
    <3>2. QED
      BY <1>1, <1>3, <1>5, <3>1 DEF ToSet
  <2>2. ASSUME NEW u \in ToSet(tabs) \ {t} PROVE u \in ToSet(w)
    <3>1. PICK i \in 1..Len(tabs) : u = tabs[i]
      BY <1>1, <2>2 DEF ToSet
    <3>2. PICK k \in 1..n : Nth(kept, k) = i
      BY <1>3, <1>5, <2>2, <3>1
    <3>3. u = w[k] /\ k \in DOMAIN w
      BY <1>4, <1>6, <3>1, <3>2
    <3>4. QED
      BY <3>3 DEF ToSet
  <2>3. QED
    BY <2>1, <2>2
<1>9. IsInjective(tabs) => IsInjective(w)
  <2> SUFFICES ASSUME IsInjective(tabs), NEW k \in 1..n, NEW l \in 1..n, w[k] = w[l]
               PROVE  k = l
    BY <1>6 DEF IsInjective
  <2>1. tabs[Nth(kept, k)] = tabs[Nth(kept, l)]
    BY <1>4
  <2>2. Nth(kept, k) = Nth(kept, l)
    BY <1>1, <1>3, <1>5, <2>1 DEF IsInjective
  <2>3. QED
    BY <1>3, <2>2
<1>10. ASSUME NEW u, NEW v, u # t, v # t, Before(tabs, u, v)
       PROVE  Before(w, u, v)
  <2>1. PICK i, j \in 1..Len(tabs) : i < j /\ tabs[i] = u /\ tabs[j] = v
    BY <1>10 DEF Before
  <2>2. i \in kept /\ j \in kept
    BY <1>5, <1>10, <2>1
  <2>3. PICK k, l \in 1..n : Nth(kept, k) = i /\ Nth(kept, l) = j
    BY <1>3, <2>2
  <2>4. k < l /\ w[k] = u /\ w[l] = v
    BY <1>3, <1>4, <2>1, <2>3
  <2>5. QED
    BY <1>7, <2>4 DEF Before
<1>11. QED
  BY <1>2, <1>7, <1>8, <1>9, <1>10 DEF n, w

(* A tab that is not shown is appended.                                    *)
LEMMA AppendTabIs ==
  ASSUME NEW T, NEW tabs \in Seq(T), NEW t \in T
  PROVE  /\ Append(tabs, t) \in Seq(T)
         /\ ToSet(Append(tabs, t)) = ToSet(tabs) \cup {t}
         /\ IsInjective(tabs) /\ t \notin ToSet(tabs) => IsInjective(Append(tabs, t))
         /\ \A u, v : Before(tabs, u, v) => Before(Append(tabs, t), u, v)
<1> DEFINE a == Append(tabs, t)
<1>1. /\ Len(tabs) \in Nat /\ DOMAIN tabs = 1..Len(tabs)
      /\ a \in Seq(T) /\ DOMAIN a = 1..(Len(tabs) + 1)
      /\ \A i \in 1..Len(tabs) : a[i] = tabs[i]
      /\ a[Len(tabs) + 1] = t
  BY AppendProperties, LenProperties
<1> HIDE DEF a
<1>2. ToSet(a) = ToSet(tabs) \cup {t}
  <2>1. ASSUME NEW u \in ToSet(a) PROVE u \in ToSet(tabs) \cup {t}
    <3>1. PICK i \in 1..(Len(tabs) + 1) : u = a[i]
      BY <1>1, <2>1 DEF ToSet
    <3>2. CASE i = Len(tabs) + 1
      BY <1>1, <3>1, <3>2
    <3>3. CASE i \in 1..Len(tabs)
      BY <1>1, <3>1, <3>3 DEF ToSet
    <3>4. QED
      BY <1>1, <3>2, <3>3
  <2>2. t \in ToSet(a)
    BY <1>1 DEF ToSet
  <2>3. ASSUME NEW u \in ToSet(tabs) PROVE u \in ToSet(a)
    <3>1. PICK i \in 1..Len(tabs) : u = tabs[i]
      BY <1>1, <2>3 DEF ToSet
    <3>2. i \in DOMAIN a /\ u = a[i]
      BY <1>1, <3>1
    <3>3. QED
      BY <3>2 DEF ToSet
  <2>4. QED
    BY <2>1, <2>2, <2>3
<1>3. ASSUME IsInjective(tabs), t \notin ToSet(tabs),
             NEW i \in 1..(Len(tabs) + 1), NEW j \in 1..(Len(tabs) + 1), a[i] = a[j]
      PROVE  i = j
  <2>1. \A k \in 1..Len(tabs) : tabs[k] # t
    BY <1>1, <1>3 DEF ToSet
  <2>2. \A k, l \in 1..Len(tabs) : tabs[k] = tabs[l] => k = l
    BY <1>1, <1>3 DEF IsInjective
  <2>3. QED
    BY <1>1, <1>3, <2>1, <2>2
<1>4. ASSUME NEW u, NEW v, Before(tabs, u, v)
      PROVE  Before(a, u, v)
  <2>1. Len(a) = Len(tabs) + 1
    BY AppendProperties DEF a
  <2>2. QED
    BY <1>1, <1>4, <2>1 DEF Before
<1>5. QED
  BY <1>1, <1>2, <1>3, <1>4 DEF IsInjective, a

(* Tabs that differ are no more than their names.                          *)
LEMMA NoMoreTabsThanNames ==
  ASSUME NEW tabs \in Seq(Names), IsInjective(tabs)
  PROVE  Len(tabs) <= Cardinality(Names)
<1>1. IsFiniteSet(Names)
  BY TabsAssumption, FS_AddElement DEF Names
<1>2. Len(tabs) \in Nat /\ tabs \in [1..Len(tabs) -> Names]
  BY LenProperties
<1>3. tabs \in Injection(1..Len(tabs), Names)
  BY <1>2, Fun_IsInj DEF IsInjective
<1>4. Cardinality(1..Len(tabs)) = Len(tabs)
  BY <1>2, UpToHasSize
<1>5. QED
  BY <1>1, <1>3, <1>4, FS_Injection

LEMMA InitTabs == Init => TabsInv
<1> SUFFICES ASSUME Init PROVE TabsInv
  OBVIOUS
<1>1. /\ visible_tabs \in Seq(Names) /\ Len(visible_tabs) = 1
      /\ visible_tabs[1] = EventLog /\ DOMAIN visible_tabs = {1}
  <2>1. EventLog \in Names /\ visible_tabs = <<EventLog>>
    BY DEF Init, Names
  <2>2. QED
    BY <2>1
<1>2. NoDoubleTab
  BY <1>1 DEF NoDoubleTab, IsInjective
<1>3. EventLog \in Shown
  BY <1>1 DEF Shown, ToSet
<1>4. QED
  BY <1>1, <1>2, <1>3, NoMoreTabsThanNames
  DEF TabsInv, TypeOK, ActiveIsShown, NoDoubleTab, Init, Names

LEMMA AddKeepsTabs ==
  ASSUME TabsInv, NEW t \in Names, AddTab(t)
  PROVE  TabsInv'
<1>1. visible_tabs \in Seq(Names) /\ visible_tabs' = Append(visible_tabs, t)
      /\ active_tab' = t /\ t \notin ToSet(visible_tabs) /\ IsInjective(visible_tabs)
      /\ EventLog \in ToSet(visible_tabs)
  BY DEF TabsInv, TypeOK, AddTab, Shown, NoDoubleTab, ActiveIsShown
<1>2. /\ visible_tabs' \in Seq(Names) /\ IsInjective(visible_tabs')
      /\ ToSet(visible_tabs') = ToSet(visible_tabs) \cup {t}
  BY <1>1, AppendTabIs
<1>3. Len(visible_tabs') <= Cardinality(Names)
  BY <1>2, NoMoreTabsThanNames
<1>4. QED
  BY <1>1, <1>2, <1>3 DEF TabsInv, TypeOK, ActiveIsShown, NoDoubleTab, Shown

(* The tab activated instead of the one removed is another one, and stays. *)
LEMMA LeftOfIsKept ==
  ASSUME TabsInv, NEW t \in Shown, t # EventLog
  PROVE  LeftOf(t) \in Shown \ {t}
<1> DEFINE at == {i \in 1..Len(visible_tabs) : visible_tabs[i] = t}
           first == CHOOSE i \in at : \A j \in at : i <= j
<1>1. /\ visible_tabs \in Seq(Names) /\ Len(visible_tabs) \in Nat
      /\ DOMAIN visible_tabs = 1..Len(visible_tabs) /\ IsInjective(visible_tabs)
      /\ EventLog \in Shown
  BY LenProperties DEF TabsInv, TypeOK, NoDoubleTab, ActiveIsShown
<1>2. PICK i \in 1..Len(visible_tabs) : visible_tabs[i] = t
  BY <1>1 DEF Shown, ToSet
<1>3. at = {i}
  BY <1>1, <1>2 DEF IsInjective
<1>4. first = i
  BY <1>1, <1>3
<1>5. LeftOf(t) = IF i > 1 THEN visible_tabs[i - 1] ELSE EventLog
  <2>1. LeftOf(t) = IF first > 1 THEN visible_tabs[first - 1] ELSE EventLog
    BY DEF LeftOf
  <2>2. QED
    BY <1>4, <2>1
<1>6. CASE i > 1
  <2>1. i - 1 \in DOMAIN visible_tabs /\ i \in DOMAIN visible_tabs /\ i - 1 # i
    BY <1>1, <1>2, <1>6
  <2>2. visible_tabs[i - 1] # t
    BY <1>1, <1>2, <2>1 DEF IsInjective
  <2>3. QED
    BY <1>5, <1>6, <2>1, <2>2 DEF Shown, ToSet
<1>7. QED
  BY <1>1, <1>5, <1>6

LEMMA RemoveKeepsTabs ==
  ASSUME TabsInv, NEW t \in Names, RemoveTab(t)
  PROVE  TabsInv'
<1>1. /\ visible_tabs \in Seq(Names) /\ IsInjective(visible_tabs)
      /\ active_tab \in Shown /\ EventLog \in Shown /\ Shown = ToSet(visible_tabs)
      /\ t # EventLog /\ t \in Shown
      /\ visible_tabs' = Without(visible_tabs, t)
      /\ active_tab' = IF active_tab = t THEN LeftOf(t) ELSE active_tab
  BY DEF TabsInv, TypeOK, RemoveTab, Shown, NoDoubleTab, ActiveIsShown
<1>2. /\ visible_tabs' \in Seq(Names) /\ IsInjective(visible_tabs')
      /\ ToSet(visible_tabs') = Shown \ {t}
  BY <1>1, WithoutIs
<1>3. active_tab' \in Shown \ {t}
  BY <1>1, LeftOfIsKept
<1>4. active_tab' \in Names
  <2>1. \A u \in Shown : u \in Names
    BY <1>1 DEF ToSet
  <2>2. QED
    BY <1>3, <2>1
<1>5. Len(visible_tabs') <= Cardinality(Names)
  BY <1>2, NoMoreTabsThanNames
<1>6. QED
  BY <1>1, <1>2, <1>3, <1>4, <1>5
  DEF TabsInv, TypeOK, ActiveIsShown, NoDoubleTab, Shown

LEMMA StepKeepsTabs == TabsInv /\ [Next]_vars => TabsInv'
<1> SUFFICES ASSUME TabsInv, [Next]_vars PROVE TabsInv'
  OBVIOUS
<1>1. ASSUME NEW t \in Names, ButtonActive(t) PROVE TabsInv'
  BY <1>1 DEF ButtonActive, TabsInv, TypeOK, ActiveIsShown, NoDoubleTab, Shown
<1>2. CASE UNCHANGED vars
  BY <1>2 DEF vars, TabsInv, TypeOK, ActiveIsShown, NoDoubleTab, Shown
<1>3. QED
  BY <1>1, <1>2, AddKeepsTabs, RemoveKeepsTabs DEF Next

THEOREM TabsInvariant == Spec => []TabsInv
<1>1. QED
  BY InitTabs, StepKeepsTabs, PTL DEF Spec

(* All tabs but one at most stay, and in their order.                      *)
KeepPlace ==
  \E closed \in Names : \A t, u \in Shown \ {closed} :
    /\ t \in Shown'
    /\ Before(visible_tabs, t, u) => Before(visible_tabs', t, u)

LEMMA StepKeepsPlace == TabsInv /\ [Next]_vars => [KeepPlace]_vars
<1> SUFFICES ASSUME TabsInv, Next PROVE KeepPlace
  OBVIOUS
<1>1. PICK c \in Names : AddTab(c) \/ RemoveTab(c) \/ ButtonActive(c)
  BY DEF Next
<1>2. visible_tabs \in Seq(Names) /\ Shown = ToSet(visible_tabs)
      /\ Shown' = ToSet(visible_tabs')
  BY DEF TabsInv, TypeOK, Shown
<1>3. /\ \A t \in Shown \ {c} : t \in ToSet(visible_tabs')
      /\ \A t, u \in Shown \ {c} :
           Before(visible_tabs, t, u) => Before(visible_tabs', t, u)
  <2>1. CASE AddTab(c)
    BY <1>2, <2>1, AppendTabIs DEF AddTab
  <2>2. CASE RemoveTab(c)
    BY <1>2, <2>2, WithoutIs DEF RemoveTab
  <2>3. CASE ButtonActive(c)
    BY <1>2, <2>3 DEF ButtonActive
  <2>4. QED
    BY <1>1, <2>1, <2>2, <2>3
<1>4. QED
  BY <1>2, <1>3 DEF KeepPlace

(* However tabs are opened and closed, the others stay in their places     *)
(* (componts.rs:263,281-302).                                              *)
THEOREM TabsKeepOrder == Spec => OthersKeepPlace
<1>1. [KeepPlace]_vars =>
        [\E closed \in Names : \A t, u \in Shown \ {closed} :
           /\ t \in Shown'
           /\ Before(visible_tabs, t, u) => Before(visible_tabs', t, u)]_vars
  BY DEF KeepPlace
<1>2. QED
  BY <1>1, TabsInvariant, StepKeepsPlace, PTL DEF Spec, OthersKeepPlace

-----------------------------------------------------------------------------
(* The shell: each of its steps is a step of the drag or leaves the drag   *)
(* alone, so that all of this holds with clicks, tabs and a window that is *)
(* maximised.                                                              *)
THEOREM ShellDrags == ShellSpec => DragSpec
<1>1. ShellInit => DragInit
  BY DEF ShellInit
<1>2. [ShellNext]_shellVars => [DragNext]_dragVars
  BY DEF ShellNext, shellVars, Click, SystemToggles, Otherwise, DragNext, Kinds
<1>3. QED
  BY <1>1, <1>2, PTL DEF ShellSpec, DragSpec

(* And likewise for the tabs: a drag, a maximised window or a click        *)
(* elsewhere leaves them alone.                                            *)
THEOREM ShellTabs == ShellSpec => Spec
<1>1. ShellInit => Init
  BY DEF ShellInit
<1>2. [ShellNext]_shellVars => [Next]_vars
  BY DEF ShellNext, shellVars, Click, SystemToggles, Otherwise
<1>3. QED
  BY <1>1, <1>2, PTL DEF ShellSpec, Spec

(* The active tab is on screen, and so is the event log, whatever tabs are *)
(* opened, closed and clicked (componts.rs:275-296).                       *)
THEOREM ActiveTabOnScreen == ShellSpec => []ActiveIsShown
<1>1. TabsInv => ActiveIsShown
  BY DEF TabsInv
<1>2. QED
  BY <1>1, ShellTabs, TabsInvariant, PTL

(* No tab is on screen twice (componts.rs:258-259).                        *)
THEOREM NoTabTwice == ShellSpec => []NoDoubleTab
<1>1. TabsInv => NoDoubleTab
  BY DEF TabsInv
<1>2. QED
  BY <1>1, ShellTabs, TabsInvariant, PTL

(* In the whole window, too, closing a tab leaves the others in their      *)
(* places (componts.rs:263,281-302).                                       *)
THEOREM OtherTabsStay == ShellSpec => OthersKeepPlace
<1>1. QED
  BY ShellTabs, TabsKeepOrder

(* The types of the shell: a queue within its bound, a window within the   *)
(* screen, no more tabs than there are names.                              *)
THEOREM ShellTypes == ShellSpec => []ShellTypeOK
<1> DEFINE FrameOK == maximized \in BOOLEAN /\ fullscreen \in BOOLEAN
<1>1. ShellInit => FrameOK
  BY DEF ShellInit
<1>2. FrameOK /\ [ShellNext]_shellVars => FrameOK'
  BY DEF ShellNext, shellVars, frame, Click, MaximizeWindow, SystemToggles, Otherwise
<1>3. DragInv /\ TabsInv /\ FrameOK => ShellTypeOK
  BY DEF DragInv, TabsInv, ShellTypeOK
<1>4. QED
  BY <1>1, <1>2, <1>3, ShellDrags, DragInvariant, ShellTabs, TabsInvariant, PTL
  DEF ShellSpec
=============================================================================

------------------------- MODULE LogPipelineProofs -------------------------
(***************************************************************************)
(* Proofs about the log systems, for any entries, storage and channel      *)
(* sizes: the types, the convergence of the views, and that each view is a *)
(* LogView.                                                                *)
(***************************************************************************)
EXTENDS LogPipeline, SequenceTheorems, TLAPS

LEMMA SystemOfEntry == \A e \in Entries : SystemOf(e) \in Systems
  BY DEF SystemOf, Systems

(* add_entry returns entries, at most MaxLogs of them, if it was given as  *)
(* many (logs.rs:33-39).                                                   *)
LEMMA AddEntryBounded ==
  ASSUME NEW st \in Seq(Entries), NEW e \in Entries, Len(st) <= MaxLogs
  PROVE  AddEntry(st, e) \in Seq(Entries) /\ Len(AddEntry(st, e)) <= MaxLogs
  BY PipelineAssumption DEF AddEntry

(* If the storage is the tail of what was received, it still is after      *)
(* add_entry: the one entry it removes is the one that falls out.          *)
LEMMA AddEntryKeepsTail ==
  ASSUME NEW st \in Seq(Entries), NEW q \in Seq(Entries), NEW e \in Entries,
         NEW from \in Nat, from <= Len(q), IsTail(st, q, from)
  PROVE  IsTail(AddEntry(st, e), Append(q, e), from)
  <1> DEFINE a == Append(st, e)
             b == Append(q, e)
  <1> USE PipelineAssumption
  <1>1. /\ Len(st) \in Nat /\ Len(q) \in Nat
        /\ a \in Seq(Entries) /\ Len(a) = Len(st) + 1
        /\ b \in Seq(Entries) /\ Len(b) = Len(q) + 1
        /\ \A i \in 1..Len(st) : a[i] = st[i]
        /\ a[Len(st) + 1] = e
        /\ \A i \in 1..Len(q) : b[i] = q[i]
        /\ b[Len(q) + 1] = e
    OBVIOUS
  <1> HIDE DEF a, b
  <1>2. Len(st) <= Len(q) /\ Len(st) <= MaxLogs /\ Len(b) - from = (Len(q) - from) + 1
    BY <1>1 DEF IsTail, EndsAt
  <1>3. ASSUME NEW i \in 1..Len(a)
        PROVE  a[i] = b[Len(b) - Len(a) + i]
    <2>1. CASE i \in 1..Len(st)
      <3>1. Len(q) - Len(st) + i \in 1..Len(q)
        BY <1>1, <1>2, <2>1
      <3>2. Len(b) - Len(a) + i = Len(q) - Len(st) + i
        <4>1. \A m, k \in Nat : (m + 1) - (k + 1) = m - k
          OBVIOUS
        <4> QED BY <1>1, <4>1
      <3>3. a[i] = q[Len(q) - Len(st) + i]
        BY <1>1, <2>1 DEF IsTail, EndsAt
      <3> QED BY <1>1, <3>1, <3>2, <3>3
    <2>2. CASE i = Len(st) + 1
      BY <1>1, <1>2, <2>2
    <2> QED BY <1>1, <2>1, <2>2
  <1>4. CASE Len(st) + 1 > MaxLogs
    <2>1. /\ Len(Tail(a)) = Len(st)
          /\ \A i \in 1..Len(Tail(a)) : Tail(a)[i] = a[i + 1]
      BY <1>1
    <2>2. Len(st) = MaxLogs /\ Len(q) - from >= MaxLogs
      BY <1>1, <1>2, <1>4 DEF IsTail
    <2>3. ASSUME NEW i \in 1..Len(Tail(a))
          PROVE  Tail(a)[i] = b[Len(b) - Len(Tail(a)) + i]
      <3>1. i + 1 \in 1..Len(a) /\ Tail(a)[i] = a[i + 1]
        BY <1>1, <2>1
      <3>2. Len(b) - Len(a) + (i + 1) = Len(b) - Len(Tail(a)) + i
        <4>1. \A m, k \in Nat : \A j \in 1..k :
                (m + 1) - (k + 1) + (j + 1) = (m + 1) - k + j
          OBVIOUS
        <4>2. i \in 1..Len(st) /\ Len(Tail(a)) = Len(st)
          BY <2>1
        <4>3. (Len(q) + 1) - (Len(st) + 1) + (i + 1) = (Len(q) + 1) - Len(st) + i
          BY <1>1, <4>1, <4>2
        <4> QED BY <1>1, <4>2, <4>3
      <3> QED BY <1>3, <3>1, <3>2
    <2>4. Len(Tail(a)) = IF Len(b) - from <= MaxLogs THEN Len(b) - from ELSE MaxLogs
      BY <1>1, <1>2, <2>1, <2>2
    <2>5. EndsAt(Tail(a), b, Len(b))
      <3>1. Len(b) \in Len(Tail(a))..Len(b)
        BY <1>1, <1>2, <2>1
      <3> QED BY <2>3, <3>1 DEF EndsAt
    <2>6. IsTail(Tail(a), b, from)
      BY <2>4, <2>5 DEF IsTail
    <2> QED BY <1>4, <2>6 DEF AddEntry, a, b
  <1>5. CASE ~(Len(st) + 1 > MaxLogs)
    <2>1. Len(st) = Len(q) - from
      BY <1>1, <1>2, <1>5 DEF IsTail
    <2>2. Len(a) = IF Len(b) - from <= MaxLogs THEN Len(b) - from ELSE MaxLogs
      BY <1>1, <1>2, <2>1, <1>5
    <2>3. EndsAt(a, b, Len(b))
      BY <1>1, <1>2, <1>3 DEF EndsAt
    <2>4. IsTail(a, b, from)
      BY <2>2, <2>3 DEF IsTail
    <2> QED BY <1>5, <2>4 DEF AddEntry, a, b
  <1> QED BY <1>4, <1>5

(* The last element of a queue after a push, and after a pop.              *)
LEMMA PushedIsLast ==
  ASSUME NEW T, NEW q \in Seq(T), NEW x \in T
  PROVE  Append(q, x) \in Seq(T) /\ Append(q, x) # <<>> /\ Last(Append(q, x)) = x
  <1>1. Append(q, x) \in Seq(T) /\ Len(Append(q, x)) = Len(q) + 1
        /\ Append(q, x)[Len(q) + 1] = x
    OBVIOUS
  <1>2. Append(q, x) # <<>>
    BY <1>1
  <1> QED BY <1>1, <1>2 DEF Last

LEMMA PoppedKeepsLast ==
  ASSUME NEW T, NEW q \in Seq(T), q # <<>>
  PROVE  /\ Head(q) \in T /\ Tail(q) \in Seq(T)
         /\ Tail(q) = <<>> => Head(q) = Last(q)
         /\ Tail(q) # <<>> => Last(Tail(q)) = Last(q)
  <1>1. /\ Head(q) \in T /\ Head(q) = q[1] /\ Tail(q) \in Seq(T)
        /\ Len(q) \in Nat /\ Len(q) > 0 /\ Len(Tail(q)) = Len(q) - 1
        /\ \A i \in 1..Len(Tail(q)) : Tail(q)[i] = q[i + 1]
    OBVIOUS
  <1>2. Tail(q) = <<>> => Len(q) = 1
    <2>1. Tail(q) = <<>> => Len(Tail(q)) = 0
      BY <1>1, EmptySeq
    <2> QED BY <1>1, <2>1
  <1>3. Tail(q) # <<>> => Len(Tail(q)) > 0
    BY <1>1
  <1> QED BY <1>1, <1>2, <1>3 DEF Last

LEMMA SetOfSeq == \A T : \A q \in Seq(T) : ToSet(q) \subseteq T
  BY ElementOfSeq DEF ToSet

(* In a sequence without repetitions an entry has one place, and still has *)
(* it when a new one is appended.                                          *)
LEMMA PlaceIs ==
  ASSUME NEW T, NEW q \in Seq(T), IsInjective(q), NEW i \in 1..Len(q)
  PROVE  Place(q, q[i]) = i
  <1>1. DOMAIN q = 1..Len(q)
    OBVIOUS
  <1>2. \A j \in 1..Len(q) : q[j] = q[i] => j = i
    BY <1>1 DEF IsInjective
  <1> QED BY <1>2 DEF Place

LEMMA AppendFresh ==
  ASSUME NEW T, NEW q \in Seq(T), NEW e \in T
  PROVE  /\ \A u : u \in ToSet(Append(q, e)) <=> u \in ToSet(q) \/ u = e
         /\ IsInjective(q) /\ e \notin ToSet(q) => IsInjective(Append(q, e))
  <1> DEFINE a == Append(q, e)
  <1>1. /\ Len(q) \in Nat /\ DOMAIN q = 1..Len(q) /\ DOMAIN a = 1..(Len(q) + 1)
        /\ \A i \in 1..Len(q) : a[i] = q[i]
        /\ a[Len(q) + 1] = e
    OBVIOUS
  <1> HIDE DEF a
  <1>2. ASSUME NEW u
        PROVE  u \in ToSet(a) <=> u \in ToSet(q) \/ u = e
    <2>1. u \in ToSet(a) <=> \E i \in 1..(Len(q) + 1) : u = a[i]
      BY <1>1 DEF ToSet
    <2>2. u \in ToSet(q) <=> \E i \in 1..Len(q) : u = q[i]
      BY <1>1 DEF ToSet
    <2>3. 1..(Len(q) + 1) = 1..Len(q) \cup {Len(q) + 1}
      BY <1>1
    <2> QED BY <1>1, <2>1, <2>2, <2>3
  <1>3. ASSUME IsInjective(q), e \notin ToSet(q),
               NEW i \in 1..(Len(q) + 1), NEW j \in 1..(Len(q) + 1), a[i] = a[j]
        PROVE  i = j
    <2>1. \A k \in 1..Len(q) : q[k] # e
      BY <1>1, <1>3 DEF ToSet
    <2>2. \A k, l \in 1..Len(q) : q[k] = q[l] => k = l
      BY <1>1, <1>3 DEF IsInjective
    <2> QED BY <1>1, <1>3, <2>1, <2>2
  <1> QED BY <1>1, <1>2, <1>3 DEF IsInjective, a

LEMMA PopOnce ==
  ASSUME NEW T, NEW q \in Seq(T), q # <<>>, IsInjective(q)
  PROVE  /\ IsInjective(Tail(q)) /\ Head(q) \in ToSet(q)
         /\ \A u \in ToSet(Tail(q)) : u \in ToSet(q) /\ u # Head(q)
  <1> DEFINE t == Tail(q)
  <1>1. /\ Len(q) \in Nat \ {0} /\ DOMAIN q = 1..Len(q) /\ Head(q) = q[1]
        /\ Len(t) = Len(q) - 1 /\ DOMAIN t = 1..Len(t)
        /\ \A i \in 1..Len(t) : t[i] = q[i + 1]
    BY EmptySeq, HeadTailProperties, LenProperties
  <1> HIDE DEF t
  <1>2. \A k, l \in 1..Len(q) : q[k] = q[l] => k = l
    BY <1>1 DEF IsInjective
  <1>3. \A i \in 1..Len(t) : i + 1 \in 1..Len(q) /\ i + 1 # 1
    BY <1>1
  <1>4. IsInjective(t)
    <2> SUFFICES ASSUME NEW i \in 1..Len(t), NEW j \in 1..Len(t), t[i] = t[j]
                 PROVE  i = j
      BY <1>1 DEF IsInjective
    <2>1. i + 1 = j + 1
      BY <1>1, <1>2, <1>3
    <2> QED BY <2>1
  <1>5. 1 \in DOMAIN q
    BY <1>1
  <1>6. ASSUME NEW u \in ToSet(t) PROVE u \in ToSet(q) /\ u # Head(q)
    <2>1. PICK i \in 1..Len(t) : u = t[i]
      BY <1>1 DEF ToSet
    <2>2. u = q[i + 1] /\ i + 1 \in DOMAIN q /\ i + 1 # 1
      BY <1>1, <1>3, <2>1
    <2>3. u # q[1]
      BY <1>1, <1>2, <2>2
    <2> QED BY <1>1, <2>2, <2>3 DEF ToSet
  <1> QED BY <1>1, <1>4, <1>5, <1>6 DEF ToSet, t

(* Rows that end with the n-th entry received end there only.              *)
LEMMA EndIs ==
  ASSUME NEW T, NEW q \in Seq(T), IsInjective(q), NEW v \in Seq(T), v # <<>>,
         NEW n \in Nat, EndsAt(v, q, n)
  PROVE  n \in 1..Len(q) /\ End(q, v) = n
  <1>1. Len(v) \in Nat \ {0} /\ Len(v) <= n /\ n <= Len(q) /\ Len(q) \in Nat
    BY EmptySeq DEF EndsAt
  <1>2. Len(v) \in 1..Len(v) /\ n - Len(v) + Len(v) = n
    BY <1>1
  <1>3. Last(v) = q[n]
    BY <1>2 DEF EndsAt, Last
  <1> QED BY <1>1, <1>3, PlaceIs DEF End

(* What was received since does not change where rows end.                 *)
LEMMA EndStays ==
  ASSUME NEW T, NEW q \in Seq(T), IsInjective(q), NEW e \in T, e \notin ToSet(q),
         NEW v \in Seq(T), v # <<>>, NEW n \in Nat, EndsAt(v, q, n)
  PROVE  EndsAt(v, Append(q, e), n) /\ End(Append(q, e), v) = n
  <1> DEFINE a == Append(q, e)
  <1>1. /\ a \in Seq(T) /\ Len(a) = Len(q) + 1 /\ Len(q) \in Nat /\ Len(v) \in Nat
        /\ \A i \in 1..Len(q) : a[i] = q[i]
    OBVIOUS
  <1>2. IsInjective(a)
    BY AppendFresh
  <1> HIDE DEF a
  <1>3. n \in Len(v)..Len(q) /\ n \in Len(v)..Len(a)
    BY <1>1 DEF EndsAt
  <1>4. ASSUME NEW i \in 1..Len(v)
        PROVE  v[i] = a[n - Len(v) + i]
    <2>1. n - Len(v) + i \in 1..Len(q)
      BY <1>1, <1>3
    <2>2. v[i] = q[n - Len(v) + i]
      BY DEF EndsAt
    <2> QED BY <1>1, <2>1, <2>2
  <1>5. EndsAt(v, a, n)
    BY <1>3, <1>4 DEF EndsAt
  <1> QED BY <1>1, <1>2, <1>5, EndIs DEF a

-----------------------------------------------------------------------------
(* The rows on their way to a view stay in order ...                       *)

(* ... when the handler receives an entry and copies the storage,          *)
LEMMA CopyInOrder ==
  ASSUME NEW T, NEW q \in Seq(T), IsInjective(q), NEW e \in T, e \notin ToSet(q),
         NEW n \in Nat, n <= Len(q), NEW queue \in Seq(Seq(T)), NEW last,
         InOrder(q, n, queue, FALSE, last), NEW st \in Seq(T), Len(st) <= MaxLogs,
         EndsAt(st, Append(q, e), Len(Append(q, e)))
  PROVE  InOrder(Append(q, e), n, queue, TRUE, st)
  <1> DEFINE a == Append(q, e)
  <1>1. /\ a \in Seq(T) /\ Len(a) = Len(q) + 1 /\ Len(q) \in Nat /\ Len(a) \in Nat
    OBVIOUS
  <1>2. IsInjective(a)
    BY AppendFresh
  <1> HIDE DEF a
  <1>3. st # <<>> => End(a, st) = Len(a)
    BY <1>1, <1>2, EndIs DEF a
  <1>4. ASSUME NEW i \in 1..Len(queue), queue[i] # <<>>
        PROVE  /\ Len(queue[i]) <= MaxLogs
               /\ EndsAt(queue[i], a, End(a, queue[i]))
               /\ n <= End(a, queue[i]) /\ End(a, queue[i]) <= Len(q)
               /\ End(a, queue[i]) = End(q, queue[i])
    <2>1. queue[i] \in Seq(T)
      BY ElementOfSeq
    <2>2. /\ Len(queue[i]) <= MaxLogs
          /\ EndsAt(queue[i], q, End(q, queue[i])) /\ n <= End(q, queue[i])
      BY <1>4 DEF InOrder, OnTheWay
    <2>3. End(q, queue[i]) \in Nat /\ End(q, queue[i]) <= Len(q)
      BY <1>1, <2>1, <2>2 DEF EndsAt
    <2> QED BY <1>4, <2>1, <2>2, <2>3, EndStays DEF a
  <1>5. \A i \in 1..Len(queue) : OnTheWay(queue[i], a, n)
    BY <1>4 DEF OnTheWay
  <1>6. \A i, j \in 1..Len(queue) : i < j => NotBefore(a, queue[i], queue[j])
    BY <1>4 DEF InOrder, NotBefore
  <1>7. OnTheWay(st, a, n)
    BY <1>1, <1>3 DEF OnTheWay, a
  <1>8. \A i \in 1..Len(queue) : NotBefore(a, queue[i], st)
    <2> SUFFICES ASSUME NEW i \in 1..Len(queue), queue[i] # <<>>, st # <<>>
                 PROVE  End(a, queue[i]) <= End(a, st)
      BY DEF NotBefore
    <2>1. End(a, queue[i]) \in Nat
      <3>1. queue[i] \in Seq(T)
        BY ElementOfSeq
      <3> QED BY <1>1, <1>4, <3>1 DEF EndsAt
    <2> QED BY <1>1, <1>3, <1>4, <2>1
  <1> QED BY <1>5, <1>6, <1>7, <1>8 DEF InOrder, a

(* ... when it posts its copy, ...                                         *)
LEMMA PostInOrder ==
  ASSUME NEW T, NEW q \in Seq(T), NEW n \in Nat, NEW queue \in Seq(Seq(T)),
         NEW rows \in Seq(T), InOrder(q, n, queue, TRUE, rows)
  PROVE  InOrder(q, n, Append(queue, rows), FALSE, rows)
  <1> DEFINE a == Append(queue, rows)
  <1>1. /\ Len(queue) \in Nat /\ Len(a) = Len(queue) + 1
        /\ \A i \in 1..Len(queue) : a[i] = queue[i]
        /\ a[Len(queue) + 1] = rows
    OBVIOUS
  <1> HIDE DEF a
  <1>2. /\ \A i \in 1..Len(queue) : OnTheWay(queue[i], q, n)
        /\ \A i, j \in 1..Len(queue) : i < j => NotBefore(q, queue[i], queue[j])
        /\ OnTheWay(rows, q, n)
        /\ \A i \in 1..Len(queue) : NotBefore(q, queue[i], rows)
    BY DEF InOrder
  <1>3. \A i \in 1..Len(a) : i \in 1..Len(queue) \/ i = Len(queue) + 1
    <2>1. \A k \in Nat : \A i \in 1..(k + 1) : i \in 1..k \/ i = k + 1
      OBVIOUS
    <2> QED BY <1>1, <2>1
  <1>4. ASSUME NEW i \in 1..Len(a) PROVE OnTheWay(a[i], q, n)
    <2>1. CASE i \in 1..Len(queue)
      BY <1>1, <1>2, <2>1
    <2>2. CASE i = Len(queue) + 1
      BY <1>1, <1>2, <2>2
    <2> QED BY <1>3, <2>1, <2>2
  <1>5. ASSUME NEW i \in 1..Len(a), NEW j \in 1..Len(a), i < j
        PROVE  NotBefore(q, a[i], a[j])
    <2>1. i \in 1..Len(queue)
      BY <1>1, <1>5
    <2> QED BY <1>1, <1>2, <1>3, <1>5, <2>1
  <1> QED BY <1>4, <1>5 DEF InOrder, a

(* ... when a clear posts an empty view, ...                               *)
LEMMA EmptyInOrder ==
  ASSUME NEW T, NEW q \in Seq(T), NEW n \in Nat, NEW queue \in Seq(Seq(T)),
         NEW more, NEW last, InOrder(q, n, queue, more, last)
  PROVE  InOrder(q, n, Append(queue, <<>>), more, last)
  <1> DEFINE a == Append(queue, <<>>)
  <1>1. /\ Len(queue) \in Nat /\ Len(a) = Len(queue) + 1
        /\ \A i \in 1..Len(queue) : a[i] = queue[i]
        /\ a[Len(queue) + 1] = <<>>
    BY AppendProperties, EmptySeq
  <1> HIDE DEF a
  <1>2. \A i \in 1..Len(a) : i \in 1..Len(queue) \/ a[i] = <<>>
    BY <1>1
  <1>3. \A i \in 1..Len(a) : OnTheWay(a[i], q, n)
    BY <1>1, <1>2 DEF InOrder, OnTheWay
  <1>4. \A i, j \in 1..Len(a) : i < j => NotBefore(q, a[i], a[j])
    BY <1>1, <1>2 DEF InOrder, NotBefore
  <1>5. more => \A i \in 1..Len(a) : NotBefore(q, a[i], last)
    BY <1>1, <1>2 DEF InOrder, NotBefore
  <1> QED BY <1>3, <1>4, <1>5 DEF InOrder, a

(* ... and when the view shows the first of them.                          *)
LEMMA ShowInOrder ==
  ASSUME NEW T, NEW q \in Seq(T), NEW n \in Nat,
         NEW queue \in Seq(Seq(T)), queue # <<>>,
         NEW more, NEW last, InOrder(q, n, queue, more, last)
  PROVE  /\ OnTheWay(Head(queue), q, n)
         /\ InOrder(q, IF Head(queue) = <<>> THEN n ELSE End(q, Head(queue)),
                    Tail(queue), more, last)
  <1> DEFINE t == Tail(queue)
             m == IF queue[1] = <<>> THEN n ELSE End(q, queue[1])
  <1>1. /\ Len(queue) \in Nat \ {0} /\ Head(queue) = queue[1]
        /\ Len(t) = Len(queue) - 1
        /\ \A i \in 1..Len(t) : t[i] = queue[i + 1]
    BY EmptySeq, HeadTailProperties, LenProperties
  <1> HIDE DEF t
  <1>2. /\ 1 \in 1..Len(queue)
        /\ \A i \in 1..Len(t) : i + 1 \in 1..Len(queue) /\ 1 < i + 1
        /\ \A i, j \in 1..Len(t) : i < j => i + 1 < j + 1
    BY <1>1
  <1>3. /\ \A i \in 1..Len(queue) : OnTheWay(queue[i], q, n)
        /\ \A i, j \in 1..Len(queue) : i < j => NotBefore(q, queue[i], queue[j])
        /\ more => /\ OnTheWay(last, q, n)
                   /\ \A i \in 1..Len(queue) : NotBefore(q, queue[i], last)
    BY DEF InOrder
  <1>4. \A i \in 1..Len(t) : OnTheWay(t[i], q, m)
    <2>1. \A i \in 1..Len(t) : OnTheWay(t[i], q, n) /\ NotBefore(q, queue[1], t[i])
      BY <1>1, <1>2, <1>3
    <2> QED BY <2>1 DEF OnTheWay, NotBefore
  <1>5. \A i, j \in 1..Len(t) : i < j => NotBefore(q, t[i], t[j])
    BY <1>1, <1>2, <1>3
  <1>6. more => OnTheWay(last, q, m) /\ \A i \in 1..Len(t) : NotBefore(q, t[i], last)
    <2>1. more => OnTheWay(last, q, n) /\ NotBefore(q, queue[1], last)
      BY <1>2, <1>3
    <2>2. more => OnTheWay(last, q, m)
      BY <2>1 DEF OnTheWay, NotBefore
    <2> QED BY <1>1, <1>2, <1>3, <2>2
  <1>7. InOrder(q, m, t, more, last)
    BY <1>4, <1>5, <1>6 DEF InOrder
  <1> QED BY <1>1, <1>2, <1>3, <1>7 DEF t

-----------------------------------------------------------------------------
(* The last two conjuncts in the next state, spelled out.                  *)
LEMMA OnceNext ==
  ASSUME \A t \in Systems :
           /\ IsInjective(chan'[t]) /\ IsInjective(received'[t])
           /\ \A u \in ToSet(chan'[t]) : SystemOf(u) = t /\ task'[u] = "sent"
           /\ \A u \in ToSet(received'[t]) : SystemOf(u) = t /\ task'[u] = "received"
  PROVE  ReceivedOnce'
  BY DEF ReceivedOnce, IsInjective, ToSet, SystemOf

LEMMA OrderNext ==
  ASSUME \A t \in Systems :
           /\ seen'[t] <= Len(received'[t]) /\ cleared'[t] <= Len(received'[t])
           /\ InOrder(received'[t], seen'[t], posted'[t], posting'[t], copy'[t])
  PROVE  PostsInOrder'
  BY DEF PostsInOrder, InOrder, OnTheWay, NotBefore, EndsAt, End, Place, Last

(* They hold as long as what they speak of is left alone.                  *)
LEMMA OnceKept ==
  ASSUME TypeOK, ReceivedOnce, UNCHANGED <<chan, received>>,
         \A u \in Entries : task[u] \in {"sent", "received"} => task'[u] = task[u]
  PROVE  ReceivedOnce'
  <1>1. ASSUME NEW t \in Systems
        PROVE  /\ IsInjective(chan'[t]) /\ IsInjective(received'[t])
               /\ \A u \in ToSet(chan'[t]) : SystemOf(u) = t /\ task'[u] = "sent"
               /\ \A u \in ToSet(received'[t]) : SystemOf(u) = t /\ task'[u] = "received"
    <2>1. ToSet(chan[t]) \subseteq Entries /\ ToSet(received[t]) \subseteq Entries
      <3>1. chan[t] \in Seq(Entries) /\ received[t] \in Seq(Entries)
        BY DEF TypeOK
      <3> QED BY <3>1, SetOfSeq
    <2>2. chan' = chan /\ received' = received
      OBVIOUS
    <2> QED BY <2>1, <2>2 DEF ReceivedOnce
  <1> QED BY <1>1, OnceNext

LEMMA OrderKept ==
  ASSUME PostsInOrder, UNCHANGED <<received, seen, posted, posting, copy>>,
         \A t \in Systems : cleared'[t] <= Len(received[t])
  PROVE  PostsInOrder'
  <1>1. /\ received' = received /\ seen' = seen /\ posted' = posted
        /\ posting' = posting /\ copy' = copy
    OBVIOUS
  <1>2. \A t \in Systems :
          /\ seen'[t] <= Len(received'[t]) /\ cleared'[t] <= Len(received'[t])
          /\ InOrder(received'[t], seen'[t], posted'[t], posting'[t], copy'[t])
    BY <1>1 DEF PostsInOrder
  <1> QED BY <1>2, OrderNext

LEMMA InitPipeline == Init => PipelineInv
  <1> SUFFICES ASSUME Init PROVE PipelineInv
    OBVIOUS
  <1>1. TypeOK
    BY PipelineAssumption, EmptySeq DEF Init, TypeOK
  <1>2. StorageIsTail /\ ViewConverges
    BY PipelineAssumption
    DEF Init, ViewConverges, StorageIsTail, IsTail, EndsAt
  <1>3. ReceivedOnce
    BY DEF Init, ReceivedOnce, IsInjective, ToSet
  <1>4. PostsInOrder
    BY DEF Init, PostsInOrder, InOrder
  <1> QED BY <1>1, <1>2, <1>3, <1>4 DEF PipelineInv

(* Logging and sending touch no view.                                      *)
LEMMA EntryKeeps ==
  ASSUME PipelineInv, NEW e \in Entries, Log(e) \/ Send(e)
  PROVE  PipelineInv'
  <1> USE PipelineAssumption DEF PipelineInv
  <1>1. TypeOK'
    <2>1. CASE Log(e)
      BY <2>1 DEF Log, TypeOK, history
    <2>2. CASE Send(e)
      <3>1. /\ Append(chan[SystemOf(e)], e) \in Seq(Entries)
            /\ Len(Append(chan[SystemOf(e)], e)) <= ChanCap
        BY <2>2, SystemOfEntry DEF Send, TypeOK
      <3>2. task' \in [Entries -> {"absent", "sending", "sent", "received", "lost"}]
        BY <2>2 DEF Send, TypeOK
      <3>3. chan' \in [Systems -> Seq(Entries)]
            /\ \A s \in Systems : Len(chan'[s]) <= ChanCap
        BY <2>2, <3>1, SystemOfEntry DEF Send, TypeOK
      <3> QED BY <2>2, <3>2, <3>3 DEF Send, TypeOK, history
    <2> QED BY <2>1, <2>2
  <1>2. ViewConverges'
    BY DEF Log, Send, history, ViewConverges, Upcoming
  <1>3. StorageIsTail'
    BY DEF Log, Send, history, StorageIsTail, IsTail, EndsAt
  <1>4. ReceivedOnce'
    <2>1. CASE Log(e)
      BY <2>1, OnceKept DEF Log, history, TypeOK
    <2>2. CASE Send(e)
      <3> DEFINE s == SystemOf(e)
      <3>1. /\ s \in Systems
            /\ chan' = [chan EXCEPT ![s] = Append(@, e)]
            /\ task' = [task EXCEPT ![e] = "sent"]
            /\ received' = received /\ task[e] = "sending"
        BY <2>2, SystemOfEntry DEF Send, history
      <3>2. \A t \in Systems : chan[t] \in Seq(Entries) /\ received[t] \in Seq(Entries)
        BY DEF TypeOK
      <3>3. \A t \in Systems : ToSet(chan[t]) \subseteq Entries
                               /\ ToSet(received[t]) \subseteq Entries
        BY <3>2, SetOfSeq
      <3>4. \A t \in Systems : e \notin ToSet(chan[t]) /\ e \notin ToSet(received[t])
        BY <3>1 DEF ReceivedOnce
      <3>5. /\ \A u : u \in ToSet(Append(chan[s], e)) <=> u \in ToSet(chan[s]) \/ u = e
            /\ IsInjective(Append(chan[s], e))
        BY <3>1, <3>2, <3>4, AppendFresh DEF ReceivedOnce
      <3> HIDE DEF s
      <3>6. ASSUME NEW t \in Systems
            PROVE  /\ IsInjective(chan'[t]) /\ IsInjective(received'[t])
                   /\ \A u \in ToSet(chan'[t]) : SystemOf(u) = t /\ task'[u] = "sent"
                   /\ \A u \in ToSet(received'[t]) :
                        SystemOf(u) = t /\ task'[u] = "received"
        <4>1. CASE t = s
          <5>1. chan'[t] = Append(chan[s], e)
            BY <3>1, <4>1 DEF TypeOK
          <5>2. \A u \in ToSet(chan'[t]) : SystemOf(u) = t /\ task'[u] = "sent"
            BY <3>1, <3>3, <3>5, <4>1, <5>1 DEF ReceivedOnce, TypeOK, s
          <5> QED BY <3>1, <3>3, <3>4, <3>5, <5>1, <5>2 DEF ReceivedOnce, TypeOK
        <4>2. CASE t # s
          <5>1. chan'[t] = chan[t]
            BY <3>1, <4>2 DEF TypeOK
          <5> QED BY <3>1, <3>3, <3>4, <5>1 DEF ReceivedOnce, TypeOK
        <4> QED BY <4>1, <4>2
      <3> QED BY <3>6, OnceNext
    <2> QED BY <2>1, <2>2
  <1>5. PostsInOrder'
    BY OrderKept DEF Log, Send, history, PostsInOrder
  <1> QED BY <1>1, <1>2, <1>3, <1>4, <1>5

(* A post and its being applied leave what a view will be as it is.        *)
LEMMA UpcomingStays ==
  ASSUME TypeOK, NEW s \in Systems, Post(s) \/ Apply(s)
  PROVE  \A t \in Systems : Upcoming(t)' = Upcoming(t)
  <1>1. CASE Post(s)
    <2>1. /\ Append(posted[s], copy[s]) # <<>>
          /\ Last(Append(posted[s], copy[s])) = copy[s]
      <3>1. posted[s] \in Seq(Seq(Entries)) /\ copy[s] \in Seq(Entries)
        BY DEF TypeOK
      <3> QED BY <3>1, PushedIsLast
    <2> QED BY <1>1, <2>1 DEF Post, TypeOK, Upcoming
  <1>2. CASE Apply(s)
    <2>1. /\ Tail(posted[s]) = <<>> => Head(posted[s]) = Last(posted[s])
          /\ Tail(posted[s]) # <<>> => Last(Tail(posted[s])) = Last(posted[s])
      BY <1>2, PoppedKeepsLast DEF Apply, TypeOK
    <2>2. /\ posted[s] # <<>> /\ UNCHANGED <<posting, copy>>
          /\ posted' = [posted EXCEPT ![s] = Tail(posted[s])]
          /\ shown' = [shown EXCEPT ![s] = Head(posted[s])]
      BY <1>2 DEF Apply
    <2> QED BY <2>1, <2>2 DEF TypeOK, Upcoming
  <1> QED BY <1>1, <1>2

(* The handler: it copies what it stores, and posts last what it copied.   *)
LEMMA ReceiveKeeps ==
  ASSUME PipelineInv, NEW s \in Systems, Receive(s)
  PROVE  PipelineInv'
  <1> USE PipelineAssumption DEF PipelineInv
  <1> DEFINE e == Head(chan[s])
             st == AddEntry(storage[s], e)
  <1>1. e \in Entries /\ Tail(chan[s]) \in Seq(Entries)
        /\ Len(Tail(chan[s])) <= ChanCap
    BY DEF Receive, TypeOK
  <1>2. st \in Seq(Entries) /\ Len(st) <= MaxLogs
    BY <1>1, AddEntryBounded DEF TypeOK
  <1> HIDE DEF e, st
  <1>3. /\ storage' = [storage EXCEPT ![s] = st]
        /\ copy' = [copy EXCEPT ![s] = st]
        /\ received' = [received EXCEPT ![s] = Append(@, e)]
        /\ task' = [task EXCEPT ![e] = "received"]
        /\ chan' = [chan EXCEPT ![s] = Tail(@)]
        /\ posting' = [posting EXCEPT ![s] = TRUE]
        /\ fresh' = [fresh EXCEPT ![s] = TRUE]
        /\ UNCHANGED <<runtime, posted, shown, clearing, clears, cleared, seen>>
        /\ posting[s] = FALSE /\ chan[s] # <<>>
    BY DEF Receive, TypeOK, e, st
  <1>4. /\ \A t \in Systems : chan[t] \in Seq(Entries) /\ received[t] \in Seq(Entries)
        /\ \A t \in Systems : seen[t] \in Nat /\ cleared[t] \in Nat
        /\ posted[s] \in Seq(Seq(Entries))
    BY DEF TypeOK
  <1> DEFINE b == Append(received[s], e)
  <1>5. b \in Seq(Entries) /\ Len(b) = Len(received[s]) + 1 /\ Len(received[s]) \in Nat
    BY <1>1, <1>4
  <1> HIDE DEF b
  <1>6. TypeOK'
    <2>1. task' \in [Entries -> {"absent", "sending", "sent", "received", "lost"}]
      BY <1>1, <1>3 DEF TypeOK
    <2>2. storage' \in [Systems -> Seq(Entries)]
          /\ copy' \in [Systems -> Seq(Entries)]
          /\ \A t \in Systems : Len(storage'[t]) <= MaxLogs
      BY <1>2, <1>3 DEF TypeOK
    <2>3. chan' \in [Systems -> Seq(Entries)]
          /\ \A t \in Systems : Len(chan'[t]) <= ChanCap
      BY <1>1, <1>3 DEF TypeOK
    <2>4. received' \in [Systems -> Seq(Entries)]
      BY <1>3, <1>5 DEF TypeOK, b
    <2> QED BY <1>3, <2>1, <2>2, <2>3, <2>4 DEF TypeOK
  <1>7. ViewConverges'
    BY <1>3 DEF TypeOK, ViewConverges, Upcoming
  <1>8. IsTail(st, b, cleared[s])
    BY <1>1, <1>4, AddEntryKeepsTail DEF st, b, TypeOK, StorageIsTail, PostsInOrder
  <1>9. StorageIsTail'
    <2> SUFFICES ASSUME NEW t \in Systems
                 PROVE  IsTail(storage'[t], received'[t], cleared'[t])
      BY DEF StorageIsTail, IsTail, EndsAt
    <2> QED BY <1>3, <1>8 DEF TypeOK, StorageIsTail, b
  <1>10. /\ IsInjective(Tail(chan[s])) /\ e \in ToSet(chan[s])
         /\ \A u \in ToSet(Tail(chan[s])) : u \in ToSet(chan[s]) /\ u # e
    BY <1>3, <1>4, PopOnce DEF ReceivedOnce, e
  <1>11. /\ SystemOf(e) = s /\ task[e] = "sent"
         /\ \A t \in Systems : e \notin ToSet(received[t])
    BY <1>10 DEF ReceivedOnce
  <1>12. /\ \A u : u \in ToSet(b) <=> u \in ToSet(received[s]) \/ u = e
         /\ IsInjective(b)
    BY <1>1, <1>4, <1>11, AppendFresh DEF ReceivedOnce, b
  <1>13. ReceivedOnce'
    <2>1. \A t \in Systems : ToSet(chan[t]) \subseteq Entries
                             /\ ToSet(received[t]) \subseteq Entries
      BY <1>4, SetOfSeq
    <2>2. ASSUME NEW t \in Systems
          PROVE  /\ IsInjective(chan'[t]) /\ IsInjective(received'[t])
                 /\ \A u \in ToSet(chan'[t]) : SystemOf(u) = t /\ task'[u] = "sent"
                 /\ \A u \in ToSet(received'[t]) :
                      SystemOf(u) = t /\ task'[u] = "received"
      <3>1. CASE t = s
        <4>1. chan'[t] = Tail(chan[s]) /\ received'[t] = b
          BY <1>3, <3>1 DEF TypeOK, b
        <4>2. \A u \in ToSet(Tail(chan[s])) : SystemOf(u) = t /\ task'[u] = "sent"
          BY <1>3, <1>10, <2>1, <3>1 DEF ReceivedOnce, TypeOK
        <4>3. \A u \in ToSet(b) : SystemOf(u) = t /\ task'[u] = "received"
          BY <1>1, <1>3, <1>11, <1>12, <2>1, <3>1 DEF ReceivedOnce, TypeOK
        <4> QED BY <1>10, <1>12, <4>1, <4>2, <4>3
      <3>2. CASE t # s
        <4>1. chan'[t] = chan[t] /\ received'[t] = received[t]
          BY <1>3, <3>2 DEF TypeOK
        <4>2. e \notin ToSet(chan[t]) /\ e \notin ToSet(received[t])
          BY <1>11, <3>2 DEF ReceivedOnce
        <4> QED BY <1>3, <2>1, <4>1, <4>2 DEF ReceivedOnce, TypeOK
      <3> QED BY <3>1, <3>2
    <2> QED BY <2>2, OnceNext
  <1>14. PostsInOrder'
    <2>1. InOrder(b, seen[s], posted[s], TRUE, st)
      <3>1. EndsAt(st, b, Len(b))
        BY <1>8 DEF IsTail
      <3>2. InOrder(received[s], seen[s], posted[s], FALSE, copy[s])
            /\ seen[s] <= Len(received[s]) /\ IsInjective(received[s])
        BY <1>3 DEF PostsInOrder, ReceivedOnce
      <3> QED BY <1>1, <1>2, <1>4, <1>11, <3>1, <3>2, CopyInOrder DEF b
    <2>2. ASSUME NEW t \in Systems
          PROVE  /\ seen'[t] <= Len(received'[t]) /\ cleared'[t] <= Len(received'[t])
                 /\ InOrder(received'[t], seen'[t], posted'[t], posting'[t], copy'[t])
      <3>1. CASE t = s
        <4>1. /\ received'[t] = b /\ posting'[t] = TRUE /\ copy'[t] = st
              /\ seen'[t] = seen[s] /\ cleared'[t] = cleared[s] /\ posted'[t] = posted[s]
          BY <1>3, <3>1 DEF TypeOK, b
        <4>2. seen[s] <= Len(b) /\ cleared[s] <= Len(b)
          BY <1>4, <1>5 DEF PostsInOrder
        <4> QED BY <2>1, <4>1, <4>2
      <3>2. CASE t # s
        <4>1. /\ received'[t] = received[t] /\ posting'[t] = posting[t]
              /\ copy'[t] = copy[t] /\ seen'[t] = seen[t]
              /\ cleared'[t] = cleared[t] /\ posted'[t] = posted[t]
          BY <1>3, <3>2 DEF TypeOK
        <4> QED BY <4>1 DEF PostsInOrder
      <3> QED BY <3>1, <3>2
    <2> QED BY <2>2, OrderNext
  <1> QED BY <1>6, <1>7, <1>9, <1>13, <1>14

LEMMA PostKeeps ==
  ASSUME PipelineInv, NEW s \in Systems, Post(s)
  PROVE  PipelineInv'
  <1> USE PipelineAssumption DEF PipelineInv
  <1>1. /\ posted[s] \in Seq(Seq(Entries)) /\ copy[s] \in Seq(Entries)
        /\ received[s] \in Seq(Entries) /\ seen[s] \in Nat /\ posting[s] = TRUE
    BY DEF Post, TypeOK
  <1>2. Append(posted[s], copy[s]) \in Seq(Seq(Entries))
    BY <1>1
  <1>3. TypeOK'
    BY <1>2 DEF Post, history, TypeOK
  <1>4. ViewConverges'
    BY UpcomingStays DEF Post, history, ViewConverges
  <1>5. StorageIsTail'
    BY DEF Post, history, StorageIsTail, IsTail, EndsAt
  <1>6. ReceivedOnce'
    BY OnceKept DEF Post, history
  <1>7. InOrder(received[s], seen[s], Append(posted[s], copy[s]), FALSE, copy[s])
    BY <1>1, PostInOrder DEF PostsInOrder
  <1>8. ASSUME NEW t \in Systems
        PROVE  /\ seen'[t] <= Len(received'[t]) /\ cleared'[t] <= Len(received'[t])
               /\ InOrder(received'[t], seen'[t], posted'[t], posting'[t], copy'[t])
    <2>1. /\ received' = received /\ seen' = seen /\ cleared' = cleared /\ copy' = copy
          /\ posted'[t] = IF t = s THEN Append(posted[s], copy[s]) ELSE posted[t]
          /\ posting'[t] = IF t = s THEN FALSE ELSE posting[t]
      BY DEF Post, history, TypeOK
    <2> QED BY <1>7, <2>1 DEF PostsInOrder
  <1>9. PostsInOrder'
    BY <1>8, OrderNext
  <1> QED BY <1>3, <1>4, <1>5, <1>6, <1>9

(* The UI thread: applying the only post left shows it; ...                *)
LEMMA ApplyKeeps ==
  ASSUME PipelineInv, NEW s \in Systems, Apply(s)
  PROVE  PipelineInv'
  <1> USE PipelineAssumption DEF PipelineInv
  <1> DEFINE rows == Head(posted[s])
             m == IF rows = <<>> THEN seen[s] ELSE End(received[s], rows)
  <1>1. /\ posted[s] \in Seq(Seq(Entries)) /\ posted[s] # <<>>
        /\ received[s] \in Seq(Entries) /\ seen[s] \in Nat
    BY DEF Apply, TypeOK
  <1>2. /\ rows \in Seq(Entries)
        /\ Tail(posted[s]) \in Seq(Seq(Entries))
    BY <1>1, PoppedKeepsLast
  <1>3. /\ OnTheWay(rows, received[s], seen[s])
        /\ InOrder(received[s], m, Tail(posted[s]), posting[s], copy[s])
    BY <1>1, ShowInOrder DEF PostsInOrder
  <1>4. m \in Nat /\ m <= Len(received[s])
    <2>1. CASE rows = <<>>
      BY <1>1, <2>1 DEF PostsInOrder
    <2>2. CASE rows # <<>>
      BY <1>1, <1>2, <1>3, <2>2 DEF OnTheWay, EndsAt
    <2> QED BY <2>1, <2>2
  <1>5. /\ shown' = [shown EXCEPT ![s] = rows]
        /\ posted' = [posted EXCEPT ![s] = Tail(@)]
        /\ seen' = [seen EXCEPT ![s] = m]
        /\ UNCHANGED <<task, runtime, chan, storage, posting, copy,
                       clearing, clears, received, cleared, fresh>>
    BY DEF Apply, Notes
  <1> HIDE DEF rows, m
  <1>6. TypeOK'
    <2>1. seen' \in [Systems -> Nat]
      BY <1>4, <1>5 DEF TypeOK
    <2> QED BY <1>2, <1>5, <2>1 DEF TypeOK
  <1>7. \A t \in Systems : Upcoming(t)' = Upcoming(t)
    BY UpcomingStays
  <1>8. ViewConverges'
    BY <1>5, <1>7 DEF ViewConverges
  <1>9. StorageIsTail'
    BY <1>5 DEF StorageIsTail, IsTail, EndsAt
  <1>10. ReceivedOnce'
    BY <1>5, OnceKept
  <1>11. ASSUME NEW t \in Systems
         PROVE  /\ seen'[t] <= Len(received'[t]) /\ cleared'[t] <= Len(received'[t])
                /\ InOrder(received'[t], seen'[t], posted'[t], posting'[t], copy'[t])
    <2>1. /\ received' = received /\ cleared' = cleared /\ copy' = copy
          /\ posting' = posting
          /\ posted'[t] = IF t = s THEN Tail(posted[s]) ELSE posted[t]
          /\ seen'[t] = IF t = s THEN m ELSE seen[t]
      BY <1>5 DEF TypeOK
    <2> QED BY <1>3, <1>4, <2>1 DEF PostsInOrder
  <1>12. PostsInOrder'
    BY <1>11, OrderNext
  <1> QED BY <1>6, <1>8, <1>9, <1>10, <1>12

(* ... a clear spoils fresh for what it touches, and posts no rows.        *)
LEMMA ClearKeeps ==
  ASSUME PipelineInv, NEW s \in Systems, ClearStorage(s) \/ ClearPost(s)
  PROVE  PipelineInv'
  <1> USE PipelineAssumption DEF PipelineInv
  <1>1. CASE ClearStorage(s)
    <2>1. TypeOK'
      <3>1. storage' \in [Systems -> Seq(Entries)]
            /\ \A t \in Systems : Len(storage'[t]) <= MaxLogs
        BY <1>1 DEF ClearStorage, TypeOK
      <3>2. cleared' \in [Systems -> Nat]
        <4>1. Len(received[s]) \in Nat
          BY DEF TypeOK
        <4> QED BY <1>1, <4>1 DEF ClearStorage, TypeOK
      <3>3. fresh' \in [Systems -> BOOLEAN]
        BY <1>1 DEF ClearStorage, Spoil, TypeOK
      <3>4. clears' \in 0..MaxClears /\ clearing' \in SUBSET Systems
        BY <1>1 DEF ClearStorage, TypeOK
      <3> QED BY <1>1, <3>1, <3>2, <3>3, <3>4 DEF ClearStorage, TypeOK
    <2>2. ViewConverges'
      BY <1>1 DEF ClearStorage, Spoil, TypeOK, ViewConverges, Upcoming
    <2>3. StorageIsTail'
      <3> SUFFICES ASSUME NEW t \in Systems
                   PROVE  IsTail(storage'[t], received'[t], cleared'[t])
        BY DEF StorageIsTail, IsTail, EndsAt
      <3>1. CASE t = s
        <4>1. /\ storage'[t] = <<>> /\ received'[t] = received[s]
              /\ cleared'[t] = Len(received[s])
          BY <1>1, <3>1 DEF ClearStorage, TypeOK
        <4>2. Len(received[s]) \in Nat
          BY DEF TypeOK
        <4> QED BY <4>1, <4>2 DEF IsTail, EndsAt
      <3>2. CASE t # s
        <4>1. storage'[t] = storage[t] /\ received'[t] = received[t]
              /\ cleared'[t] = cleared[t]
          BY <1>1, <3>2 DEF ClearStorage, TypeOK
        <4> QED BY <4>1 DEF StorageIsTail
      <3> QED BY <3>1, <3>2
    <2>4. ReceivedOnce'
      BY <1>1, OnceKept DEF ClearStorage
    <2>5. PostsInOrder'
      <3>1. \A t \in Systems : cleared'[t] <= Len(received[t])
        BY <1>1 DEF ClearStorage, TypeOK, PostsInOrder
      <3> QED BY <1>1, <3>1, OrderKept DEF ClearStorage
    <2> QED BY <2>1, <2>2, <2>3, <2>4, <2>5
  <1>2. CASE ClearPost(s)
    <2>1. /\ "proxy" \in Systems /\ posted["proxy"] \in Seq(Seq(Entries))
          /\ received["proxy"] \in Seq(Entries) /\ seen["proxy"] \in Nat
      BY DEF TypeOK, Systems
    <2>2. Append(posted["proxy"], <<>>) \in Seq(Seq(Entries))
      BY <2>1
    <2>3. TypeOK'
      BY <1>2, <2>2 DEF ClearPost, ClearTarget, Spoil, TypeOK, Systems
    <2>4. ViewConverges'
      BY <1>2 DEF ClearPost, ClearTarget, Spoil, TypeOK, ViewConverges, Upcoming
    <2>5. StorageIsTail'
      BY <1>2 DEF ClearPost, StorageIsTail, IsTail, EndsAt
    <2>6. ReceivedOnce'
      BY <1>2, OnceKept DEF ClearPost
    <2>7. InOrder(received["proxy"], seen["proxy"], Append(posted["proxy"], <<>>),
                  posting["proxy"], copy["proxy"])
      BY <2>1, EmptyInOrder DEF PostsInOrder
    <2>8. ASSUME NEW t \in Systems
          PROVE  /\ seen'[t] <= Len(received'[t]) /\ cleared'[t] <= Len(received'[t])
                 /\ InOrder(received'[t], seen'[t], posted'[t], posting'[t], copy'[t])
      <3>1. /\ received' = received /\ seen' = seen /\ cleared' = cleared
            /\ copy' = copy /\ posting' = posting
            /\ posted'[t] = IF t = "proxy" THEN Append(posted["proxy"], <<>>)
                            ELSE posted[t]
        BY <1>2 DEF ClearPost, ClearTarget, TypeOK
      <3> QED BY <2>7, <3>1 DEF PostsInOrder
    <2>9. PostsInOrder'
      BY <2>8, OrderNext
    <2> QED BY <2>3, <2>4, <2>5, <2>6, <2>9
  <1> QED BY <1>1, <1>2

LEMMA DropKeeps ==
  ASSUME PipelineInv, DropRuntime
  PROVE  PipelineInv'
  <1> USE DEF PipelineInv
  <1>1. TypeOK'
    BY DEF DropRuntime, history, TypeOK
  <1>2. ViewConverges'
    BY DEF DropRuntime, history, ViewConverges, Upcoming
  <1>3. StorageIsTail'
    BY DEF DropRuntime, history, StorageIsTail, IsTail, EndsAt
  <1>4. ReceivedOnce'
    BY OnceKept DEF DropRuntime, history
  <1>5. PostsInOrder'
    BY OrderKept DEF DropRuntime, history, PostsInOrder
  <1> QED BY <1>1, <1>2, <1>3, <1>4, <1>5

(* The types with their bounds, the storage, the views and the order of    *)
(* what is on its way to them, together.                                   *)
THEOREM PipelineInvariant == Spec => []PipelineInv
  <1>1. PipelineInv /\ [Next]_vars => PipelineInv'
    <2> SUFFICES ASSUME PipelineInv, [Next]_vars PROVE PipelineInv'
      OBVIOUS
    <2>1. ASSUME NEW e \in Entries, Log(e) \/ Send(e) PROVE PipelineInv'
      BY <2>1, EntryKeeps
    <2>2. CASE DropRuntime
      BY <2>2, DropKeeps
    <2>3. ASSUME NEW s \in Systems, SystemStep(s) PROVE PipelineInv'
      BY <2>3, ReceiveKeeps, PostKeeps, ApplyKeeps, ClearKeeps DEF SystemStep
    <2>4. CASE UNCHANGED vars
      <3> USE <2>4 DEF vars, pipeline, history, PipelineInv
      <3>1. TypeOK' /\ ViewConverges'
        BY DEF TypeOK, ViewConverges, Upcoming
      <3>2. StorageIsTail'
        BY DEF StorageIsTail, IsTail, EndsAt
      <3>3. ReceivedOnce' /\ PostsInOrder'
        BY OnceKept, OrderKept DEF PostsInOrder
      <3> QED BY <3>1, <3>2, <3>3
    <2> QED BY <2>1, <2>2, <2>3, <2>4 DEF Next
  <1> QED BY InitPipeline, <1>1, PTL DEF Spec

(* One stored entry repairs its view (event_log.rs:159-192).               *)
THEOREM ViewsConverge == Spec => []ViewConverges
  BY PipelineInvariant, PTL DEF PipelineInv

(* The storage is the tail of what was received since it was cleared,      *)
(* whatever the clears and the order of arrival (logs.rs:33-39).           *)
THEOREM StorageHoldsTail == Spec => []StorageIsTail
  BY PipelineInvariant, PTL DEF PipelineInv

(* Channels and storages never exceed their capacity (logs.rs:33-39).      *)
THEOREM TypesAndBounds == Spec => []TypeOK
  BY PipelineInvariant, PTL DEF PipelineInv

(* Before the first clear every view is on its way to its storage.         *)
NoClearYet ==
  clears = 0 => clearing = {} /\ \A s \in Systems : Upcoming(s) = storage[s]

(* Only a clear makes a quiet view differ from its storage, until the next *)
(* entry is stored (event_log.rs:159-209, http_proxylogs.rs:194-211).      *)
THEOREM ClearsAlone == Spec => []QuietUnlessCleared
  <1>1. Init => NoClearYet
    BY DEF Init, NoClearYet, Upcoming
  <1>2. PipelineInv /\ NoClearYet /\ [Next]_vars => NoClearYet'
    <2> SUFFICES ASSUME PipelineInv, NoClearYet, [Next]_vars, clears' = 0
                 PROVE  clearing' = {} /\ \A s \in Systems : Upcoming(s)' = storage'[s]
      BY DEF NoClearYet
    <2> USE DEF PipelineInv, TypeOK, NoClearYet, Upcoming, history
    <2>1. ASSUME NEW e \in Entries, Log(e) \/ Send(e)
          PROVE  clearing' = {} /\ \A s \in Systems : Upcoming(s)' = storage'[s]
      BY <2>1 DEF Log, Send
    <2>2. CASE DropRuntime \/ UNCHANGED vars
      BY <2>2 DEF DropRuntime, vars, pipeline
    <2>3. ASSUME NEW s \in Systems, SystemStep(s)
          PROVE  clearing' = {} /\ \A t \in Systems : Upcoming(t)' = storage'[t]
      <3>1. CASE Receive(s)
        BY <3>1 DEF Receive
      <3>2. CASE Post(s) \/ Apply(s)
        <4>1. \A t \in Systems : Upcoming(t)' = Upcoming(t)
          BY <3>2, UpcomingStays
        <4>2. UNCHANGED <<storage, clearing, clears>>
          BY <3>2 DEF Post, Apply
        <4> QED BY <4>1, <4>2
      <3>3. CASE ClearStorage(s) \/ ClearPost(s)
        BY <3>3 DEF ClearStorage, ClearPost
      <3> QED BY <2>3, <3>1, <3>2, <3>3 DEF SystemStep
    <2> QED BY <2>1, <2>2, <2>3 DEF Next
  <1>3. PipelineInv /\ NoClearYet => QuietUnlessCleared
    BY DEF PipelineInv, NoClearYet, QuietUnlessCleared, ViewConverges, Quiet, Upcoming
  <1> QED BY <1>1, <1>2, <1>3, PipelineInvariant, PTL DEF Spec

-----------------------------------------------------------------------------
(* Rows that end with the n-th entry, as a part of what was received.      *)
LEMMA EndsAtIsSubSeq ==
  ASSUME NEW T, NEW q \in Seq(T), NEW v \in Seq(T), NEW n \in Nat, EndsAt(v, q, n)
  PROVE  v = SubSeq(q, n - Len(v) + 1, n)
  <1> DEFINE w == SubSeq(q, n - Len(v) + 1, n)
  <1>1. n \in Len(v)..Len(q) /\ Len(v) \in Nat /\ Len(q) \in Nat
    BY DEF EndsAt
  <1>2. n - Len(v) + 1 \in 1..(Len(q) + 1) /\ n \in (n - Len(v) + 1) - 1..Len(q)
    BY <1>1
  <1>3. /\ w \in Seq(T)
        /\ Len(w) = n - (n - Len(v) + 1) + 1
        /\ \A i \in 1..n - (n - Len(v) + 1) + 1 : w[i] = q[(n - Len(v) + 1) + i - 1]
    BY <1>2, SubSeqProperties
  <1>4. n - (n - Len(v) + 1) + 1 = Len(v)
    BY <1>1
  <1>5. ASSUME NEW i \in 1..Len(v) PROVE v[i] = w[i]
    <2>1. (n - Len(v) + 1) + i - 1 = n - Len(v) + i
      BY <1>1
    <2>2. v[i] = q[n - Len(v) + i]
      BY DEF EndsAt
    <2> QED BY <1>3, <1>4, <2>1, <2>2
  <1> HIDE DEF w
  <1>6. v = w
    BY <1>3, <1>4, <1>5, SeqEqual
  <1> QED BY <1>6 DEF w

(* What a step of the pipeline does to the history and the view of one     *)
(* system.                                                                 *)
LEMMA ViewStep ==
  ASSUME PipelineInv, [Next]_vars, NEW s \in Systems
  PROVE  \/ /\ \E e \in Entries :
                 /\ SystemOf(e) = s /\ e \notin ToSet(received[s])
                 /\ received'[s] = Append(received[s], e)
            /\ shown'[s] = shown[s] /\ seen'[s] = seen[s]
         \/ /\ \E last \in seen[s]..Len(received[s]) : \E n \in 1..MaxLogs :
                 /\ n <= last
                 /\ shown'[s] = SubSeq(received[s], last - n + 1, last)
                 /\ seen'[s] = last
            /\ received'[s] = received[s]
         \/ shown'[s] = <<>> /\ received'[s] = received[s] /\ seen'[s] = seen[s]
         \/ /\ received'[s] = received[s] /\ shown'[s] = shown[s]
            /\ seen'[s] = seen[s]
  <1> DEFINE Kept == /\ received'[s] = received[s] /\ shown'[s] = shown[s]
                     /\ seen'[s] = seen[s]
  <1>1. ASSUME NEW e \in Entries, Log(e) \/ Send(e) PROVE Kept
    BY <1>1 DEF Log, Send, history
  <1>2. CASE DropRuntime
    BY <1>2 DEF DropRuntime, history
  <1>3. ASSUME NEW t \in Systems, t # s, SystemStep(t) PROVE Kept
    BY <1>3 DEF SystemStep, Receive, Post, Apply, Notes, ClearStorage, ClearPost,
       history, PipelineInv, TypeOK
  <1>4. CASE Post(s) \/ ClearStorage(s) \/ ClearPost(s)
    BY <1>4 DEF Post, ClearStorage, ClearPost, history
  <1>5. CASE Receive(s)
    <2> DEFINE e == Head(chan[s])
    <2>1. chan[s] \in Seq(Entries) /\ chan[s] # <<>>
      BY <1>5 DEF Receive, PipelineInv, TypeOK
    <2>2. e \in Entries /\ e \in ToSet(chan[s])
      BY <2>1, PopOnce DEF PipelineInv, ReceivedOnce
    <2>3. SystemOf(e) = s /\ e \notin ToSet(received[s])
      BY <2>2 DEF PipelineInv, ReceivedOnce
    <2>4. received'[s] = Append(received[s], e) /\ shown' = shown /\ seen' = seen
      BY <1>5 DEF Receive, PipelineInv, TypeOK
    <2> QED BY <2>2, <2>3, <2>4
  <1>6. CASE Apply(s)
    <2> DEFINE rows == Head(posted[s])
               last == End(received[s], rows)
    <2>1. /\ posted[s] \in Seq(Seq(Entries)) /\ posted[s] # <<>>
          /\ received[s] \in Seq(Entries) /\ seen[s] \in Nat
      BY <1>6 DEF Apply, PipelineInv, TypeOK
    <2>2. rows \in Seq(Entries) /\ OnTheWay(rows, received[s], seen[s])
      BY <2>1, ShowInOrder, PoppedKeepsLast DEF PipelineInv, PostsInOrder
    <2>3. /\ received'[s] = received[s] /\ shown'[s] = rows
          /\ seen'[s] = IF rows = <<>> THEN seen[s] ELSE last
      BY <1>6 DEF Apply, Notes, PipelineInv, TypeOK
    <2> HIDE DEF rows, last
    <2>4. CASE rows = <<>>
      BY <2>3, <2>4
    <2>5. CASE rows # <<>>
      <3>1. /\ Len(rows) <= MaxLogs /\ EndsAt(rows, received[s], last)
            /\ seen[s] <= last
        BY <2>2, <2>5 DEF OnTheWay, last
      <3>2. last \in seen[s]..Len(received[s]) /\ last \in Nat /\ Len(rows) <= last
        BY <2>1, <2>2, <3>1 DEF EndsAt
      <3>3. Len(rows) \in 1..MaxLogs
        BY <2>2, <2>5, <3>1, PipelineAssumption, EmptySeq
      <3>4. rows = SubSeq(received[s], last - Len(rows) + 1, last)
        BY <2>1, <2>2, <3>1, <3>2, EndsAtIsSubSeq
      <3>5. shown'[s] = SubSeq(received[s], last - Len(rows) + 1, last)
        BY <2>3, <3>4
      <3> QED BY <2>3, <2>5, <3>2, <3>3, <3>5
    <2> QED BY <2>4, <2>5
  <1>7. CASE UNCHANGED vars
    BY <1>7 DEF vars, pipeline, history
  <1> QED BY <1>1, <1>2, <1>3, <1>4, <1>5, <1>6, <1>7 DEF Next, SystemStep

(* Each view is a LogView: its rows are entries of its own system that     *)
(* follow one another as they were received, no entry twice, and it never  *)
(* goes back behind an entry it has shown, whatever the order in which     *)
(* tasks send, and however copies and clears overtake each other           *)
(* (event_log.rs:159-192).                                                 *)
THEOREM ViewsAreLogViews == Spec => ViewsKeepOrder
  <1>1. Init => EventView!Init /\ ProxyView!Init
    BY DEF Init, EventView!Init, ProxyView!Init, Systems
  <1>2. PipelineInv /\ [Next]_vars => [EventView!Next]_EventView!logView
    <2> SUFFICES ASSUME PipelineInv, [Next]_vars
                 PROVE  [EventView!Next]_EventView!logView
      OBVIOUS
    <2> DEFINE s == "event"
    <2>1. \A e \in Entries : SystemOf(e) = s => e \in EventEntries
      BY DEF SystemOf
    <2>2. s \in Systems
      BY DEF Systems
    <2> QED BY <2>1, <2>2, ViewStep
      DEF EventView!Next, EventView!Receive, EventView!Show, EventView!Empty,
          EventView!logView, EventView!ToSet, ToSet
  <1>3. PipelineInv /\ [Next]_vars => [ProxyView!Next]_ProxyView!logView
    <2> SUFFICES ASSUME PipelineInv, [Next]_vars
                 PROVE  [ProxyView!Next]_ProxyView!logView
      OBVIOUS
    <2> DEFINE s == "proxy"
    <2>1. \A e \in Entries : SystemOf(e) = s => e \in ProxyEntries
      BY DEF SystemOf, Entries
    <2>2. s \in Systems
      BY DEF Systems
    <2> QED BY <2>1, <2>2, ViewStep
      DEF ProxyView!Next, ProxyView!Receive, ProxyView!Show, ProxyView!Empty,
          ProxyView!logView, ProxyView!ToSet, ToSet
  <1> QED BY <1>1, <1>2, <1>3, PipelineInvariant, PTL
    DEF Spec, ViewsKeepOrder, EventView!Spec, ProxyView!Spec
=============================================================================

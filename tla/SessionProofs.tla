--------------------------- MODULE SessionProofs ---------------------------
(***************************************************************************)
(* Proofs about the parser of requests and about a session, for any lines, *)
(* messages and answers: where the first read ends makes no difference to  *)
(* the request, the request accounts for the text it was parsed from, and  *)
(* the session never waits for a lock of its own.                          *)
(***************************************************************************)
EXTENDS Session, SequenceTheorems, TLAPS

(* The parser.                                                             *)

(* There is one separator at most, and Separator is it.                    *)
LEMMA SeparatorIs ==
  ASSUME NEW text \in Seq(Lines), NEW p \in BlankAt(text)
  PROVE  Separator(text) = p /\ BlankAt(text) = {p}
<1>1. p \in 2..Len(text) /\ Len(text) \in Nat
  BY DEF BlankAt
<1>2. ASSUME NEW q \in BlankAt(text) PROVE q = p
  <2>1. q \in 2..Len(text) /\ text[q] = Blank /\ text[p] = Blank
    BY DEF BlankAt
  <2>2. \A j \in 2..(q - 1) : text[j] # Blank
    BY DEF BlankAt
  <2>3. \A j \in 2..(p - 1) : text[j] # Blank
    BY DEF BlankAt
  <2>4. ~(p < q) /\ ~(q < p)
    BY <1>1, <2>1, <2>2, <2>3
  <2>5. QED
    BY <1>1, <2>1, <2>4
<1>3. QED
  BY <1>2 DEF Separator

LEMMA HasSeparator ==
  ASSUME NEW text \in Seq(Lines), HasBlank(text)
  PROVE  /\ Separator(text) \in BlankAt(text)
         /\ Separator(text) \in 2..Len(text)
         /\ text[Separator(text)] = Blank
         /\ \A j \in 2..(Separator(text) - 1) : text[j] # Blank
BY DEF HasBlank, BlankAt, Separator

(* Two texts that are the same up to a separator have the same headers.    *)
LEMMA SameFront ==
  ASSUME NEW s \in Seq(Lines), NEW t \in Seq(Lines), NEW p \in BlankAt(s),
         p <= Len(t), \A i \in 1..p : t[i] = s[i]
  PROVE  /\ p \in BlankAt(t)
         /\ Separator(t) = p
         /\ t[1] = s[1]
         /\ Headers(t) = Headers(s)
<1>1. /\ p \in 2..Len(s) /\ Len(s) \in Nat /\ Len(t) \in Nat
      /\ s[p] = Blank /\ \A j \in 2..(p - 1) : s[j] # Blank
  BY DEF BlankAt
<1>2. p \in BlankAt(t)
  BY <1>1 DEF BlankAt
<1>3. Separator(t) = p /\ Separator(s) = p
  BY <1>2, SeparatorIs
<1>4. SubSeq(t, 2, p - 1) = SubSeq(s, 2, p - 1)
  <2>1. \A i \in 2..(p - 1) : s[i] \in Lines /\ t[i] \in Lines
    BY <1>1, ElementOfSeq
  <2>2. p - 1 \in Int /\ 2 \in Int
    BY <1>1
  <2>3. /\ SubSeq(s, 2, p - 1) \in Seq(Lines)
        /\ Len(SubSeq(s, 2, p - 1)) = IF 2 <= p - 1 THEN (p - 1) - 2 + 1 ELSE 0
        /\ \A i \in 1..((p - 1) - 2 + 1) : SubSeq(s, 2, p - 1)[i] = s[2 + i - 1]
    BY <2>1, <2>2, SubSeqProperties
  <2>4. /\ SubSeq(t, 2, p - 1) \in Seq(Lines)
        /\ Len(SubSeq(t, 2, p - 1)) = IF 2 <= p - 1 THEN (p - 1) - 2 + 1 ELSE 0
        /\ \A i \in 1..((p - 1) - 2 + 1) : SubSeq(t, 2, p - 1)[i] = t[2 + i - 1]
    BY <2>1, <2>2, SubSeqProperties
  <2>5. \A i \in 1..Len(SubSeq(t, 2, p - 1)) :
          SubSeq(t, 2, p - 1)[i] = SubSeq(s, 2, p - 1)[i]
    BY <1>1, <2>3, <2>4
  <2>6. QED
    BY <2>3, <2>4, <2>5, SeqEqual
<1>5. QED
  BY <1>1, <1>2, <1>3, <1>4 DEF Headers

(* A read of a text is a text, and the same line by line as far as its     *)
(* first empty line: what is cut is never empty.                           *)
LEMMA ReadsAreFronts ==
  ASSUME NEW text \in Seq(Lines), NEW sent \in 0..Len(text),
         NEW r \in ReadsOf(text, sent)
  PROVE  /\ r \in Seq(Lines)
         /\ \A p \in BlankAt(r) : p <= Len(text) /\ \A i \in 1..p : text[i] = r[i]
<1>0. Len(text) \in Nat
  OBVIOUS
<1>1. ASSUME NEW n \in 0..sent
      PROVE  /\ SubSeq(text, 1, n) \in Seq(Lines)
             /\ Len(SubSeq(text, 1, n)) = n
             /\ \A i \in 1..n : SubSeq(text, 1, n)[i] = text[i]
  <2>1. \A i \in 1..n : text[i] \in Lines
    BY <1>0, ElementOfSeq
  <2>2. n \in Int /\ 1 \in Int
    OBVIOUS
  <2>3. /\ SubSeq(text, 1, n) \in Seq(Lines)
        /\ Len(SubSeq(text, 1, n)) = IF 1 <= n THEN n - 1 + 1 ELSE 0
        /\ \A i \in 1..(n - 1 + 1) : SubSeq(text, 1, n)[i] = text[1 + i - 1]
    BY <2>1, <2>2, SubSeqProperties
  <2>4. QED
    BY <2>3
<1>2. ASSUME NEW n \in 0..sent, r = SubSeq(text, 1, n)
      PROVE  /\ r \in Seq(Lines)
             /\ \A p \in BlankAt(r) : p <= Len(text) /\ \A i \in 1..p : text[i] = r[i]
  BY <1>0, <1>1, <1>2 DEF BlankAt
<1>3. ASSUME NEW n \in 0..(sent - 1), NEW part \in Cuts[text[n + 1]],
             r = Append(SubSeq(text, 1, n), part)
      PROVE  /\ r \in Seq(Lines)
             /\ \A p \in BlankAt(r) : p <= Len(text) /\ \A i \in 1..p : text[i] = r[i]
  <2> DEFINE front == SubSeq(text, 1, n)
  <2>1. part \in Lines /\ part # Blank
    <3>1. text[n + 1] \in Lines
      BY <1>0, ElementOfSeq
    <3>2. QED
      BY <3>1, LineAssumption
  <2>2. /\ front \in Seq(Lines) /\ Len(front) = n
        /\ \A i \in 1..n : front[i] = text[i]
    BY <1>0, <1>1
  <2> HIDE DEF front
  <2>3. /\ r \in Seq(Lines) /\ Len(r) = n + 1
        /\ \A i \in 1..n : r[i] = front[i]
        /\ r[n + 1] = part
    BY <1>3, <2>1, <2>2, AppendProperties DEF front
  <2>4. ASSUME NEW p \in BlankAt(r) PROVE p \in 1..n
    <3>1. p \in 2..Len(r) /\ r[p] = Blank
      BY DEF BlankAt
    <3>2. QED
      BY <2>1, <2>3, <3>1
  <2>5. QED
    BY <1>0, <2>2, <2>3, <2>4
<1>4. QED
  BY <1>2, <1>3 DEF ReadsOf

(* However much of a message was read, if it parses the request is that of *)
(* the header alone, but for the body.                                     *)
LEMMA SplitLemma ==
  ASSUME NEW text \in Seq(Lines), NEW sent \in 0..Len(text),
         NEW r \in ReadsOf(text, sent), ParsesRequest(r)
  PROVE  /\ HasBlank(text)
         /\ WithoutBody(RequestFromString(r)) =
              WithoutBody(RequestFromString(SubSeq(text, 1, Separator(text))))
<1> DEFINE p == Separator(r)
           head == SubSeq(text, 1, p)
<1>1. /\ r \in Seq(Lines)
      /\ \A q \in BlankAt(r) : q <= Len(text) /\ \A i \in 1..q : text[i] = r[i]
  BY ReadsAreFronts
<1>2. p \in BlankAt(r) /\ p \in 2..Len(r)
  BY <1>1, HasSeparator DEF ParsesRequest
<1> HIDE DEF p
<1>3. p <= Len(text) /\ \A i \in 1..p : text[i] = r[i]
  BY <1>1, <1>2
<1>4. p \in BlankAt(text) /\ Separator(text) = p
  BY <1>1, <1>2, <1>3, SameFront
<1>5. head \in Seq(Lines) /\ Len(head) = p /\ \A i \in 1..p : head[i] = r[i]
  <2>1. p \in Int /\ 1 \in Int /\ Len(r) \in Nat /\ Len(text) \in Nat
    BY <1>1, <1>2
  <2>2. \A i \in 1..p : text[i] \in Lines
    BY <1>2, <1>3, <2>1, ElementOfSeq
  <2>3. /\ head \in Seq(Lines)
        /\ Len(head) = IF 1 <= p THEN p - 1 + 1 ELSE 0
        /\ \A i \in 1..(p - 1 + 1) : head[i] = text[1 + i - 1]
    BY <2>1, <2>2, SubSeqProperties
  <2>4. QED
    BY <1>2, <1>3, <2>1, <2>3
<1> HIDE DEF head
<1>6. r[1] = head[1] /\ Headers(r) = Headers(head)
  <2>1. p <= Len(head)
    BY <1>2, <1>5
  <2>2. QED
    BY <1>1, <1>2, <1>5, <2>1, SameFront
<1>7. WithoutBody(RequestFromString(r)) = WithoutBody(RequestFromString(head))
  BY <1>6 DEF RequestFromString, WithoutBody
<1>8. QED
  BY <1>4, <1>7 DEF HasBlank, head

(* First line, headers, separator and body make up the text.               *)
LEMMA PartsLemma ==
  ASSUME NEW text \in Seq(Lines), ParsesRequest(text)
  PROVE  PartsMakeText(RequestFromString(text), text)
<1> DEFINE p == Separator(text)
           n == Len(text)
<1>1. /\ p \in 2..n /\ n \in Nat
      /\ text[p] = Blank /\ \A j \in 2..(p - 1) : text[j] # Blank
  BY HasSeparator DEF ParsesRequest
<1>2. Headers(text) = SubSeq(text, 2, p - 1)
  BY DEF Headers
<1> HIDE DEF p
<1>3. SubSeq(text, 1, p - 1) = <<text[1]>> \o SubSeq(text, 2, p - 1)
  <2>1. 1 \in 1..n /\ p - 1 \in 1..n /\ 1 + 1 = 2
    BY <1>1
  <2>2. SubSeq(text, 1, p - 1) = <<text[1]>> \o SubSeq(text, 1 + 1, p - 1)
    BY <2>1, SubSeqRecursiveFirst
  <2>3. QED
    BY <2>1, <2>2
<1>4. SubSeq(text, 1, p) = SubSeq(text, 1, p - 1) \o <<text[p]>>
  <2>1. 1 \in 1..n /\ p \in 1..n
    BY <1>1
  <2>2. QED
    BY <2>1, SubSeqRecursiveSecond
<1> DEFINE front == <<text[1]>> \o Headers(text) \o <<Blank>>
<1>5. front = SubSeq(text, 1, p)
  BY <1>1, <1>2, <1>3, <1>4
<1>6. Len(front) = p
  <2>1. \A i \in 1..p : text[i] \in Lines
    BY <1>1, ElementOfSeq
  <2>2. p \in Int /\ 1 \in Int
    BY <1>1
  <2>3. Len(SubSeq(text, 1, p)) = IF 1 <= p THEN p - 1 + 1 ELSE 0
    BY <2>1, <2>2, SubSeqProperties
  <2>4. QED
    BY <1>1, <1>5, <2>3
<1>7. text = front \o SubSeq(text, p + 1, n)
  <2>1. 1 \in 1..(n + 1) /\ p \in (1 - 1)..n /\ n \in p..n
    BY <1>1
  <2>2. SubSeq(text, 1, p) \o SubSeq(text, p + 1, n) = SubSeq(text, 1, n)
    BY <2>1, ConcatAdjacentSubSeq
  <2>3. SubSeq(text, 1, n) = text
    BY SubSeqFull
  <2>4. QED
    BY <1>5, <2>2, <2>3
<1>8. \A i \in 1..Len(Headers(text)) : Headers(text)[i] # Blank
  <2>1. \A i \in 2..(p - 1) : text[i] \in Lines
    BY <1>1, ElementOfSeq
  <2>2. p - 1 \in Int /\ 2 \in Int
    BY <1>1
  <2>3. /\ Len(Headers(text)) = IF 2 <= p - 1 THEN (p - 1) - 2 + 1 ELSE 0
        /\ \A i \in 1..((p - 1) - 2 + 1) : Headers(text)[i] = text[2 + i - 1]
    BY <1>2, <2>1, <2>2, SubSeqProperties
  <2>4. QED
    BY <1>1, <2>3
<1> HIDE DEF front
<1> DEFINE request0 == RequestFromString(text)
<1>9. request0.headers = Headers(text) /\ request0.body = Body(text)
  BY DEF RequestFromString
<1>10. CASE text[1].first = "CONNECT"
  BY <1>5, <1>6, <1>8, <1>9, <1>10 DEF PartsMakeText, Body, front
<1>11. CASE text[1].first # "CONNECT"
  BY <1>7, <1>8, <1>9, <1>11 DEF PartsMakeText, Body, front, p
<1>12. QED
  BY <1>10, <1>11

(* The destination does not look at the body.                              *)
LEMMA DestinationIgnoresBody ==
  ASSUME NEW s, NEW t,
         WithoutBody(RequestFromString(s)) = WithoutBody(RequestFromString(t))
  PROVE  Destination(RequestFromString(s)) = Destination(RequestFromString(t))
<1>1. /\ RequestFromString(s).method = RequestFromString(t).method
      /\ RequestFromString(s).url = RequestFromString(t).url
      /\ RequestFromString(s).host = RequestFromString(t).host
  BY DEF WithoutBody, RequestFromString
<1>2. QED
  BY <1>1 DEF Destination

-----------------------------------------------------------------------------
(* The session.                                                            *)

(* The points at which the task goes on with what it has parsed.           *)
Parsed == Points \ {"read", "log"}

(* The guard of the client stream is only held from its last lock on.      *)
GuardHeld ==
  locked => pc \in {"client_tls", "tunnel", "capture",
                    "plain_read", "plain_forward", "plain_parse"}

(* The request is what from_string made of the read, and dest is its       *)
(* destination once there is one.                                          *)
RequestIsParsed ==
  pc \in Parsed =>
    request = RequestFromString(initial_data)

(* It is the one that the header makes by itself, wherever the read ended. *)
ByTheHeader ==
  pc \in Parsed =>
    /\ HasBlank(message)
    /\ WithoutBody(request) = WithoutBody(Asked)
    /\ dest # <<>> => dest = Destination(Asked)

SessionInv ==
  /\ message \in Messages /\ reqSent \in 0..Len(message)
  /\ pc \in Points \cup Finished
  /\ pc = "read" => dest = <<>>
  /\ GuardHeld
  /\ RequestIsParsed
  /\ ByTheHeader
  /\ ReadIsParsed

LEMMA MessageIsText ==
  ASSUME message \in Messages
  PROVE  message \in Seq(Lines) /\ Len(message) \in Nat
BY SessionAssumption

LEMMA InitSession == Init => SessionInv
<1> SUFFICES ASSUME Init PROVE SessionInv
  OBVIOUS
<1>1. Len(message) \in Nat
  BY MessageIsText DEF Init
<1>2. QED
  BY <1>1 DEF Init, SessionInv, GuardHeld, RequestIsParsed, ByTheHeader,
              ReadIsParsed, Points, Handshakes, Parsed, Finished

(* The first read: whatever part of the message it caught.                 *)
LEMMA ReadKeepsSession ==
  ASSUME SessionInv, ReadRequest
  PROVE  SessionInv'
<1>1. /\ message \in Seq(Lines) /\ Len(message) \in Nat
      /\ reqSent \in 0..Len(message)
      /\ UNCHANGED <<message, reqSent>> /\ dest' = <<>>
      /\ pc = "read" /\ initial_data' \in ReadsOf(message, reqSent)
  BY MessageIsText DEF SessionInv, ReadRequest, Peers, client
<1>2. CASE ParsesRequest(initial_data')
  <2>1. /\ request' = RequestFromString(initial_data')
        /\ pc' = "dispatch" /\ locked' = locked
    BY <1>2 DEF ReadRequest, Continues
  <2>2. ~locked
    BY <1>1 DEF SessionInv, GuardHeld
  <2>3. /\ HasBlank(message)
        /\ WithoutBody(RequestFromString(initial_data')) =
             WithoutBody(Asked)
    BY <1>1, <1>2, SplitLemma DEF Asked, HeadOfMessage
  <2>4. ByTheHeader'
    BY <1>1, <2>1, <2>3 DEF ByTheHeader, Parsed, Asked, HeadOfMessage
  <2>5. ReadIsParsed'
    <3>1. initial_data' \in Seq(Lines)
      BY <1>1, ReadsAreFronts
    <3>2. PartsMakeText(RequestFromString(initial_data'), initial_data')
      BY <1>2, <3>1, PartsLemma
    <3>3. QED
      BY <2>1, <3>2 DEF ReadIsParsed
  <2>6. QED
    BY <1>1, <1>2, <2>1, <2>2, <2>4, <2>5
       DEF SessionInv, GuardHeld, RequestIsParsed, Points, Handshakes, Parsed, Finished
<1>3. CASE ~ParsesRequest(initial_data')
  <2>1. pc' = "panicked" /\ locked' = FALSE
    BY <1>3 DEF ReadRequest, Panics, Leave
  <2>2. QED
    BY <1>1, <2>1 DEF SessionInv, GuardHeld, RequestIsParsed, ByTheHeader,
       ReadIsParsed, Points, Handshakes, Parsed, Finished
<1>4. QED
  BY <1>2, <1>3

LEMMA DispatchKeepsSession ==
  ASSUME SessionInv, Dispatch
  PROVE  SessionInv'
<1>1. /\ UNCHANGED <<message, reqSent, initial_data, request>>
      /\ pc = "dispatch" /\ ~locked
  BY DEF Dispatch, Peers, client, SessionInv, GuardHeld
<1>2. CASE HasDestination(request)
  <2>1. /\ dest' = Destination(request) /\ locked' = locked
        /\ pc' \in {"established", "plain_connect"}
    BY <1>2 DEF Dispatch, Continues
  <2>2. /\ request = RequestFromString(initial_data)
        /\ HasBlank(message)
        /\ WithoutBody(request) = WithoutBody(Asked)
        /\ PartsMakeText(request, initial_data)
    BY <1>1 DEF SessionInv, RequestIsParsed, ByTheHeader, ReadIsParsed,
       Points, Parsed
  <2>3. Destination(request) = Destination(Asked)
    BY <2>2, DestinationIgnoresBody DEF Asked
  <2>4. ByTheHeader' /\ ReadIsParsed'
    BY <1>1, <2>1, <2>2, <2>3 DEF ByTheHeader, Parsed, ReadIsParsed, Asked, HeadOfMessage
  <2>5. QED
    BY <1>1, <2>1, <2>4 DEF SessionInv, GuardHeld, RequestIsParsed, Points,
       Handshakes, Parsed, Finished
<1>3. CASE ~HasDestination(request)
  <2>1. pc' = "panicked" /\ locked' = FALSE
    BY <1>3 DEF Dispatch, Panics, Leave
  <2>2. QED
    BY <1>1, <2>1 DEF SessionInv, GuardHeld, RequestIsParsed, ByTheHeader,
       ReadIsParsed, Points, Handshakes, Parsed, Finished
<1>4. QED
  BY <1>2, <1>3

(* Every later step keeps what was parsed, and moves on with a guard held  *)
(* at most where GuardHeld allows it.                                      *)
Onward ==
  /\ UNCHANGED <<message, initial_data, dest>>
  /\ reqSent' \in 0..Len(message)
  /\ \/ pc' = pc /\ UNCHANGED request
     \/ pc \in Parsed /\ pc' \in Parsed /\ UNCHANGED request
     \/ pc' \in Finished \cup {"log"}

LEMMA OnwardKeepsSession ==
  ASSUME SessionInv, Onward, GuardHeld'
  PROVE  SessionInv'
<1>1. /\ message' \in Messages /\ reqSent' \in 0..Len(message')
      /\ pc' \in Points \cup Finished
      /\ pc' = "read" => dest' = <<>>
  BY DEF SessionInv, Onward, Parsed, Points, Handshakes, Finished
<1>2. CASE pc' \in Parsed
  <2>1. pc \in Parsed /\ UNCHANGED <<message, initial_data, dest, request>>
    BY <1>2 DEF Onward, Parsed, Points, Handshakes, Finished
  <2>2. RequestIsParsed' /\ ByTheHeader' /\ ReadIsParsed'
    BY <1>2, <2>1
       DEF SessionInv, RequestIsParsed, ByTheHeader, ReadIsParsed,
           Asked, HeadOfMessage, Parsed
  <2>3. QED
    BY <1>1, <2>2 DEF SessionInv
<1>3. CASE pc' \notin Parsed
  BY <1>1, <1>3 DEF SessionInv, RequestIsParsed, ByTheHeader, ReadIsParsed, Parsed
<1>4. QED
  BY <1>2, <1>3

LEMMA StepKeepsSession == SessionInv /\ [Next]_vars => SessionInv'
<1> SUFFICES ASSUME SessionInv, [Next]_vars PROVE SessionInv'
  OBVIOUS
<1> USE DEF Leave, Fails, Panics, Continues, Peers, client, target, parsed, reply
<1>0. Len(message) \in Nat /\ reqSent \in 0..Len(message)
  BY MessageIsText DEF SessionInv
<1>1. CASE ReadRequest
  BY <1>1, ReadKeepsSession
<1>2. CASE Dispatch
  BY <1>2, DispatchKeepsSession
<1>3. CASE Established \/ Handshake \/ LockClient \/ ClientTls
  <2>1. Onward
    BY <1>0, <1>3 DEF Established, Handshake, LockClient, ClientTls, Onward,
       Parsed, Points, Handshakes, Finished
  <2>2. GuardHeld'
    BY <1>3 DEF Established, Handshake, LockClient, ClientTls, SessionInv,
       GuardHeld
  <2>3. QED
    BY <2>1, <2>2, OnwardKeepsSession
<1>4. CASE DirectionDone \/ TunnelBreaks \/ TunnelDone \/ Capture
  <2>1. Onward
    BY <1>0, <1>4 DEF DirectionDone, TunnelBreaks, TunnelDone, Capture, Onward,
       Parsed, Points, Handshakes, Finished
  <2>2. GuardHeld'
    BY <1>4 DEF DirectionDone, TunnelBreaks, TunnelDone, Capture, SessionInv,
       GuardHeld
  <2>3. QED
    BY <2>1, <2>2, OnwardKeepsSession
<1>5. CASE PlainConnect \/ PlainWrite \/ PlainLock
  <2>1. Onward
    BY <1>0, <1>5 DEF PlainConnect, PlainWrite, PlainLock, Onward,
       Parsed, Points, Handshakes, Finished
  <2>2. GuardHeld'
    BY <1>5 DEF PlainConnect, PlainWrite, PlainLock, SessionInv, GuardHeld
  <2>3. QED
    BY <2>1, <2>2, OnwardKeepsSession
<1>6. CASE PlainRead \/ PlainReadErr \/ PlainForward \/ PlainParse \/ LogSession
  <2>1. Onward
    BY <1>0, <1>6 DEF PlainRead, PlainReadErr, PlainForward, PlainParse,
       LogSession, Onward, Parsed, Points, Handshakes, Finished
  <2>2. GuardHeld'
    BY <1>6 DEF PlainRead, PlainReadErr, PlainForward, PlainParse, LogSession,
       SessionInv, GuardHeld
  <2>3. QED
    BY <2>1, <2>2, OnwardKeepsSession
<1>7. CASE ClientSends \/ ClientCloses \/ TargetSends \/ TargetCloses \/ UNCHANGED vars
  <2>1. Onward
    BY <1>0, <1>7 DEF ClientSends, ClientCloses, TargetSends, TargetCloses, vars,
       task, Onward
  <2>2. GuardHeld'
    BY <1>7 DEF ClientSends, ClientCloses, TargetSends, TargetCloses, vars, task,
       SessionInv, GuardHeld
  <2>3. QED
    BY <2>1, <2>2, OnwardKeepsSession
<1>8. QED
  BY <1>1, <1>2, <1>3, <1>4, <1>5, <1>6, <1>7
     DEF Next, TaskStep, Connects, Tunnel, Finishes

THEOREM SessionInvariant == Spec => []SessionInv
<1>1. QED
  BY InitSession, StepKeepsSession, PTL DEF Spec

(* The task never waits for the client stream's mutex with the guard of it *)
(* in its own hands (session.rs:80,119,159).                               *)
THEOREM NeverLocksTwice == Spec => []NoSelfDeadlock
<1>1. SessionInv => NoSelfDeadlock
  BY DEF SessionInv, GuardHeld, NoSelfDeadlock
<1>2. QED
  BY <1>1, SessionInvariant, PTL

-----------------------------------------------------------------------------
(* Where the session has got to, once its header was parsed.               *)
TunnelPath == {"established", "cert", "read_ca", "connect", "target_tls",
               "client_lock", "client_tls", "tunnel", "capture"}
PlainPath == {"plain_connect", "plain_write", "plain_lock", "plain_read",
              "plain_forward", "plain_parse"}

(* The path is the one of the header, and nothing was connected before it  *)
(* was taken.                                                              *)
OnItsPath ==
  /\ pc \in {"read", "dispatch"} =>
       dest = <<>> /\ ~connected /\ up = "off" /\ gotReq = <<>>
  /\ pc \in TunnelPath => dest # <<>> /\ Asked.method = "CONNECT"
  /\ pc \in PlainPath => dest # <<>> /\ Asked.method # "CONNECT"
  /\ connected => dest # <<>>
  /\ dest # <<>> => HasBlank(message) /\ dest = Destination(Asked)
  /\ up # "off" => Asked.method = "CONNECT"
  /\ gotReq # <<>> => Asked.method # "CONNECT"

LEMMA InitPath == Init => OnItsPath
  BY DEF Init, OnItsPath, TunnelPath, PlainPath

(* The match on the method takes the path of the header.                   *)
LEMMA DispatchKeepsPath ==
  ASSUME SessionInv, SessionInv', OnItsPath, Dispatch
  PROVE  OnItsPath'
<1>1. /\ pc = "dispatch" /\ UNCHANGED <<connected, up, gotReq, message, request>>
      /\ ~connected /\ up = "off" /\ gotReq = <<>>
  BY DEF Dispatch, Peers, client, OnItsPath
<1>2. HasBlank(message) /\ WithoutBody(request) = WithoutBody(Asked)
  BY <1>1 DEF SessionInv, ByTheHeader, Parsed, Points
<1>3. request.method = Asked.method
  BY <1>2 DEF WithoutBody
<1>4. HasBlank(message') /\ Asked' = Asked
  BY <1>1, <1>2 DEF Asked, HeadOfMessage
<1>5. CASE HasDestination(request)
  <2>1. /\ dest' = Destination(request)
        /\ pc' = IF request.method = "CONNECT" THEN "established" ELSE "plain_connect"
    BY <1>5 DEF Dispatch, Continues
  <2>2. dest' # <<>>
    BY <2>1 DEF Destination
  <2>3. dest' = Destination(Asked')
    <3>1. pc' \in Parsed
      BY <2>1 DEF Parsed, Points, Handshakes
    <3>2. dest' # <<>> => dest' = Destination(Asked)'
      BY <3>1 DEF SessionInv, ByTheHeader
    <3>3. QED
      BY <2>2, <3>2 DEF Destination
  <2>4. QED
    BY <1>1, <1>3, <1>4, <2>1, <2>2, <2>3
    DEF OnItsPath, TunnelPath, PlainPath, Destination, HasBlank, BlankAt
<1>6. CASE ~HasDestination(request)
  <2>1. pc' = "panicked" /\ dest' = <<>>
    BY <1>1, <1>6 DEF Dispatch, Panics, Leave, OnItsPath
  <2>2. QED
    BY <1>1, <2>1 DEF OnItsPath, TunnelPath, PlainPath
<1>7. QED
  BY <1>5, <1>6

(* Later steps stay on it, and connect, relay and write where it allows.   *)
OnPath ==
  /\ UNCHANGED <<message, dest>>
  /\ \/ pc' = pc
     \/ pc \in TunnelPath /\ pc' \in TunnelPath
     \/ pc \in PlainPath /\ pc' \in PlainPath
     \/ pc' \in {"log"} \cup Finished
     \/ pc = "read" /\ pc' = "dispatch"
  /\ connected' # connected => pc \in TunnelPath \cup PlainPath
  /\ up' # up => pc \in TunnelPath
  /\ gotReq' # gotReq => pc \in PlainPath

LEMMA OnPathKeeps ==
  ASSUME OnItsPath, OnPath
  PROVE  OnItsPath'
<1>1. Asked' = Asked /\ (HasBlank(message))' = HasBlank(message)
      /\ (Destination(Asked))' = Destination(Asked)
  BY DEF OnPath, Asked, HeadOfMessage
<1>2. pc' \in {"read", "dispatch"} => pc \in {"read", "dispatch"}
  BY DEF OnPath, TunnelPath, PlainPath, Finished
<1>3. pc' \in TunnelPath => pc \in TunnelPath
  BY DEF OnPath, TunnelPath, PlainPath, Finished
<1>4. pc' \in PlainPath => pc \in PlainPath
  BY DEF OnPath, TunnelPath, PlainPath, Finished
<1>5. pc' \in {"read", "dispatch"} =>
        dest' = <<>> /\ ~connected' /\ up' = "off" /\ gotReq' = <<>>
  <2>1. pc \in {"read", "dispatch"} => pc \notin TunnelPath \cup PlainPath
    BY DEF TunnelPath, PlainPath
  <2>2. QED
    BY <1>2, <2>1 DEF OnPath, OnItsPath
<1>6. /\ dest' = dest
      /\ connected' => dest # <<>>
      /\ up' # "off" => Asked.method = "CONNECT"
      /\ gotReq' # <<>> => Asked.method # "CONNECT"
  BY DEF OnPath, OnItsPath
<1>7. /\ pc' \in TunnelPath => dest # <<>> /\ Asked.method = "CONNECT"
      /\ pc' \in PlainPath => dest # <<>> /\ Asked.method # "CONNECT"
      /\ dest # <<>> => HasBlank(message) /\ dest = Destination(Asked)
  BY <1>3, <1>4 DEF OnItsPath
<1>8. QED
  BY <1>1, <1>5, <1>6, <1>7 DEF OnItsPath, Asked, HeadOfMessage

LEMMA StepKeepsPath == SessionInv /\ SessionInv' /\ OnItsPath /\ [Next]_vars => OnItsPath'
<1> SUFFICES ASSUME SessionInv, SessionInv', OnItsPath, [Next]_vars PROVE OnItsPath'
  OBVIOUS
<1> USE DEF Leave, Fails, Panics, Continues, Peers, client, target, parsed, reply
<1>1. CASE Dispatch
  BY <1>1, DispatchKeepsPath
<1>2. CASE ReadRequest
  <2>1. OnPath
    BY <1>2 DEF ReadRequest, OnPath, Finished
  <2>2. QED
    BY <2>1, OnPathKeeps
<1>3. CASE Established \/ Handshake \/ LockClient \/ ClientTls
  <2>1. OnPath
    BY <1>3 DEF Established, Handshake, LockClient, ClientTls, OnPath, TunnelPath,
       Finished
  <2>2. QED
    BY <2>1, OnPathKeeps
<1>4. CASE DirectionDone \/ TunnelBreaks \/ TunnelDone \/ Capture
  <2>1. OnPath
    BY <1>4 DEF DirectionDone, TunnelBreaks, TunnelDone, Capture, OnPath, TunnelPath,
       Finished
  <2>2. QED
    BY <2>1, OnPathKeeps
<1>5. CASE PlainConnect \/ PlainWrite \/ PlainLock
  <2>1. OnPath
    BY <1>5 DEF PlainConnect, PlainWrite, PlainLock, OnPath, PlainPath
  <2>2. QED
    BY <2>1, OnPathKeeps
<1>6. CASE PlainRead \/ PlainReadErr \/ PlainForward \/ PlainParse \/ LogSession
  <2>1. OnPath
    BY <1>6 DEF PlainRead, PlainReadErr, PlainForward, PlainParse, LogSession, OnPath,
       PlainPath, Finished
  <2>2. QED
    BY <2>1, OnPathKeeps
<1>7. CASE ClientSends \/ ClientCloses \/ TargetSends \/ TargetCloses \/ UNCHANGED vars
  <2>1. OnPath
    BY <1>7 DEF ClientSends, ClientCloses, TargetSends, TargetCloses, vars, task, OnPath
  <2>2. QED
    BY <2>1, OnPathKeeps
<1>8. QED
  BY <1>1, <1>2, <1>3, <1>4, <1>5, <1>6, <1>7
     DEF Next, TaskStep, Connects, Tunnel, Finishes

(* Wherever the first read ends, the session goes on with the request that *)
(* the header makes by itself, or not at all; and the client's bytes take  *)
(* the way of that header, to its destination (session.rs:68-73,           *)
(* http_proxy.rs:52-73).                                                   *)
THEOREM SplitMakesNoDifference == Spec => []SplitIndependent
<1>1. SessionInv /\ OnItsPath => SplitIndependent
  BY DEF SessionInv, ByTheHeader, OnItsPath, SplitIndependent, Parsed
<1>2. Spec => []OnItsPath
  BY InitPath, StepKeepsPath, SessionInvariant, PTL DEF Spec
<1>3. QED
  BY <1>1, <1>2, SessionInvariant, PTL

(* from_string neither loses nor repeats a line (prelude.rs:70-158).       *)
THEOREM PartsAreTheText == Spec => []ReadIsParsed
<1>1. SessionInv => ReadIsParsed
  BY DEF SessionInv
<1>2. QED
  BY <1>1, SessionInvariant, PTL
-----------------------------------------------------------------------------
(* The answer of a plain exchange.                                         *)

(* Nothing has arrived of a text: nothing can be read.  What can be read   *)
(* of a part can be read of more of it.                                    *)
LEMMA ReadsGrow ==
  ASSUME NEW text, NEW m \in Nat, NEW n \in Nat, m <= n
  PROVE  ReadsOf(text, m) \subseteq ReadsOf(text, n) /\ <<>> \in ReadsOf(text, m)
<1>1. 0..m \subseteq 0..n /\ 0..(m - 1) \subseteq 0..(n - 1) /\ 0 \in 0..m
  OBVIOUS
<1>2. SubSeq(text, 1, 0) = <<>>
  BY SubSeqEmpty
<1>3. <<>> \in {SubSeq(text, 1, k) : k \in 0..m}
  BY <1>1, <1>2
<1>4. {SubSeq(text, 1, k) : k \in 0..m} \subseteq {SubSeq(text, 1, k) : k \in 0..n}
  BY <1>1
<1>5. UNION {{Append(SubSeq(text, 1, k), part) : part \in Cuts[text[k + 1]]} :
               k \in 0..(m - 1)}
      \subseteq UNION {{Append(SubSeq(text, 1, k), part) : part \in Cuts[text[k + 1]]} :
                         k \in 0..(n - 1)}
  BY <1>1
<1>6. QED
  BY <1>3, <1>4, <1>5 DEF ReadsOf

LEMMA NothingArrived == \A text : ReadsOf(text, 0) = {<<>>}
<1> TAKE text
<1>1. SubSeq(text, 1, 0) = <<>>
  BY SubSeqEmpty
<1>2. 0..0 = {0} /\ 0..(0 - 1) = {}
  OBVIOUS
<1>3. QED
  BY <1>1, <1>2 DEF ReadsOf

(* The target is given what was read, once, and the client what was read   *)
(* of the answer after that; the request is then still the one parsed.     *)
ReplyInv ==
  /\ answer \in Answers /\ respSent \in 0..Len(answer)
  /\ initial_data \in ReadsOf(message, reqSent)
  /\ pc \in {"read", "dispatch"} \cup TunnelPath \cup {"plain_connect", "plain_write"}
       => gotReq = <<>>
  /\ gotReq \in {<<>>, initial_data}
  /\ pc \in {"plain_lock", "plain_read", "plain_forward", "plain_parse"}
       => gotReq = initial_data
  /\ pc \in Parsed => initial_data # <<>>
  /\ chunk \in ReadsOf(answer, respSent)
  /\ pc \in {"read"} \cup (Parsed \ {"plain_parse"}) => forwarded = <<>>
  /\ forwarded \in {<<>>, chunk}
  /\ forwarded # <<>> =>
       gotReq = initial_data /\ initial_data # <<>> /\ PartsMakeText(request, initial_data)

LEMMA AnswerIsText ==
  ASSUME answer \in Answers
  PROVE  answer \in Seq(Lines) /\ Len(answer) \in Nat
BY SessionAssumption

LEMMA InitReply == Init => ReplyInv
<1> SUFFICES ASSUME Init PROVE ReplyInv
  OBVIOUS
<1>1. Len(answer) \in Nat /\ Len(message) \in Nat
  BY AnswerIsText, MessageIsText DEF Init
<1>2. initial_data \in ReadsOf(message, reqSent) /\ chunk \in ReadsOf(answer, respSent)
  BY NothingArrived DEF Init
<1>3. QED
  BY <1>1, <1>2 DEF Init, ReplyInv, Parsed

(* The peers: more arrives, and what was read of it stays readable.        *)
LEMMA PeersKeepReply ==
  ASSUME SessionInv, ReplyInv,
         ClientSends \/ ClientCloses \/ TargetSends \/ TargetCloses \/ UNCHANGED vars
  PROVE  ReplyInv'
<1>1. /\ Len(message) \in Nat /\ Len(answer) \in Nat
      /\ reqSent \in 0..Len(message) /\ respSent \in 0..Len(answer)
  BY MessageIsText, AnswerIsText DEF SessionInv, ReplyInv
<1>2. CASE ClientSends
  <2>1. ReadsOf(message, reqSent) \subseteq ReadsOf(message, reqSent + 1)
    BY <1>1, ReadsGrow
  <2>2. QED
    BY <1>2, <2>1 DEF ClientSends, ReplyInv, task, parsed, reply, target
<1>3. CASE TargetSends
  <2>1. ReadsOf(answer, respSent) \subseteq ReadsOf(answer, respSent + 1)
        /\ respSent + 1 \in 0..Len(answer)
    BY <1>1, <1>3, ReadsGrow DEF TargetSends
  <2>2. QED
    BY <1>3, <2>1 DEF TargetSends, ReplyInv, task, parsed, reply, client
<1>4. CASE ClientCloses \/ TargetCloses \/ UNCHANGED vars
  BY <1>4 DEF ClientCloses, TargetCloses, vars, ReplyInv, task, parsed, reply, client,
     target
<1>5. QED
  BY <1>2, <1>3, <1>4

(* What the task does besides reading and writing.                         *)
LEMMA QuietKeepsReply ==
  ASSUME ReplyInv, UNCHANGED <<initial_data, reply, client, gotReq, target>>,
         request' = request \/ pc = "capture",
         \/ pc' = pc \/ pc' \in {"log"} \cup Finished
         \/ pc = "dispatch" /\ pc' \in TunnelPath \cup {"plain_connect"}
         \/ pc \in TunnelPath /\ pc' \in TunnelPath
         \/ pc = "plain_connect" /\ pc' = "plain_write"
         \/ pc = "plain_lock" /\ pc' = "plain_read"
  PROVE  ReplyInv'
BY DEF ReplyInv, reply, client, target, TunnelPath, Finished, Parsed, Points, Handshakes

(* The three steps that move data.                                         *)
LEMMA DataKeepsReply ==
  ASSUME SessionInv, ReplyInv,
         ReadRequest \/ PlainWrite \/ PlainRead \/ PlainReadErr \/ PlainForward
  PROVE  ReplyInv'
<1> USE DEF Leave, Fails, Panics, Continues, Peers, client, target, parsed, reply
<1>2. CASE ReadRequest
  <2>1. /\ initial_data' \in ReadsOf(message, reqSent) /\ pc' \in {"dispatch", "panicked"}
        /\ UNCHANGED <<chunk, forwarded, message, reqSent, gotReq, answer, respSent>>
        /\ gotReq = <<>> /\ forwarded = <<>>
    BY <1>2 DEF ReadRequest, ReplyInv
  <2>2. pc' = "dispatch" => initial_data' # <<>>
    BY <1>2 DEF ReadRequest, ParsesRequest
  <2>3. QED
    BY <2>1, <2>2 DEF ReplyInv, TunnelPath, Parsed, Points, Handshakes
<1>3. CASE PlainWrite
  <2>1. /\ UNCHANGED <<initial_data, chunk, forwarded, message, reqSent, answer, respSent>>
        /\ gotReq = <<>> /\ forwarded = <<>> /\ initial_data # <<>>
        /\ \/ pc' = "plain_lock" /\ gotReq' = initial_data
           \/ pc' = "log" /\ gotReq' = <<>>
    BY <1>3 DEF PlainWrite, ReplyInv, Parsed, Points
  <2>2. QED
    BY <2>1 DEF ReplyInv, TunnelPath, Parsed, Points, Handshakes
<1>4. CASE PlainRead
  <2>1. /\ UNCHANGED <<initial_data, forwarded, message, reqSent, gotReq, answer, respSent>>
        /\ chunk' \in ReadsOf(answer, respSent) /\ forwarded = <<>>
        /\ gotReq = initial_data /\ initial_data # <<>>
        /\ pc' \in {"plain_forward", "log"}
    BY <1>4 DEF PlainRead, ReplyInv, Parsed, Points
  <2>2. QED
    BY <2>1 DEF ReplyInv, TunnelPath, Parsed, Points, Handshakes
<1>5. CASE PlainForward
  <2>1. /\ UNCHANGED <<initial_data, request, chunk, message, reqSent, gotReq, answer, respSent>>
        /\ forwarded' \in {<<>>, chunk} /\ pc' \in {"plain_parse", "log"}
    BY <1>5 DEF PlainForward, ReplyInv
  <2>2. /\ gotReq = initial_data /\ initial_data # <<>>
        /\ PartsMakeText(request, initial_data)
    BY <1>5 DEF PlainForward, SessionInv, ReplyInv, ReadIsParsed, Parsed, Points
  <2>3. PartsMakeText(request', initial_data')
    BY <2>1, <2>2
  <2>4. QED
    BY <2>1, <2>2, <2>3 DEF ReplyInv, TunnelPath, Parsed, Points, Handshakes
<1>6. CASE PlainReadErr
  BY <1>6, QuietKeepsReply DEF PlainReadErr
<1>7. QED
  BY <1>2, <1>3, <1>4, <1>5, <1>6

LEMMA StepKeepsReply == SessionInv /\ ReplyInv /\ [Next]_vars => ReplyInv'
<1> SUFFICES ASSUME SessionInv, ReplyInv, [Next]_vars PROVE ReplyInv'
  OBVIOUS
<1> USE DEF Leave, Fails, Panics, Continues, Peers, client, target, parsed, reply
<1>1. CASE ReadRequest \/ PlainWrite \/ PlainRead \/ PlainReadErr \/ PlainForward
  BY <1>1, DataKeepsReply
<1>2. CASE Dispatch \/ PlainConnect \/ PlainLock
  BY <1>2, QuietKeepsReply DEF Dispatch, PlainConnect, PlainLock, TunnelPath, Finished
<1>3. CASE Established \/ Handshake \/ LockClient \/ ClientTls
  BY <1>3, QuietKeepsReply
  DEF Established, Handshake, LockClient, ClientTls, TunnelPath, Finished
<1>4. CASE DirectionDone \/ TunnelBreaks \/ TunnelDone \/ Capture
  BY <1>4, QuietKeepsReply
  DEF DirectionDone, TunnelBreaks, TunnelDone, Capture, TunnelPath, Finished
<1>5. CASE PlainParse \/ LogSession
  BY <1>5, QuietKeepsReply DEF PlainParse, LogSession, Finished
<1>6. CASE ClientSends \/ ClientCloses \/ TargetSends \/ TargetCloses \/ UNCHANGED vars
  BY <1>6, PeersKeepReply
<1>7. QED
  BY <1>1, <1>2, <1>3, <1>4, <1>5, <1>6
     DEF Next, TaskStep, Connects, Tunnel, Finishes

LEMMA ReplyInvariant == Spec => []ReplyInv
  BY InitReply, StepKeepsReply, SessionInvariant, PTL DEF Spec

(* Whenever the target answers, its client gets a start of that answer,    *)
(* after the target was given the request as parsed (session.rs:68-73,     *)
(* 155-165).                                                               *)
THEOREM ReplyBelongsToRequest == Spec => []ReplyIsToLogged
<1>1. ReplyInv => ReplyIsToLogged
  BY DEF ReplyInv, ReplyIsToLogged
<1>2. QED
  BY <1>1, ReplyInvariant, PTL

(* The types: each text the task holds is one that its read could return.  *)
ControlTypeOK ==
  /\ pc \in Points \cup Finished
  /\ locked \in BOOLEAN /\ connected \in BOOLEAN
  /\ up \in {"off", "running", "done"} /\ down \in {"off", "running", "done"}
  /\ clientClosed \in BOOLEAN /\ targetClosed \in BOOLEAN
  /\ request.method \in Methods
  /\ Len(dest) \in {0, 2}

LEMMA ParsedMethod ==
  ASSUME NEW text, ParsesRequest(text)
  PROVE  RequestFromString(text).method \in Methods
BY DEF ParsesRequest, KnownMethod, RequestFromString

LEMMA StepKeepsControl ==
  ASSUME ControlTypeOK, [Next]_vars
  PROVE  ControlTypeOK'
<1> USE DEF Leave, Fails, Panics, Continues, Peers, client, target, parsed, reply
<1>1. CASE ReadRequest
  BY <1>1, ParsedMethod DEF ReadRequest, ControlTypeOK, Points, Finished
<1>2. CASE Dispatch
  <2>1. Len(Destination(request)) = 2
    BY DEF Destination
  <2>2. dest' \in {dest, Destination(request)} /\ UNCHANGED request
    BY <1>2 DEF Dispatch
  <2>3. Len(dest') \in {0, 2}
    BY <2>1, <2>2 DEF ControlTypeOK
  <2>4. QED
    BY <1>2, <2>2, <2>3 DEF Dispatch, ControlTypeOK, Points, Finished
<1>3. CASE Established \/ Handshake \/ LockClient \/ ClientTls
  BY <1>3 DEF Established, Handshake, LockClient, ClientTls, ControlTypeOK, Points,
     Handshakes, Finished
<1>4. CASE DirectionDone \/ TunnelBreaks \/ TunnelDone
  BY <1>4 DEF DirectionDone, TunnelBreaks, TunnelDone, ControlTypeOK, Points, Finished
<1>5. CASE Capture
  BY <1>5, ParsedMethod DEF Capture, ControlTypeOK, Points, Finished
<1>6. CASE PlainConnect \/ PlainWrite \/ PlainLock \/ PlainRead \/ PlainReadErr
  BY <1>6 DEF PlainConnect, PlainWrite, PlainLock, PlainRead, PlainReadErr,
     ControlTypeOK, Points
<1>7. CASE PlainForward \/ PlainParse \/ LogSession
  BY <1>7 DEF PlainForward, PlainParse, LogSession, ControlTypeOK, Points, Finished
<1>8. CASE ClientSends \/ ClientCloses \/ TargetSends \/ TargetCloses \/ UNCHANGED vars
  BY <1>8 DEF ClientSends, ClientCloses, TargetSends, TargetCloses, vars, task,
     ControlTypeOK
<1>9. QED
  BY <1>1, <1>2, <1>3, <1>4, <1>5, <1>6, <1>7, <1>8
     DEF Next, TaskStep, Connects, Tunnel, Finishes

THEOREM SessionTypes == Spec => []TypeOK
<1>1. Init => ControlTypeOK
  <2> SUFFICES ASSUME Init PROVE ControlTypeOK
    OBVIOUS
  <2>1. dest = <<>> /\ Len(<<>>) \in {0, 2}
    BY DEF Init
  <2>2. request.method \in Methods
    BY DEF Init, DefaultRequest, Methods
  <2>3. pc \in Points
    BY DEF Init, Points
  <2>4. QED
    BY <2>1, <2>2, <2>3 DEF Init, ControlTypeOK
<1>2. Spec => []ControlTypeOK
  BY <1>1, StepKeepsControl, PTL DEF Spec
<1>3. SessionInv /\ ReplyInv /\ ControlTypeOK => TypeOK
  BY DEF SessionInv, ReplyInv, ControlTypeOK, TypeOK
<1>4. QED
  BY <1>2, <1>3, SessionInvariant, ReplyInvariant, PTL
=============================================================================

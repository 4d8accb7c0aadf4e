------------------------------ MODULE Session ------------------------------
(***************************************************************************)
(* One proxied session, from the task that entry() spawns to its log line  *)
(* (http_proxy.rs:48-83, session.rs): the first read and its parsing, then *)
(* either the CONNECT path (TLS on both sides and a tunnel) or the plain   *)
(* path (one request, one response).                                       *)
(*                                                                         *)
(* The client sends one message and the target one answer, line by line;   *)
(* a read returns some of the lines that have arrived, and may end within  *)
(* one.  HttpMessage says what the parsers make of them.  The parsed       *)
(* response is only logged and is left out.  Errors of the handlers end    *)
(* them early and the session is logged all the same; a panic ends the     *)
(* task at once.  Each direction of the tunnel is abstracted to whether it *)
(* still runs, see Relay.                                                  *)
(***************************************************************************)
EXTENDS HttpMessage

CONSTANTS
  Messages,  \* texts a client may send
  Answers    \* texts a target may answer

ASSUME SessionAssumption ==
  /\ Messages \subseteq Seq(Lines) /\ <<>> \notin Messages
  /\ Answers \subseteq Seq(Lines) /\ <<>> \notin Answers

VARIABLES
  pc,            \* where the task is
  locked,        \* the task holds the guard of the client stream's mutex
  connected,     \* a connection to the target exists
  up, down,      \* directions client -> target and target -> client
  initial_data,  \* the text of the first read
  request,       \* the request of the Session
  dest,          \* host and port of the match in entry, <<>> before it
  chunk,         \* the text of the read from the target
  forwarded,     \* the text written to the client
  (* the peers *)
  message, reqSent, clientClosed,  \* what the client sends; lines sent
  gotReq,                          \* the text the target received
  answer, respSent, targetClosed   \* what the target answers; lines sent

parsed == <<initial_data, request, dest>>
reply == <<chunk, forwarded>>
task == <<pc, locked, connected, up, down, parsed, reply>>
client == <<message, reqSent, clientClosed>>
target == <<answer, respSent, targetClosed>>
vars == <<task, client, gotReq, target>>

-----------------------------------------------------------------------------
Handshakes == {"cert", "read_ca", "connect", "target_tls"}
Points == {"read", "dispatch", "established", "client_lock", "client_tls",
           "tunnel", "capture", "plain_connect", "plain_write", "plain_lock",
           "plain_read", "plain_forward", "plain_parse", "log"} \cup Handshakes
Finished == {"ended", "panicked"}

TypeOK ==
  /\ pc \in Points \cup Finished
  /\ locked \in BOOLEAN /\ connected \in BOOLEAN
  /\ up \in {"off", "running", "done"} /\ down \in {"off", "running", "done"}
  /\ message \in Messages /\ answer \in Answers
  /\ reqSent \in 0..Len(message) /\ clientClosed \in BOOLEAN
  /\ respSent \in 0..Len(answer) /\ targetClosed \in BOOLEAN
  /\ initial_data \in ReadsOf(message, reqSent)
  /\ gotReq \in {<<>>, initial_data}
  /\ request.method \in Methods
  /\ Len(dest) \in {0, 2}
  /\ chunk \in ReadsOf(answer, respSent)
  /\ forwarded \in {<<>>, chunk}

Init ==
  /\ pc = "read"
  /\ locked = FALSE /\ connected = FALSE
  /\ up = "off" /\ down = "off"
  /\ initial_data = <<>> /\ request = DefaultRequest /\ dest = <<>>
  /\ chunk = <<>> /\ forwarded = <<>>
  /\ message \in Messages /\ reqSent = 0 /\ clientClosed = FALSE
  /\ gotReq = <<>>
  /\ answer \in Answers /\ respSent = 0 /\ targetClosed = FALSE

Peers == <<client, gotReq, target>>

(* An early return of a handler drops its guard; entry's task goes on to   *)
(* the log line.  A panic ends the task, which drops the guard as well.    *)
Leave(where) == pc' = where /\ locked' = FALSE
Fails == Leave("log")
Panics == Leave("panicked")
Continues(where) == pc' = where /\ UNCHANGED locked

-----------------------------------------------------------------------------
(* session_connect: one read, one parse.  A read that fails or is empty,   *)
(* an incomplete header and a text from_string does not like panic in an   *)
(* unwrap; the text is in initial_data by then.                            *)
ReadRequest ==
  /\ pc = "read"
  /\ initial_data' \in ReadsOf(message, reqSent)
  /\ initial_data' = <<>> => clientClosed
  /\ \/ /\ ParsesRequest(initial_data')
        /\ request' = RequestFromString(initial_data')
        /\ Continues("dispatch")
     \/ /\ ~ParsesRequest(initial_data')
        /\ UNCHANGED request
        /\ Panics
  /\ UNCHANGED <<connected, up, down, dest, reply, Peers>>

(* The match on the method.                                                *)
Dispatch ==
  /\ pc = "dispatch"
  /\ \/ /\ HasDestination(request)
        /\ dest' = Destination(request)
        /\ Continues(IF request.method = "CONNECT" THEN "established" ELSE "plain_connect")
     \/ /\ ~HasDestination(request)
        /\ UNCHANGED dest
        /\ Panics
  /\ UNCHANGED <<connected, up, down, initial_data, request, reply, Peers>>

(* Variant of Established: the guard is kept to the end of handle_https.   *)
EstablishedKeepsGuard ==
  /\ pc = "established"
  /\ ~locked
  /\ (pc' = "cert" /\ locked' = TRUE) \/ Fails
  /\ UNCHANGED <<connected, up, down, parsed, reply, Peers>>

(* handle_https: 200 is written under the guard, which is dropped again,   *)
(* before anything is known of the target.                                 *)
Established ==
  /\ pc = "established"
  /\ ~locked
  /\ Continues("cert") \/ Fails
  /\ UNCHANGED <<connected, up, down, parsed, reply, Peers>>

(* The signed certificate and the server configuration, the CA file (an    *)
(* expect), the connection to the target and the handshake with it.        *)
Handshake ==
  /\ \/ pc = "cert" /\ Continues("read_ca") /\ UNCHANGED connected
     \/ pc = "read_ca" /\ Continues("connect") /\ UNCHANGED connected
     \/ pc = "read_ca" /\ Panics /\ UNCHANGED connected
     \/ pc = "connect" /\ connected' = TRUE /\ Continues("target_tls")
     \/ pc = "target_tls" /\ Continues("client_lock") /\ UNCHANGED connected
     \/ pc \in {"cert", "connect", "target_tls"} /\ Fails /\ UNCHANGED connected
  /\ UNCHANGED <<up, down, parsed, reply, Peers>>

(* The stream is locked again, for good, and the client's handshake done.  *)
LockClient ==
  /\ pc = "client_lock"
  /\ ~locked
  /\ locked' = TRUE
  /\ pc' = "client_tls"
  /\ UNCHANGED <<connected, up, down, parsed, reply, Peers>>

ClientTls ==
  /\ pc = "client_tls"
  /\ \/ Continues("tunnel") /\ up' = "running" /\ down' = "running"
     \/ Fails /\ UNCHANGED <<up, down>>
  /\ UNCHANGED <<connected, parsed, reply, Peers>>

-----------------------------------------------------------------------------
(* copy_bidirectional: the tunnel is polled until both directions are      *)
(* Done; an error of either ends it, a panic in either ends the task.      *)

(* Variant of DirectionDone: only one of them is ever recorded.            *)
DirectionForgets ==
  /\ pc = "tunnel"
  /\ \/ up = "running" /\ clientClosed /\ up' = "done" /\ down' = "running"
     \/ down = "running" /\ targetClosed /\ down' = "done" /\ up' = "running"
  /\ UNCHANGED <<pc, locked, connected, parsed, reply, Peers>>

DirectionDone ==
  /\ pc = "tunnel"
  /\ \/ up = "running" /\ clientClosed /\ up' = "done" /\ UNCHANGED down
     \/ down = "running" /\ targetClosed /\ down' = "done" /\ UNCHANGED up
  /\ UNCHANGED <<pc, locked, connected, parsed, reply, Peers>>

TunnelBreaks ==
  /\ pc = "tunnel"
  /\ Fails \/ Panics
  /\ UNCHANGED <<connected, up, down, parsed, reply, Peers>>

TunnelDone ==
  /\ pc = "tunnel"
  /\ up = "done" /\ down = "done"
  /\ Continues("capture")
  /\ UNCHANGED <<connected, up, down, parsed, reply, Peers>>

(* The captured texts, which may be any, are parsed and both results       *)
(* unwrapped; the request of the session becomes the one of the tunnel.    *)
Capture ==
  /\ pc = "capture"
  /\ \/ /\ \E t \in Messages : ParsesRequest(t) /\ request' = RequestFromString(t)
        /\ Leave("log") \/ Panics
     \/ UNCHANGED request /\ Panics
  /\ UNCHANGED <<connected, up, down, initial_data, dest, reply, Peers>>

-----------------------------------------------------------------------------
(* handle_http.                                                            *)
PlainConnect ==
  /\ pc = "plain_connect"
  /\ \/ connected' = TRUE /\ Continues("plain_write")
     \/ UNCHANGED connected /\ Fails
  /\ UNCHANGED <<up, down, parsed, reply, Peers>>

(* Variant of PlainWrite: the body that came with the header is left out.  *)
PlainWriteHead ==
  /\ pc = "plain_write"
  /\ \/ gotReq' = SubSeq(initial_data, 1, Separator(initial_data)) /\ Continues("plain_lock")
     \/ UNCHANGED gotReq /\ Fails
  /\ UNCHANGED <<connected, up, down, parsed, reply, client, target>>

PlainWrite ==
  /\ pc = "plain_write"
  /\ \/ gotReq' = initial_data /\ Continues("plain_lock")
     \/ UNCHANGED gotReq /\ Fails
  /\ UNCHANGED <<connected, up, down, parsed, reply, client, target>>

PlainLock ==
  /\ pc = "plain_lock"
  /\ ~locked
  /\ locked' = TRUE
  /\ pc' = "plain_read"
  /\ UNCHANGED <<connected, up, down, parsed, reply, Peers>>

(* One read of the target: some text, or the end of the connection.        *)
PlainRead ==
  /\ pc = "plain_read"
  /\ chunk' \in ReadsOf(answer, respSent)
  /\ \/ chunk' # <<>> /\ Continues("plain_forward")
     \/ chunk' = <<>> /\ targetClosed /\ respSent = 0 /\ Fails
  /\ UNCHANGED <<connected, up, down, parsed, forwarded, Peers>>

PlainReadErr ==
  /\ pc = "plain_read"
  /\ Fails
  /\ UNCHANGED <<connected, up, down, parsed, reply, Peers>>

PlainForward ==
  /\ pc = "plain_forward"
  /\ \/ forwarded' = chunk /\ Continues("plain_parse")
     \/ UNCHANGED forwarded /\ Fails
  /\ UNCHANGED <<connected, up, down, parsed, chunk, Peers>>

(* Variant of PlainParse: the read loop goes on.                           *)
PlainParseLoops ==
  /\ pc = "plain_parse"
  /\ IF ParsesResponse(chunk) THEN Continues("plain_read") ELSE Panics
  /\ UNCHANGED <<connected, up, down, parsed, reply, Peers>>

(* Response::from_string is unwrapped; then `break` leaves the read loop.  *)
PlainParse ==
  /\ pc = "plain_parse"
  /\ IF ParsesResponse(chunk) THEN Leave("log") ELSE Panics
  /\ UNCHANGED <<connected, up, down, parsed, reply, Peers>>

(* proxy_info!, issued after an early return too, and the end of the task. *)
LogSession ==
  /\ pc = "log"
  /\ Continues("ended")
  /\ UNCHANGED <<connected, up, down, parsed, reply, Peers>>

-----------------------------------------------------------------------------
(* The peers.  A target may answer at any time: before it is sent anything *)
(* (408), to a part of a request (100, 400, 413), to all of it, or never.  *)
ClientSends ==
  /\ ~clientClosed /\ reqSent < Len(message)
  /\ reqSent' = reqSent + 1
  /\ UNCHANGED <<task, message, clientClosed, gotReq, target>>

ClientCloses ==
  /\ ~clientClosed
  /\ clientClosed' = TRUE
  /\ UNCHANGED <<task, message, reqSent, gotReq, target>>

TargetSends ==
  /\ connected /\ ~targetClosed /\ respSent < Len(answer)
  /\ respSent' = respSent + 1
  /\ UNCHANGED <<task, client, gotReq, answer, targetClosed>>

TargetCloses ==
  /\ connected /\ ~targetClosed
  /\ targetClosed' = TRUE
  /\ UNCHANGED <<task, client, gotReq, answer, respSent>>

-----------------------------------------------------------------------------
Connects == Dispatch \/ Established \/ Handshake \/ LockClient \/ ClientTls
            \/ PlainConnect \/ PlainWrite \/ PlainLock
Tunnel == DirectionDone \/ TunnelDone
Finishes == Capture \/ PlainForward \/ PlainParse \/ LogSession

TaskStep == ReadRequest \/ PlainRead \/ Connects \/ Tunnel \/ Finishes

Next ==
  \/ TaskStep \/ TunnelBreaks \/ PlainReadErr
  \/ ClientSends \/ ClientCloses \/ TargetSends \/ TargetCloses

Spec == Init /\ [][Next]_vars

(* The task is polled whenever it can go on.  A handshake and a write      *)
(* depend on a peer that may stay silent with its side open, and no error  *)
(* has to happen.                                                          *)
AwaitsPeer ==
  \/ pc \in {"client_tls", "plain_forward"} /\ ~clientClosed
  \/ pc \in {"target_tls", "plain_write"} /\ ~targetClosed

FairSpec == Spec /\ WF_vars(TaskStep /\ ~AwaitsPeer)

(* Peers that take part in every exchange and need not close: the client   *)
(* sends all it has, and the target owes an answer to a whole message.  An *)
(* assumption of WholeRequestEnds, not of FairSpec.                        *)
WillingPeers ==
  /\ WF_vars(TaskStep) /\ WF_vars(ClientSends)
  /\ WF_vars(TargetSends /\ gotReq = message)

-----------------------------------------------------------------------------
(* Safety.                                                                 *)

(* The mutex of the client stream is not re-entrant: whenever the task is  *)
(* about to lock it, the task itself does not hold it (session.rs:80,82,   *)
(* 119,159).                                                               *)
NoSelfDeadlock ==
  pc \in {"established", "client_lock", "plain_lock"} => ~locked

(* The message up to its separator, and the request that makes by itself.  *)
HeadOfMessage == SubSeq(message, 1, Separator(message))
Asked == RequestFromString(HeadOfMessage)

(* However much of the message the one read has caught - its header and    *)
(* any part of its body, ending within a line or not - the session parsed  *)
(* and connects by the same request, the one the header of the message     *)
(* makes by itself: to its destination, by a tunnel if it is a CONNECT,    *)
(* and in the clear only if it is not (session.rs:68-73,                   *)
(* http_proxy.rs:52-73).                                                   *)
SplitIndependent ==
  /\ pc \in Points \ {"read", "log"} =>
       HasBlank(message) /\ WithoutBody(request) = WithoutBody(Asked)
  /\ connected => dest # <<>>
  /\ dest # <<>> => HasBlank(message) /\ dest = Destination(Asked)
  /\ up # "off" => Asked.method = "CONNECT"
  /\ gotReq # <<>> => Asked.method # "CONNECT"

(* Whenever the target answers, and however little of the message the one  *)
(* read has caught: what the client of a plain exchange is handed is a     *)
(* start of that answer, and by then the target has been given a text that *)
(* is, part by part, the request the session parsed and logs: its header   *)
(* with as much of the body as was parsed (session.rs:68-73,155-165,       *)
(* prelude.rs:81-135).                                                     *)
ReplyIsToLogged ==
  forwarded # <<>> =>
    /\ forwarded \in ReadsOf(answer, respSent)
    /\ gotReq # <<>> /\ PartsMakeText(request, gotReq)

(* What was parsed is what was read: first line, headers, separator and    *)
(* body make up initial_data again, except that the body of a CONNECT is   *)
(* dropped (prelude.rs:81-110,133-135).                                    *)
ReadIsParsed ==
  pc \in Points \ {"read", "log"} => PartsMakeText(request, initial_data)

(* Liveness.                                                               *)

(* Once the client has closed, the session ends unless the target holds    *)
(* its side open: what SessionsEnd of ProxyControl assumes of a session    *)
(* whose peers both hang up (FairSpec).                                    *)
AbandonedEnds ==
  clientClosed ~> (pc \in Finished \/ (connected /\ ~targetClosed))

(* With willing peers a plain exchange ends without either of them closing *)
(* when the single read of session_connect has caught the whole request    *)
(* (session.rs:68,155-174).  With the rest still to come it may not: no    *)
(* code forwards that rest, and a target need not answer a part.           *)
WholeRequestEnds ==
  WillingPeers => (pc = "plain_lock" /\ initial_data = message) ~> pc \in Finished
=============================================================================

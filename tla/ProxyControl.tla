---------------------------- MODULE ProxyControl ----------------------------
(***************************************************************************)
(* Starting and stopping the proxy.                                        *)
(*                                                                         *)
(* The UI thread owns two statics, PROXY_RUNNING and SHUTDOWN_SENDER       *)
(* (componts.rs).  Each start spawns a thread with a runtime of its own    *)
(* that executes http_proxy::entry: bind the listener, load the CA,        *)
(* subscribe to the shutdown broadcast, accept connections, and on the     *)
(* shutdown signal wait for every session before it returns.  The UI       *)
(* thread never waits for that thread, so clicks interleave with every     *)
(* await of entry.                                                         *)
(*                                                                         *)
(* A run is one such thread, numbered by the start click that made it.     *)
(* What a session does between accept and its end is abstracted to one     *)
(* step, SessionEnds (a panic in the task ends it too, its JoinHandle      *)
(* reports the failure and entry ignores it).  Log lines are left out.     *)
(***************************************************************************)
EXTENDS Naturals

CONSTANTS
  MaxRuns,   \* bound: how many times the user starts the proxy
  Conns,     \* client connections that may reach each run
  Ports,     \* host:port addresses the user may type
  BadPorts,  \* those no run can bind: malformed, or held by another program
  NoPort     \* the port of a run that was not started

ASSUME ControlAssumption ==
  /\ MaxRuns \in Nat
  /\ BadPorts \subseteq Ports
  /\ NoPort \notin Ports

VARIABLES
  running,   \* PROXY_RUNNING
  sender,    \* SHUTDOWN_SENDER: the run whose channel it holds, 0 for None
  started,   \* number of runs spawned so far
  pc,        \* where each run is in entry()
  port,      \* the address each run was given
  signal,    \* an unread () in the broadcast receiver of each run
  conn,      \* the client connections of each run
  handles    \* active_connections of each run

vars == <<running, sender, started, pc, port, signal, conn, handles>>

-----------------------------------------------------------------------------
Runs == 1..MaxRuns

(* "spawned": thread created, bind not done.  "bound": listening, the CA   *)
(* still being loaded.  "serving": in the select loop.  "draining": the    *)
(* signal was read, awaiting the sessions.  "returned" and "failed": entry *)
(* gave Ok or Err (or panicked), the runtime is still up.  "exited": the   *)
(* runtime is dropped and the thread gone.                                 *)
Stages == {"unused", "spawned", "bound", "serving", "draining",
           "returned", "failed", "exited"}

(* "queued": in the backlog of the listener.  "reset": the listener went   *)
(* away first.  "cut": the session task was dropped with its runtime.      *)
ConnStates == {"absent", "queued", "active", "done", "reset", "cut"}

TypeOK ==
  /\ running \in BOOLEAN
  /\ sender \in 0..MaxRuns
  /\ started \in 0..MaxRuns
  /\ pc \in [Runs -> Stages]
  /\ port \in [Runs -> Ports \cup {NoPort}]
  /\ signal \in [Runs -> BOOLEAN]
  /\ conn \in [Runs -> [Conns -> ConnStates]]
  /\ handles \in [Runs -> SUBSET Conns]

(* The listener of entry() is a local: open from bind until entry returns. *)
Listening(r) == pc[r] \in {"bound", "serving", "draining"}

(* rx exists from subscribe() until entry returns.                         *)
Subscribed(r) == pc[r] \in {"serving", "draining"}

(* Dropping the listener resets the clients nobody accepted.               *)
DropListener(r) ==
  conn' = [conn EXCEPT ![r] =
             [c \in Conns |-> IF @[c] = "queued" THEN "reset" ELSE @[c]]]

Init ==
  /\ running = FALSE
  /\ sender = 0
  /\ started = 0
  /\ pc = [r \in Runs |-> "unused"]
  /\ port = [r \in Runs |-> NoPort]
  /\ signal = [r \in Runs |-> FALSE]
  /\ conn = [r \in Runs |-> [c \in Conns |-> "absent"]]
  /\ handles = [r \in Runs |-> {}]

-----------------------------------------------------------------------------
(* UI thread: the two branches of the handle_event callback.               *)

(* Variant the runs must tell from Stop: the flag is left up.              *)
StopKeepsFlag ==
  /\ running
  /\ signal' = [r \in Runs |-> \/ signal[r]
                               \/ r = sender /\ Subscribed(r)]
  /\ UNCHANGED <<running, sender, started, pc, port, conn, handles>>

(* send() is refused, and the refusal ignored, when no receiver has        *)
(* subscribed: nothing is kept for one that subscribes later.              *)
Stop ==
  /\ running
  /\ running' = FALSE
  /\ signal' = [r \in Runs |-> \/ signal[r]
                               \/ r = sender /\ Subscribed(r)]
  /\ UNCHANGED <<sender, started, pc, port, conn, handles>>

(* Variant of Start: the sender of the first run is kept.                  *)
StartKeepsSender(p) ==
  /\ ~running
  /\ started < MaxRuns
  /\ running' = TRUE
  /\ started' = started + 1
  /\ sender' = IF sender = 0 THEN started + 1 ELSE sender
  /\ pc' = [pc EXCEPT ![started + 1] = "spawned"]
  /\ port' = [port EXCEPT ![started + 1] = p]
  /\ UNCHANGED <<signal, conn, handles>>

Start(p) ==
  /\ ~running
  /\ started < MaxRuns
  /\ running' = TRUE
  /\ started' = started + 1
  /\ sender' = started + 1
  /\ pc' = [pc EXCEPT ![started + 1] = "spawned"]
  /\ port' = [port EXCEPT ![started + 1] = p]
  /\ UNCHANGED <<signal, conn, handles>>

HandleEvent(p) == Stop \/ Start(p)

-----------------------------------------------------------------------------
(* The thread of run r, inside entry().                                    *)

BindOk(r) ==
  /\ pc[r] = "spawned"
  /\ port[r] \notin BadPorts
  /\ \A q \in Runs : Listening(q) => port[q] # port[r]
  /\ pc' = [pc EXCEPT ![r] = "bound"]
  /\ UNCHANGED <<running, sender, started, port, signal, conn, handles>>

(* bind fails: entry returns Err, PROXY_RUNNING is left as it is.          *)
BindErr(r) ==
  /\ pc[r] = "spawned"
  /\ \/ port[r] \in BadPorts
     \/ \E q \in Runs : Listening(q) /\ port[q] = port[r]
  /\ pc' = [pc EXCEPT ![r] = "failed"]
  /\ UNCHANGED <<running, sender, started, port, signal, conn, handles>>

(* The CA is ready; subscribe() follows without an await.                  *)
CertOk(r) ==
  /\ pc[r] = "bound"
  /\ pc' = [pc EXCEPT ![r] = "serving"]
  /\ UNCHANGED <<running, sender, started, port, signal, conn, handles>>

CertErr(r) ==
  /\ pc[r] = "bound"
  /\ pc' = [pc EXCEPT ![r] = "failed"]
  /\ DropListener(r)
  /\ UNCHANGED <<running, sender, started, port, signal, handles>>

(* Variants of Accept: also while draining; the handle is not kept.        *)
AcceptWhileDraining(r, c) ==
  /\ Subscribed(r)
  /\ conn[r][c] = "queued"
  /\ conn' = [conn EXCEPT ![r][c] = "active"]
  /\ handles' = [handles EXCEPT ![r] = @ \cup {c}]
  /\ UNCHANGED <<running, sender, started, pc, port, signal>>

AcceptForgetsHandle(r, c) ==
  /\ pc[r] = "serving"
  /\ conn[r][c] = "queued"
  /\ conn' = [conn EXCEPT ![r][c] = "active"]
  /\ UNCHANGED <<running, sender, started, pc, port, signal, handles>>

(* select!: the accept branch.  The session task is spawned and its handle *)
(* pushed in the same step.                                                *)
Accept(r, c) ==
  /\ pc[r] = "serving"
  /\ conn[r][c] = "queued"
  /\ conn' = [conn EXCEPT ![r][c] = "active"]
  /\ handles' = [handles EXCEPT ![r] = @ \cup {c}]
  /\ UNCHANGED <<running, sender, started, pc, port, signal>>

(* Variant of RecvShutdown: the loop goes on (no break).                   *)
RecvNoBreak(r) ==
  /\ pc[r] = "serving"
  /\ signal[r]
  /\ signal' = [signal EXCEPT ![r] = FALSE]
  /\ UNCHANGED <<running, sender, started, pc, port, conn, handles>>

(* select!: the rx.recv() branch.                                          *)
RecvShutdown(r) ==
  /\ pc[r] = "serving"
  /\ signal[r]
  /\ signal' = [signal EXCEPT ![r] = FALSE]
  /\ pc' = [pc EXCEPT ![r] = "draining"]
  /\ UNCHANGED <<running, sender, started, port, conn, handles>>

(* Variants of Return: at once; the listener outlives entry.               *)
ReturnAtOnce(r) ==
  /\ pc[r] = "draining"
  /\ pc' = [pc EXCEPT ![r] = "returned"]
  /\ DropListener(r)
  /\ UNCHANGED <<running, sender, started, port, signal, handles>>

ReturnKeepsListener(r) ==
  /\ pc[r] = "draining"
  /\ \A c \in handles[r] : conn[r][c] # "active"
  /\ pc' = [pc EXCEPT ![r] = "returned"]
  /\ UNCHANGED <<running, sender, started, port, signal, conn, handles>>

(* Every handle has been awaited; entry returns and drops the listener.    *)
Return(r) ==
  /\ pc[r] = "draining"
  /\ \A c \in handles[r] : conn[r][c] # "active"
  /\ pc' = [pc EXCEPT ![r] = "returned"]
  /\ DropListener(r)
  /\ UNCHANGED <<running, sender, started, port, signal, handles>>

(* End of the thread closure: the runtime is dropped, and with it every    *)
(* task that is still on it.                                               *)
DropRuntime(r) ==
  /\ pc[r] \in {"returned", "failed"}
  /\ pc' = [pc EXCEPT ![r] = "exited"]
  /\ conn' = [conn EXCEPT ![r] =
                [c \in Conns |-> IF @[c] = "active" THEN "cut" ELSE @[c]]]
  /\ UNCHANGED <<running, sender, started, port, signal, handles>>

-----------------------------------------------------------------------------
(* Clients and session tasks.                                              *)

(* The kernel completes a connection as long as the listener is open,      *)
(* whether or not entry is in its accept loop.                             *)
ClientConnects(r, c) ==
  /\ Listening(r)
  /\ conn[r][c] = "absent"
  /\ conn' = [conn EXCEPT ![r][c] = "queued"]
  /\ UNCHANGED <<running, sender, started, pc, port, signal, handles>>

SessionEnds(r, c) ==
  /\ conn[r][c] = "active"
  /\ conn' = [conn EXCEPT ![r][c] = "done"]
  /\ UNCHANGED <<running, sender, started, pc, port, signal, handles>>

-----------------------------------------------------------------------------
Launch(r) == BindOk(r) \/ BindErr(r) \/ CertOk(r) \/ CertErr(r)
Teardown(r) == Return(r) \/ DropRuntime(r)

RunStep(r) ==
  \/ Launch(r)
  \/ RecvShutdown(r)
  \/ Teardown(r)
  \/ \E c \in Conns : Accept(r, c) \/ ClientConnects(r, c) \/ SessionEnds(r, c)

Next ==
  \/ \E p \in Ports : HandleEvent(p)
  \/ \E r \in Runs : RunStep(r)

Spec == Init /\ [][Next]_vars

(* What the operating system and tokio schedule by themselves: the thread  *)
(* makes progress, and select! picks among its ready branches at random,   *)
(* so a branch that stays ready is taken.  Neither the user nor the        *)
(* clients owe a step.                                                     *)
Scheduling ==
  \A r \in Runs :
    /\ WF_vars(Launch(r))
    /\ WF_vars(RecvShutdown(r))
    /\ WF_vars(Teardown(r))
    /\ \A c \in Conns : WF_vars(Accept(r, c))

(* The environment in which every client and server closes its side some   *)
(* day, so that each session ends.                                         *)
SessionsEnd == \A r \in Runs : \A c \in Conns : WF_vars(SessionEnds(r, c))

FairSpec == Spec /\ Scheduling
CooperativeSpec == FairSpec /\ SessionsEnd

-----------------------------------------------------------------------------
(* Safety.                                                                 *)

(* The wait in entry() covers every session it ever spawned, so dropping   *)
(* the runtime never cuts one short (http_proxy.rs:94-97,                  *)
(* componts.rs:229-236).                                                   *)
NoSessionCut == \A r \in Runs : \A c \in Conns : conn[r][c] # "cut"

(* While PROXY_RUNNING is up, the run started last is not being shut down: *)
(* no signal waits for it and it is not draining.  A stale signal meant    *)
(* for an earlier run never reaches the one the flag speaks of.            *)
NoUnaskedShutdown ==
  running => /\ ~signal[started]
             /\ pc[started] \notin {"draining", "returned"}

(* A stop pressed while the run started last is accepting is delivered to  *)
(* it, however many runs were started before (componts.rs:213-218).        *)
StopReachesLatest ==
  [][(running /\ ~running' /\ pc[started] = "serving") => signal'[started]]_vars

(* Once a run has read its signal it takes no connection any more.         *)
NoLateSession ==
  [][\A r \in Runs : \A c \in Conns :
       (conn[r][c] # "active" /\ conn'[r][c] = "active")
         => pc[r] = "serving" /\ pc'[r] = "serving"]_vars

(* Stops that come at any await of a run, are lost, or meet runs that      *)
(* start, drain and fail beside it: to its user and its clients the        *)
(* program is a ProxyService all the same (componts.rs:204-246,            *)
(* http_proxy.rs:30-106).                                                  *)
LifeOf(stage) ==
  CASE stage = "unused" -> "unborn"
    [] stage \in {"spawned", "bound", "serving"} -> "open"
    [] stage = "draining" -> "closing"
    [] OTHER -> "gone"
SessionOf(state) == IF state \in {"absent", "queued", "reset"} THEN "none" ELSE state

Service == INSTANCE ProxyService WITH
  wanted <- running, born <- started,
  life <- [r \in Runs |-> LifeOf(pc[r])],
  session <- [r \in Runs |-> [c \in Conns |-> SessionOf(conn[r][c])]]
ServiceSpec == Service!Spec

(* The strengthening that makes the two invariants inductive.              *)
SenderIsLatest == sender = started
FreshRuns ==
  \A r \in Runs : r > started => /\ pc[r] = "unused"
                                 /\ ~signal[r]
SessionsHeld ==
  \A r \in Runs : \A c \in Conns :
    conn[r][c] = "active" => /\ c \in handles[r]
                             /\ pc[r] \in {"serving", "draining"}
RunningHasRun == running => started > 0

ControlInv ==
  /\ TypeOK
  /\ SenderIsLatest
  /\ FreshRuns
  /\ RunningHasRun
  /\ SessionsHeld
  /\ NoSessionCut
  /\ NoUnaskedShutdown

-----------------------------------------------------------------------------
(* Liveness.                                                               *)

(* A signal that did reach a receiver ends its run: the loop reads it, the *)
(* sessions finish, the runtime is dropped (CooperativeSpec).              *)
SignalledRunExits == \A r \in Runs : signal[r] ~> pc[r] = "exited"

(* A client whose connection the kernel accepted is served or reset in the *)
(* end, even when it arrives while the run is draining (CooperativeSpec).  *)
QueuedClientAnswered ==
  \A r \in Runs : \A c \in Conns :
    conn[r][c] = "queued" ~> conn[r][c] # "queued"

(* "Stop the proxy" (componts.rs:212): once the user has stopped it and    *)
(* leaves it so, no run keeps serving.                                     *)
StopStops ==
  \A r \in Runs : ~running ~> (running \/ pc[r] # "serving")
=============================================================================

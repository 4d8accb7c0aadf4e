------------------------- MODULE ProxyControlProofs -------------------------
(***************************************************************************)
(* Proofs about ProxyControl, for any number of runs, connections and      *)
(* ports.  ControlInv is inductive: NoUnaskedShutdown needs to know that   *)
(* the sender is the latest run's and that runs not yet started are        *)
(* untouched; NoSessionCut needs that a live session is always held by     *)
(* active_connections of a run that is serving or draining.  The proxy     *)
(* page adds its own state to these runs and takes nothing from them.      *)
(***************************************************************************)
EXTENDS ProxyPage, TLAPS

LEMMA InitControl == Init => ControlInv
<1> SUFFICES ASSUME Init PROVE ControlInv
  OBVIOUS
<1>1. 0 \in 0..MaxRuns
  BY ControlAssumption
<1>2. TypeOK
  BY <1>1 DEF Init, TypeOK, Runs, Stages, ConnStates
<1>3. SenderIsLatest /\ FreshRuns /\ RunningHasRun
  BY DEF Init, SenderIsLatest, FreshRuns, RunningHasRun
<1>4. SessionsHeld /\ NoSessionCut
  BY DEF Init, SessionsHeld, NoSessionCut
<1>5. NoUnaskedShutdown
  BY DEF Init, NoUnaskedShutdown
<1>6. QED
  BY <1>2, <1>3, <1>4, <1>5 DEF ControlInv

(* A step of the UI thread keeps the invariant.                            *)
LEMMA HandleEventKeeps ==
  ASSUME ControlInv, NEW p \in Ports, HandleEvent(p)
  PROVE  ControlInv'
<1> USE ControlAssumption DEF ControlInv, TypeOK, Runs, Stages, ConnStates
<1>1. CASE Stop
  BY <1>1 DEF Stop, Subscribed, SenderIsLatest, FreshRuns, RunningHasRun,
              SessionsHeld, NoSessionCut, NoUnaskedShutdown
<1>2. CASE Start(p)
  <2>1. started + 1 \in 1..MaxRuns /\ started' = started + 1
    BY <1>2 DEF Start
  <2>2. TypeOK'
    BY <1>2, <2>1 DEF Start
  <2>3. (SenderIsLatest /\ FreshRuns /\ RunningHasRun)'
    BY <1>2, <2>1 DEF Start, SenderIsLatest, FreshRuns, RunningHasRun
  <2>4. (SessionsHeld /\ NoSessionCut)'
    BY <1>2, <2>1 DEF Start, SessionsHeld, NoSessionCut, FreshRuns
  <2>5. NoUnaskedShutdown'
    BY <1>2, <2>1 DEF Start, NoUnaskedShutdown, FreshRuns
  <2>6. QED
    BY <2>2, <2>3, <2>4, <2>5
<1>3. QED
  BY <1>1, <1>2 DEF HandleEvent

(* A step of the thread of a run, of its clients or of its sessions keeps  *)
(* the invariant.                                                          *)
LEMMA RunStepKeeps ==
  ASSUME ControlInv, NEW r \in Runs, RunStep(r)
  PROVE  ControlInv'
<1> USE ControlAssumption DEF ControlInv, TypeOK, Stages, ConnStates
<1> USE DEF SenderIsLatest, FreshRuns, RunningHasRun, SessionsHeld,
            NoSessionCut, NoUnaskedShutdown, Runs
<1>1. CASE BindOk(r)
  BY <1>1 DEF BindOk
<1>2. CASE BindErr(r)
  BY <1>2 DEF BindErr
<1>3. CASE CertOk(r)
  BY <1>3 DEF CertOk
<1>4. CASE CertErr(r)
  BY <1>4 DEF CertErr, DropListener
<1>5. CASE RecvShutdown(r)
  BY <1>5 DEF RecvShutdown
<1>6. CASE Return(r)
  BY <1>6 DEF Return, DropListener
<1>7. CASE DropRuntime(r)
  BY <1>7 DEF DropRuntime
<1>8. ASSUME NEW c \in Conns, Accept(r, c)
      PROVE  ControlInv'
  BY <1>8 DEF Accept
<1>9. ASSUME NEW c \in Conns, ClientConnects(r, c)
      PROVE  ControlInv'
  BY <1>9 DEF ClientConnects
<1>10. ASSUME NEW c \in Conns, SessionEnds(r, c)
       PROVE  ControlInv'
  BY <1>10 DEF SessionEnds
<1>11. QED
  BY <1>1, <1>2, <1>3, <1>4, <1>5, <1>6, <1>7, <1>8, <1>9, <1>10
     DEF RunStep, Launch, Teardown

(* ControlInv holds in every reachable state of every instance.            *)
THEOREM ControlInvariant == Spec => []ControlInv
<1>1. ControlInv /\ [Next]_vars => ControlInv'
  <2> SUFFICES ASSUME ControlInv, [Next]_vars
               PROVE  ControlInv'
    OBVIOUS
  <2>1. CASE UNCHANGED vars
    BY <2>1 DEF vars, ControlInv, TypeOK, SenderIsLatest, FreshRuns,
                RunningHasRun, SessionsHeld, NoSessionCut, NoUnaskedShutdown
  <2>2. ASSUME NEW p \in Ports, HandleEvent(p)
        PROVE  ControlInv'
    BY <2>2, HandleEventKeeps
  <2>3. ASSUME NEW r \in Runs, RunStep(r)
        PROVE  ControlInv'
    BY <2>3, RunStepKeeps
  <2>4. QED
    BY <2>1, <2>2, <2>3 DEF Next
<1>2. QED
  BY InitControl, <1>1, PTL DEF Spec

(* Tearing down a runtime never cuts a session short.                      *)
THEOREM SessionsSurviveTeardown == Spec => []NoSessionCut
<1>1. ControlInv => NoSessionCut
  BY DEF ControlInv
<1>2. QED
  BY ControlInvariant, <1>1, PTL

(* The run PROXY_RUNNING speaks of is never being shut down.               *)
THEOREM ShutdownOnlyOnStop == Spec => []NoUnaskedShutdown
<1>1. ControlInv => NoUnaskedShutdown
  BY DEF ControlInv
<1>2. QED
  BY ControlInvariant, <1>1, PTL

(* A stop reaches the run started last whenever that run is accepting.     *)
THEOREM StopIsDelivered == Spec => StopReachesLatest
<1> DEFINE Delivered ==
      (running /\ ~running' /\ pc[started] = "serving") => signal'[started]
<1>1. ControlInv /\ [Next]_vars => [Delivered]_vars
  <2> SUFFICES ASSUME ControlInv, Next, running, ~running',
                      pc[started] = "serving"
               PROVE  signal'[started]
    OBVIOUS
  <2>1. Stop
    <3>1. ASSUME NEW p \in Ports, HandleEvent(p)
          PROVE  Stop
      BY <3>1 DEF HandleEvent, Start
    <3>2. ASSUME NEW r \in Runs, RunStep(r)
          PROVE  FALSE
      BY <3>2 DEF RunStep, Launch, Teardown, BindOk, BindErr, CertOk, CertErr,
                  RecvShutdown, Return, DropRuntime, Accept, ClientConnects,
                  SessionEnds
    <3>3. QED
      BY <3>1, <3>2 DEF Next
  <2>2. sender = started /\ started \in Runs
    BY ControlAssumption
       DEF ControlInv, TypeOK, SenderIsLatest, RunningHasRun, Runs
  <2>3. QED
    BY <2>1, <2>2 DEF Stop, Subscribed
<1>2. QED
  BY ControlInvariant, <1>1, PTL DEF Spec, StopReachesLatest

(* A run that has read its signal takes no connection any more.            *)
THEOREM DrainingTakesNone == Spec => NoLateSession
<1> DEFINE Guarded ==
      \A r \in Runs : \A c \in Conns :
        (conn[r][c] # "active" /\ conn'[r][c] = "active")
          => pc[r] = "serving" /\ pc'[r] = "serving"
<1>1. ControlInv /\ [Next]_vars => [Guarded]_vars
  <2> SUFFICES ASSUME ControlInv, Next,
                      NEW r \in Runs, NEW c \in Conns,
                      conn[r][c] # "active", conn'[r][c] = "active"
               PROVE  pc[r] = "serving" /\ pc'[r] = "serving"
    OBVIOUS
  <2> USE DEF ControlInv, TypeOK
  <2>1. ASSUME NEW p \in Ports, HandleEvent(p)
        PROVE  FALSE
    BY <2>1 DEF HandleEvent, Start, Stop
  <2>2. ASSUME NEW q \in Runs, RunStep(q)
        PROVE  pc[r] = "serving" /\ pc'[r] = "serving"
    <3>1. CASE Launch(q)
      BY <2>2, <3>1 DEF Launch, BindOk, BindErr, CertOk, CertErr, DropListener
    <3>2. CASE RecvShutdown(q)
      BY <3>2 DEF RecvShutdown
    <3>3. CASE Teardown(q)
      BY <3>3 DEF Teardown, Return, DropRuntime, DropListener
    <3>4. ASSUME NEW d \in Conns, Accept(q, d)
          PROVE  pc[r] = "serving" /\ pc'[r] = "serving"
      BY <3>4 DEF Accept
    <3>5. ASSUME NEW d \in Conns, ClientConnects(q, d) \/ SessionEnds(q, d)
          PROVE  FALSE
      BY <3>5 DEF ClientConnects, SessionEnds
    <3>6. QED
      BY <2>2, <3>1, <3>2, <3>3, <3>4, <3>5 DEF RunStep
  <2>3. QED
    BY <2>1, <2>2 DEF Next
<1>2. QED
  BY ControlInvariant, <1>1, PTL DEF Spec, NoLateSession

-----------------------------------------------------------------------------
(* The abstract service.                                                   *)

(* A run that does not accept yet has admitted nobody.                     *)
Untaken ==
  \A r \in Runs : pc[r] \in {"unused", "spawned", "bound"} =>
    \A c \in Conns : conn[r][c] \in {"absent", "queued"}

LEMMA StepKeepsUntaken ==
  ASSUME ControlInv, Untaken, [Next]_vars
  PROVE  Untaken'
<1> USE DEF ControlInv, TypeOK, Untaken
<1>1. CASE UNCHANGED vars
  BY <1>1 DEF vars
<1>2. ASSUME NEW p \in Ports, HandleEvent(p) PROVE Untaken'
  BY <1>2 DEF HandleEvent, Stop, Start, FreshRuns
<1>3. ASSUME NEW r \in Runs, RunStep(r) PROVE Untaken'
  <2>1. CASE Launch(r)
    BY <1>3, <2>1 DEF Launch, BindOk, BindErr, CertOk, CertErr, DropListener
  <2>2. CASE RecvShutdown(r) \/ Teardown(r)
    BY <1>3, <2>2 DEF RecvShutdown, Teardown, Return, DropRuntime, DropListener
  <2>3. ASSUME NEW c \in Conns, Accept(r, c) \/ ClientConnects(r, c) \/ SessionEnds(r, c)
        PROVE  Untaken'
    BY <1>3, <2>3 DEF Accept, ClientConnects, SessionEnds
  <2>4. QED
    BY <1>3, <2>1, <2>2, <2>3 DEF RunStep
<1>4. QED
  BY <1>1, <1>2, <1>3 DEF Next

(* What the service sees of a step of ProxyControl.                        *)
Lives == [r \in Runs |-> LifeOf(pc[r])]
Sessions == [r \in Runs |-> [c \in Conns |-> SessionOf(conn[r][c])]]

LEMMA ClicksAreService ==
  ASSUME ControlInv, NEW p \in Ports, HandleEvent(p)
  PROVE  Service!Start \/ Service!Stop
<1> USE DEF ControlInv, TypeOK
<1>1. CASE Stop
  BY <1>1 DEF Stop, Service!Stop
<1>2. CASE Start(p)
  <2>1. started + 1 \in Runs
    BY <1>2, ControlAssumption DEF Start, Runs
  <2>2. Lives' = [Lives EXCEPT ![started + 1] = "open"]
    BY <1>2, <2>1 DEF Start, Lives, LifeOf
  <2>3. Sessions' = Sessions
    BY <1>2 DEF Start, Sessions
  <2>4. QED
    BY <1>2, <2>1, <2>2, <2>3 DEF Start, Service!Start, Lives, Sessions
<1>3. QED
  BY <1>1, <1>2 DEF HandleEvent

(* Dropping the listener or the runtime changes nothing a client was       *)
(* promised.                                                               *)
LEMMA DropsHidden ==
  ASSUME ControlInv, NEW r \in Runs, pc[r] \notin {"serving", "draining"} \/ Return(r),
         DropListener(r) \/ DropRuntime(r)
  PROVE  Sessions' = Sessions
<1> USE DEF ControlInv, TypeOK
<1>1. conn' \in [Runs -> [Conns -> ConnStates]]
  BY DEF DropListener, DropRuntime, ConnStates
<1>2. ASSUME NEW q \in Runs, NEW c \in Conns
      PROVE  SessionOf(conn'[q][c]) = SessionOf(conn[q][c])
  BY <1>2 DEF DropListener, DropRuntime, SessionOf, SessionsHeld
<1>3. QED
  BY <1>2 DEF Sessions

LEMMA LaunchIsService ==
  ASSUME ControlInv, Untaken, NEW r \in Runs, Launch(r)
  PROVE  Service!Leave(r) \/ UNCHANGED Service!service
<1> USE DEF ControlInv, TypeOK
<1>1. CASE BindOk(r) \/ CertOk(r)
  <2>1. Lives' = Lives
    BY <1>1 DEF BindOk, CertOk, Lives, LifeOf
  <2>2. QED
    BY <1>1, <2>1 DEF BindOk, CertOk, Lives, Service!service
<1>2. CASE BindErr(r) \/ CertErr(r)
  <2>1. /\ pc[r] \in {"spawned", "bound"} /\ pc' = [pc EXCEPT ![r] = "failed"]
        /\ UNCHANGED <<running, started>>
    BY <1>2 DEF BindErr, CertErr
  <2>2. Lives[r] = "open" /\ Lives' = [Lives EXCEPT ![r] = "gone"]
    BY <2>1 DEF Lives, LifeOf
  <2>3. Sessions' = Sessions
    BY <1>2, <2>1, DropsHidden DEF BindErr, CertErr, Sessions
  <2>4. \A c \in Conns : Sessions[r][c] = "none"
    BY <2>1 DEF Untaken, Sessions, SessionOf
  <2>5. QED
    BY <2>1, <2>2, <2>3, <2>4 DEF Service!Leave, Lives, Sessions
<1>3. QED
  BY <1>1, <1>2 DEF Launch

LEMMA EndingIsService ==
  ASSUME ControlInv, NEW r \in Runs, RecvShutdown(r) \/ Teardown(r)
  PROVE  Service!Close(r) \/ Service!Leave(r) \/ UNCHANGED Service!service
<1> USE DEF ControlInv, TypeOK
<1>1. CASE RecvShutdown(r)
  <2>1. Lives[r] = "open" /\ Lives' = [Lives EXCEPT ![r] = "closing"]
    BY <1>1 DEF RecvShutdown, Lives, LifeOf
  <2>2. running => r # started
    BY <1>1 DEF RecvShutdown, NoUnaskedShutdown
  <2>3. QED
    BY <1>1, <2>1, <2>2 DEF RecvShutdown, Service!Close, Lives
<1>2. CASE Return(r)
  <2>1. Lives[r] = "closing" /\ Lives' = [Lives EXCEPT ![r] = "gone"]
    BY <1>2 DEF Return, Lives, LifeOf
  <2>2. Sessions' = Sessions
    BY <1>2, DropsHidden DEF Return
  <2>3. \A c \in Conns : Sessions[r][c] # "active"
    BY <1>2 DEF Return, SessionsHeld, Sessions, SessionOf
  <2>4. QED
    BY <1>2, <2>1, <2>2, <2>3 DEF Return, Service!Leave, Lives, Sessions
<1>3. CASE DropRuntime(r)
  <2>1. Lives' = Lives
    BY <1>3 DEF DropRuntime, Lives, LifeOf
  <2>2. Sessions' = Sessions
    BY <1>3, DropsHidden DEF DropRuntime
  <2>3. QED
    BY <1>3, <2>1, <2>2 DEF DropRuntime, Service!service, Lives, Sessions
<1>4. QED
  BY <1>1, <1>2, <1>3 DEF Teardown

LEMMA ClientsAreService ==
  ASSUME ControlInv, NEW r \in Runs, NEW c \in Conns,
         Accept(r, c) \/ ClientConnects(r, c) \/ SessionEnds(r, c)
  PROVE  Service!Admit(r, c) \/ Service!Finish(r, c) \/ UNCHANGED Service!service
<1> USE DEF ControlInv, TypeOK
<1>1. CASE Accept(r, c)
  <2>1. Lives[r] = "open" /\ Lives' = Lives
    BY <1>1 DEF Accept, Lives, LifeOf
  <2>2. Sessions[r][c] = "none" /\ Sessions' = [Sessions EXCEPT ![r][c] = "active"]
    BY <1>1 DEF Accept, Sessions, SessionOf
  <2>3. QED
    BY <1>1, <2>1, <2>2 DEF Accept, Service!Admit, Lives, Sessions
<1>2. CASE ClientConnects(r, c)
  <2>1. Sessions' = Sessions
    BY <1>2 DEF ClientConnects, Sessions, SessionOf
  <2>2. QED
    BY <1>2, <2>1 DEF ClientConnects, Service!service, Sessions
<1>3. CASE SessionEnds(r, c)
  <2>1. Sessions[r][c] = "active" /\ Sessions' = [Sessions EXCEPT ![r][c] = "done"]
    BY <1>3 DEF SessionEnds, Sessions, SessionOf
  <2>2. QED
    BY <1>3, <2>1 DEF SessionEnds, Service!Finish, Sessions
<1>4. QED
  BY <1>1, <1>2, <1>3

(* Whatever the interleaving of clicks with the awaits of the runs, the    *)
(* program is the service (componts.rs:204-246, http_proxy.rs:30-106).     *)
THEOREM ControlIsService == Spec => ServiceSpec
<1>1. Init => Service!Init /\ Untaken
  BY DEF Init, Service!Init, LifeOf, SessionOf, Untaken
<1>2. ControlInv /\ Untaken /\ [Next]_vars => [Service!Next]_(Service!service)
  <2> SUFFICES ASSUME ControlInv, Untaken, [Next]_vars
               PROVE  [Service!Next]_(Service!service)
    OBVIOUS
  <2>1. CASE UNCHANGED vars
    BY <2>1 DEF vars, Service!service
  <2>2. ASSUME NEW p \in Ports, HandleEvent(p)
        PROVE  [Service!Next]_(Service!service)
    BY <2>2, ClicksAreService DEF Service!Next
  <2>3. ASSUME NEW r \in Runs, RunStep(r)
        PROVE  [Service!Next]_(Service!service)
    <3>1. CASE Launch(r) \/ RecvShutdown(r) \/ Teardown(r)
      BY <3>1, LaunchIsService, EndingIsService DEF Service!Next
    <3>2. ASSUME NEW c \in Conns, Accept(r, c) \/ ClientConnects(r, c) \/ SessionEnds(r, c)
          PROVE  [Service!Next]_(Service!service)
      BY <3>2, ClientsAreService DEF Service!Next
    <3>3. QED
      BY <2>3, <3>1, <3>2 DEF RunStep
  <2>4. QED
    BY <2>1, <2>2, <2>3 DEF Next
<1>3. ControlInv /\ Untaken /\ [Next]_vars => Untaken'
  BY StepKeepsUntaken
<1>4. QED
  BY <1>1, <1>2, <1>3, ControlInvariant, PTL DEF Spec, ServiceSpec, Service!Spec

-----------------------------------------------------------------------------
(* The page.  Its clicks are those of the protocol, so all of the above    *)
(* holds under it (Home.slint:149-157).                                    *)
THEOREM PageKeepsControl == PageSpec => Spec
<1>1. PageInit => Init
  BY DEF PageInit
<1>2. [PageNext]_pvars => [Next]_vars
  BY DEF PageNext, ClickButton, KeyButton, ShowPage, ShowContent, Next, pvars
<1>3. QED
  BY <1>1, <1>2, PTL DEF PageSpec, Spec

(* A click turns PROXY_RUNNING over, and nothing but a click moves it.     *)
LEMMA ClickFlips ==
  ASSUME ControlInv, NEW p \in Ports, HandleEvent(p)
  PROVE  running' = ~running /\ running \in BOOLEAN
  BY DEF HandleEvent, Stop, Start, ControlInv, TypeOK

LEMMA RunsKeepFlag ==
  ASSUME NEW r \in Runs, RunStep(r)
  PROVE  running' = running
  BY DEF RunStep, Launch, Teardown, BindOk, BindErr, CertOk, CertErr,
         RecvShutdown, Return, DropRuntime, Accept, ClientConnects, SessionEnds

(* What makes it inductive: the home view always opens on another page, so *)
(* coming back to the button takes a ShowPage, which notes a running proxy.*)
LabelInv ==
  /\ contenttype \in Contents /\ active_name \in Pages
  /\ bt \in BOOLEAN /\ slipped \in BOOLEAN
  /\ ~ButtonVisible => ~bt
  /\ ~HomeVisible => active_name = "connections"
  /\ WrongLabelHasCause

LEMMA PageStepKeepsLabel ==
  ASSUME ControlInv, LabelInv, [PageNext]_pvars
  PROVE  LabelInv'
<1> USE DEF LabelInv, WrongLabelHasCause, ButtonVisible, HomeVisible
<1>0. running \in BOOLEAN
  BY DEF ControlInv, TypeOK
<1>1. ASSUME NEW p \in Ports, ClickButton(p)
      PROVE  LabelInv'
  BY <1>1, ClickFlips DEF ClickButton
<1>2. ASSUME NEW p \in Ports, KeyButton(p)
      PROVE  LabelInv'
  BY <1>2 DEF KeyButton
<1>3. ASSUME NEW n \in Pages, ShowPage(n)
      PROVE  LabelInv'
  BY <1>0, <1>3 DEF ShowPage, vars
<1>4. ASSUME NEW c \in Contents, ShowContent(c)
      PROVE  LabelInv'
  BY <1>4 DEF ShowContent, Pages, vars
<1>5. ASSUME NEW r \in Runs, RunStep(r), UNCHANGED page
      PROVE  LabelInv'
  BY <1>5, RunsKeepFlag DEF page
<1>6. CASE UNCHANGED pvars
  BY <1>6 DEF pvars, page, vars
<1>7. QED
  BY <1>1, <1>2, <1>3, <1>4, <1>5, <1>6 DEF PageNext

THEOREM LabelInvariant == PageSpec => []LabelInv
<1>1. PageInit => LabelInv
  BY DEF PageInit, Init, LabelInv, Contents, Pages, WrongLabelHasCause,
         ButtonVisible, HomeVisible
<1>2. PageSpec => []ControlInv
  BY PageKeepsControl, ControlInvariant, PTL
<1>3. QED
  BY <1>1, <1>2, PageStepKeepsLabel, PTL DEF PageSpec

(* The label of the button disagrees with PROXY_RUNNING only when the page *)
(* was opened over a running proxy, or after a click of the keyboard       *)
(* (Home.slint:82,149-157).                                                *)
THEOREM LabelFollowsFlag == PageSpec => []WrongLabelHasCause
<1>1. LabelInv => WrongLabelHasCause
  BY DEF LabelInv
<1>2. QED
  BY <1>1, LabelInvariant, PTL

(* Types, and no label outlives the button it is written on: bt is private *)
(* to an element that exists on the proxy page alone (Home.slint:81-82).   *)
THEOREM PageTypes == PageSpec => []PageTypeOK
<1>1. ControlInv /\ LabelInv => PageTypeOK
  BY DEF ControlInv, LabelInv, PageTypeOK
<1>2. PageSpec => []ControlInv
  BY PageKeepsControl, ControlInvariant, PTL
<1>3. QED
  BY <1>1, <1>2, LabelInvariant, PTL
=============================================================================

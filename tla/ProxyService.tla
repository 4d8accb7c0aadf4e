---------------------------- MODULE ProxyService ----------------------------
(***************************************************************************)
(* What starting and stopping the proxy promises its user and its clients. *)
(* Each start opens a run.  A run admits clients while it is open; it is   *)
(* closed only when the user asked for it: it is not the one started last, *)
(* or the proxy is not wanted any more.  A closed run admits nobody, sees  *)
(* every client it admitted to the end, and only then is gone.  A run that *)
(* could not be brought up goes without having admitted anybody.           *)
(***************************************************************************)
EXTENDS Naturals

CONSTANTS Runs, Conns

VARIABLES
  wanted,   \* what the user last asked for
  born,     \* the run started last
  life,     \* "unborn", "open", "closing" or "gone"
  session   \* of each client of a run: "none", "active" or "done"

service == <<wanted, born, life, session>>

Init ==
  /\ wanted = FALSE /\ born = 0
  /\ life = [r \in Runs |-> "unborn"]
  /\ session = [r \in Runs |-> [c \in Conns |-> "none"]]

Start ==
  /\ ~wanted /\ born + 1 \in Runs
  /\ wanted' = TRUE /\ born' = born + 1
  /\ life' = [life EXCEPT ![born + 1] = "open"]
  /\ UNCHANGED session

Stop == wanted /\ wanted' = FALSE /\ UNCHANGED <<born, life, session>>

Admit(r, c) ==
  /\ life[r] = "open" /\ session[r][c] = "none"
  /\ session' = [session EXCEPT ![r][c] = "active"]
  /\ UNCHANGED <<wanted, born, life>>

Finish(r, c) ==
  /\ session[r][c] = "active"
  /\ session' = [session EXCEPT ![r][c] = "done"]
  /\ UNCHANGED <<wanted, born, life>>

Close(r) ==
  /\ life[r] = "open"
  /\ wanted => r # born
  /\ life' = [life EXCEPT ![r] = "closing"]
  /\ UNCHANGED <<wanted, born, session>>

Leave(r) ==
  /\ \/ life[r] = "open" /\ \A c \in Conns : session[r][c] = "none"
     \/ life[r] = "closing" /\ \A c \in Conns : session[r][c] # "active"
  /\ life' = [life EXCEPT ![r] = "gone"]
  /\ UNCHANGED <<wanted, born, session>>

Next ==
  \/ Start \/ Stop
  \/ \E r \in Runs : Close(r) \/ Leave(r) \/ \E c \in Conns : Admit(r, c) \/ Finish(r, c)

Spec == Init /\ [][Next]_service
=============================================================================

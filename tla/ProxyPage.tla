----------------------------- MODULE ProxyPage -----------------------------
(***************************************************************************)
(* The proxy page of the home view (Home.slint) over ProxyControl: its     *)
(* start/stop button keeps a label of its own, the private property bt of  *)
(* a conditional element.  Slint creates such an element afresh each time  *)
(* its condition becomes true, so the label starts over whenever the user  *)
(* comes back to the page; PROXY_RUNNING does not.                         *)
(***************************************************************************)
EXTENDS ProxyControl

VARIABLES
  contenttype,  \* what the sidebar selected; "Create" removes the home view
  active_name,  \* the page of the home view
  bt,           \* TRUE: the button reads "stop the proxy"
  slipped       \* history: in this visit the page was opened over a running
                \* proxy, or the button was clicked without being pressed

page == <<contenttype, active_name, bt, slipped>>
pvars == <<vars, page>>

Contents == {"Home", "Create"}
Pages == {"connections", "payload", "proxy", "scan"}

HomeVisible == contenttype # "Create"
ButtonVisible == HomeVisible /\ active_name = "proxy"

PageTypeOK ==
  /\ TypeOK
  /\ contenttype \in Contents /\ active_name \in Pages
  /\ bt \in BOOLEAN /\ slipped \in BOOLEAN
  /\ ~ButtonVisible => ~bt

PageInit ==
  /\ Init
  /\ contenttype = "Home" /\ active_name = "connections"
  /\ bt = FALSE /\ slipped = FALSE

(* Variant of ClickButton: the label is set from the flag before the click.*)
ClickReadsFlagFirst(p) ==
  /\ ButtonVisible
  /\ HandleEvent(p)
  /\ bt' = running
  /\ UNCHANGED <<contenttype, active_name, slipped>>

(* A mouse click: handle_event, then the label is flipped.                 *)
ClickButton(p) ==
  /\ ButtonVisible
  /\ HandleEvent(p)
  /\ bt' = ~bt
  /\ UNCHANGED <<contenttype, active_name, slipped>>

(* The click of the keyboard: the button is not `pressed`, and the label   *)
(* is left as it is.                                                       *)
KeyButton(p) ==
  /\ ButtonVisible
  /\ HandleEvent(p)
  /\ slipped' = TRUE
  /\ UNCHANGED <<contenttype, active_name, bt>>

(* The buttons of the home view.  Leaving the page drops bt.               *)
ShowPage(n) ==
  /\ HomeVisible
  /\ active_name' = n
  /\ bt' = (bt /\ n = "proxy")
  /\ slipped' = IF n = "proxy" /\ active_name # "proxy" THEN running ELSE slipped
  /\ UNCHANGED <<vars, contenttype>>

(* The sidebar.  "Create" drops the home view, with the page it showed.    *)
ShowContent(c) ==
  /\ contenttype' = c
  /\ active_name' = IF c = "Create" THEN "connections" ELSE active_name
  /\ bt' = (bt /\ c # "Create")
  /\ UNCHANGED <<vars, slipped>>

PageNext ==
  \/ \E p \in Ports : ClickButton(p) \/ KeyButton(p)
  \/ \E n \in Pages : ShowPage(n)
  \/ \E c \in Contents : ShowContent(c)
  \/ (\E r \in Runs : RunStep(r)) /\ UNCHANGED page

PageSpec == PageInit /\ [][PageNext]_pvars

-----------------------------------------------------------------------------
(* The label is wrong only for one of two causes: in this visit the page   *)
(* was opened while the proxy was running, or the button was clicked       *)
(* without being pressed (Home.slint:82,149-157).  Whatever the runs do,   *)
(* mouse clicks alone keep the two flags, which share no code, in step:    *)
(* the button reads "stop" when its next click stops the proxy.            *)
WrongLabelHasCause == (ButtonVisible /\ bt # running) => slipped
=============================================================================

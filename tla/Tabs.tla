-------------------------------- MODULE Tabs --------------------------------
(***************************************************************************)
(* The tabs of the lower pane: add_tab and remove_tab (componts.rs) over   *)
(* the properties visible_tabs and active_tab (global.slint), and the tab  *)
(* buttons (BaseCompont.slint).  All of it runs on the UI thread.          *)
(***************************************************************************)
EXTENDS Naturals, Sequences, FiniteSets, SequencesExt

CONSTANTS
  EventLog,   \* the tab "Event Log"
  OtherTabs   \* names the menus may add

ASSUME TabsAssumption == EventLog \notin OtherTabs /\ IsFiniteSet(OtherTabs)

VARIABLES visible_tabs, active_tab

vars == <<visible_tabs, active_tab>>

Names == OtherTabs \cup {EventLog}
Shown == ToSet(visible_tabs)

TypeOK ==
  /\ visible_tabs \in Seq(Names) /\ Len(visible_tabs) <= Cardinality(Names)
  /\ active_tab \in Names

Init ==
  /\ visible_tabs = <<EventLog>>
  /\ active_tab = EventLog

(* Variant of AddTab: the name is not looked for first.                    *)
AddTabAgain(t) ==
  /\ Len(visible_tabs) < 2 * Cardinality(Names)
  /\ visible_tabs' = Append(visible_tabs, t)
  /\ active_tab' = t

(* A tab that is shown already is neither added nor activated.             *)
AddTab(t) ==
  /\ t \notin Shown
  /\ visible_tabs' = Append(visible_tabs, t)
  /\ active_tab' = t

(* The tab before the first occurrence of t, or the event log.             *)
LeftOf(t) ==
  LET at    == {i \in 1..Len(visible_tabs) : visible_tabs[i] = t}
      first == CHOOSE i \in at : \A j \in at : i <= j
  IN IF first > 1 THEN visible_tabs[first - 1] ELSE EventLog

(* The k-th least member of a set of numbers.                              *)
Nth(S, k) == CHOOSE i \in S : Cardinality({j \in S : j <= i}) = k

(* Those of a sequence of tabs other than t, in their order: the filter.   *)
Without(tabs, t) ==
  LET kept == {i \in 1..Len(tabs) : tabs[i] # t}
  IN [k \in 1..Cardinality(kept) |-> tabs[Nth(kept, k)]]

(* Variant of RemoveTab: the active tab is left as it is.                  *)
RemoveTabOnly(t) ==
  /\ t # EventLog
  /\ t \in Shown
  /\ visible_tabs' = Without(visible_tabs, t)
  /\ UNCHANGED active_tab

(* Variant of RemoveTab: the last tab is moved to the place of the removed *)
(* one, as swap_remove does.                                               *)
RemoveTabSwaps(t) ==
  /\ t # EventLog
  /\ t \in Shown
  /\ active_tab' = IF active_tab = t THEN LeftOf(t) ELSE active_tab
  /\ visible_tabs' = [i \in 1..(Len(visible_tabs) - 1) |->
                        IF visible_tabs[i] = t THEN visible_tabs[Len(visible_tabs)]
                        ELSE visible_tabs[i]]

(* The close icon of a tab button.                                         *)
RemoveTab(t) ==
  /\ t # EventLog
  /\ t \in Shown
  /\ active_tab' = IF active_tab = t THEN LeftOf(t) ELSE active_tab
  /\ visible_tabs' = Without(visible_tabs, t)

(* The click on a tab button.                                              *)
ButtonActive(t) ==
  /\ t \in Shown
  /\ active_tab' = t
  /\ UNCHANGED visible_tabs

Next == \E t \in Names : AddTab(t) \/ RemoveTab(t) \/ ButtonActive(t)

Spec == Init /\ [][Next]_vars

-----------------------------------------------------------------------------
(* The active tab is one of those shown, so that the pane is never blank   *)
(* with no button lit, and the event log is always reachable               *)
(* (componts.rs:275-296).                                                  *)
ActiveIsShown == active_tab \in Shown /\ EventLog \in Shown

(* No tab is shown twice (componts.rs:258-259): the close icon of one      *)
(* would remove both.                                                      *)
NoDoubleTab == IsInjective(visible_tabs)

Before(tabs, t, u) ==
  \E i, j \in 1..Len(tabs) : i < j /\ tabs[i] = t /\ tabs[j] = u

(* Whatever is clicked, all tabs but one at most stay on screen, and each  *)
(* stays to the left of those it was left of: the tab that closing the     *)
(* active one falls back to is the neighbour the user saw, however many    *)
(* were opened and closed before (componts.rs:263,281-302).                *)
OthersKeepPlace ==
  [][\E closed \in Names : \A t, u \in Shown \ {closed} :
       /\ t \in Shown'
       /\ Before(visible_tabs, t, u) => Before(visible_tabs', t, u)]_vars

(* ActiveIsShown and NoDoubleTab are inductive together with the types.    *)
TabsInv == TypeOK /\ ActiveIsShown /\ NoDoubleTab
=============================================================================

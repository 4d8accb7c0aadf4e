------------------------------ MODULE MCShell ------------------------------
(* Shell with a window of two rows, one of them its title bar, two events   *)
(* waiting and three tabs besides the event log.                            *)
EXTENDS Shell, TLC

(* No property of this run speaks of one of the three tabs in particular.   *)
MCTabsAlike == Permutations(OtherTabs)

(* Without is the library's filter, on every sequence of up to four tabs.   *)
ASSUME WithoutIsFilter ==
  \A n \in 0..4 : \A tabs \in [1..n -> Names], t \in Names :
    Without(tabs, t) = SelectSeq(tabs, LAMBDA u : u # t)
=============================================================================

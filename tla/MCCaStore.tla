----------------------------- MODULE MCCaStore -----------------------------
(* CaStore with two calls at a time and a program closed twice.            *)
EXTENDS CaStore, TLC

(* Calls are interchangeable.                                               *)
CallSymmetry == Permutations(Callers)
=============================================================================

----------------------------- MODULE MCCaTrust -----------------------------
(* CaTrust with two calls at a time and a program that is closed.           *)
EXTENDS CaTrust, TLC

(* Calls are interchangeable.                                               *)
CallSymmetry == Permutations(Callers)
=============================================================================

------------------------------- MODULE MCServer -------------------------------
(* Server with two interchangeable workers. *)
EXTENDS Server, TLC

CONSTANTS w1, w2

TwoWorkers == {w1, w2}

WorkerSymmetry == Permutations(TwoWorkers)
===============================================================================

--------------------------- MODULE MCBatchWindow ---------------------------
(* An instance of BatchWindow small enough for TLC. *)
EXTENDS BatchWindow, TLC

CONSTANTS t1, t2, s1, s2

\* Tasks and rounds are interchangeable.
WindowSymmetry == Permutations(Tasks) \cup Permutations(Rounds)
===============================================================================

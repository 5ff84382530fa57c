----------------------------- MODULE MCRelayFlow -----------------------------
(* Instances of RelayFlow small enough for TLC. *)
EXTENDS RelayFlow, TLC

CONSTANTS t1, t2, h1, h2, s1

\* Request handlers and workers are interchangeable.
HandlerSymmetry == Permutations(Procs \ Sweepers)
===============================================================================

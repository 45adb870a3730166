---------------------------- MODULE MC_Connection ----------------------------
(* Instantiates Connection for TLC: the constants get small values in the  *)
(* .cfg files, requests are model values and interchangeable.             *)
EXTENDS Connection, TLC

\* Two requests are interchangeable: which one is submitted first is
\* already a nondeterministic choice of the model.
ReqSymmetry == Permutations(Reqs)
=============================================================================

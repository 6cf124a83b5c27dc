----------------------------- MODULE MCIdentity -----------------------------
(* Identity on small instances: boxes, logins and requests are interchangeable. *)
EXTENDS Identity, TLC

Symmetry == Permutations(Boxes) \cup Permutations(Logins) \cup Permutations(Procs)
=============================================================================

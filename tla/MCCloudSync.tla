----------------------------- MODULE MCCloudSync -----------------------------
(* CloudSync on small instances. Everything is interchangeable, IDs of rows   *)
(* too: one is handed out once, in any order.                                *)
EXTENDS CloudSync, TLC

Symmetry == Permutations(Instances) \cup Permutations(Addresses) \cup Permutations(Procs)
               \cup Permutations(Machines) \cup Permutations(Accounts)
=============================================================================

------------------------------ MODULE MCBroker ------------------------------
(* Broker on small instances. Connections, and the goroutines that call the  *)
(* broker, are interchangeable: the safety runs use that symmetry.           *)
EXTENDS Broker, TLC

Symmetry == Permutations(Conns) \cup Permutations(Procs)
=============================================================================

------------------------------ MODULE MCEngine ------------------------------
(* Engine on small instances: a catalog of three and two machines. *)
EXTENDS Engine

CONSTANTS m1, m2, n1, n2, overview, follow, reboot

MCTier == [a \in {overview, follow, reboot} |-> IF a = reboot THEN 2 ELSE 0]
Usual(n) == [name |-> n, via |-> {"ssh", "cloud"}, tagged |-> TRUE]
MCFleet == [m \in {m1, m2} |-> Usual(IF m = m1 THEN n1 ELSE n2)]
MCForms == {Usual(n2), [Usual(n1) EXCEPT !.via = {"cloud"}], [Usual(n1) EXCEPT !.via = {"ssh"}],
            [Usual(n1) EXCEPT !.tagged = FALSE]}
MCLists == {<<m1, m1>>}
=============================================================================

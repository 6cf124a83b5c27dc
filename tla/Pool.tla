-------------------------------- MODULE Pool --------------------------------
(***************************************************************************)
(* What the SSH connection broker promises, with no goroutine, no lock and  *)
(* no Drop call in sight: the life of each connection.                      *)
(*                                                                          *)
(*     unused -> dialed -> pooled -> leaving -> closed                      *)
(*                     \-----------/                                        *)
(*                                                                          *)
(* A connection is dialed by somebody who alone holds it, is admitted to    *)
(* the pool only when its machine has none, leaves the pool at most once    *)
(* and never comes back, and is closed exactly once and in the end.         *)
(* Module Broker implements this specification.                             *)
(***************************************************************************)

CONSTANTS Machines, Conns, None

VARIABLES life,   \* life[c]: where connection c is in the diagram above
          home    \* home[c]: the machine c was dialed for, None while unused

vars == <<life, home>>

Init == /\ life = [c \in Conns |-> "unused"]
        /\ home = [c \in Conns |-> None]

\* The connection serving machine m, if any.
Serving(m) == {c \in Conns : life[c] = "pooled" /\ home[c] = m}

Dial(c, m) == /\ life[c] = "unused"
              /\ life' = [life EXCEPT ![c] = "dialed"]
              /\ home' = [home EXCEPT ![c] = m]

\* One connection per machine.
Admit(c) == /\ life[c] = "dialed"
            /\ Serving(home[c]) = {}
            /\ life' = [life EXCEPT ![c] = "pooled"]
            /\ UNCHANGED home

\* The loser of a dial race, or a pooled connection somebody dropped.
Retire(c) == /\ life[c] \in {"dialed", "pooled"}
             /\ life' = [life EXCEPT ![c] = "leaving"]
             /\ UNCHANGED home

Close(c) == /\ life[c] = "leaving"
            /\ life' = [life EXCEPT ![c] = "closed"]
            /\ UNCHANGED home

\* A dialed connection is admitted or given up.
Settle(c) == life[c] = "dialed" /\ (Admit(c) \/ Retire(c))

Next == \E c \in Conns :
          \/ \E m \in Machines : Dial(c, m)
          \/ Admit(c)
          \/ Retire(c)
          \/ Close(c)

\* Nothing dialed is left in nobody's hands, nothing dropped is left open.
Fairness == \A c \in Conns : /\ WF_vars(Settle(c))
                             /\ WF_vars(Close(c))

Spec == Init /\ [][Next]_vars
FairSpec == Spec /\ Fairness
=============================================================================

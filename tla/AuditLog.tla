------------------------------ MODULE AuditLog ------------------------------
(***************************************************************************)
(* What the audit log promises a reader, with no request, no worker and no  *)
(* statement in sight: the life of each command that anyone asks for.       *)
(*                                                                          *)
(* A command is admitted, confirmed as its danger demands, before it is      *)
(* done. It has at most one row, which says what was admitted and never      *)
(* changes, but for the ID of a machine that is deleted. Whoever asked is    *)
(* told the truth: "answered" and "refused" leave nothing done without a    *)
(* row, "unlogged" means that the machine is gone, and a session is handed  *)
(* over with its row written. Only the death of the process leaves a command *)
(* without a row and its caller without a word.                             *)
(* Module Engine implements this specification.                             *)
(***************************************************************************)

CONSTANTS Commands, Machines, Names, Entries, None

VARIABLES fleet,  \* the machines there are
          cmd,    \* cmd[c]: what was admitted as c, None before and after
          done,   \* the commands that reached the other side
          log,    \* log[c]: the row of c, or None
          told    \* told[c]: "nothing", "session", "answered", "refused", "unlogged", "lost"

vars == <<fleet, cmd, done, log, told>>

Init == /\ fleet = Machines
        /\ cmd = [c \in Commands |-> None]
        /\ done = {}
        /\ log = [c \in Commands |-> None]
        /\ told = [c \in Commands |-> "nothing"]

\* A row to be, and what the user gave with it: nothing, a click, a name.
Orders == [row : Entries, given : SUBSET ({"click"} \cup Names)]

\* Opening a terminal is recorded as disruptive and asks for nothing.
Confirmed(o) == \/ o.row.danger = 0
                \/ o.row.danger = 1 /\ "click" \in o.given
                \/ o.row.danger = 2 /\ o.row.name \in o.given
                \/ o.row.action = "terminal.open"

Admit(c) == /\ cmd[c] = None /\ told[c] = "nothing"
            /\ c \notin done /\ log[c] = None
            /\ cmd'[c] \in Orders
            /\ cmd'[c].row.machine \in fleet /\ Confirmed(cmd'[c])
            /\ cmd' = [cmd EXCEPT ![c] = cmd'[c]]
            /\ UNCHANGED <<fleet, done, log, told>>

-----------------------------------------------------------------------------
(* How a step leaves the caller.                                            *)

Waits == UNCHANGED <<cmd, told>>

\* A session is given away with its row written, and to no one who has been
\* told something already.
HandsOver(c) == /\ told[c] = "nothing"
                /\ c \in done' /\ log'[c] # None
                /\ told' = [told EXCEPT ![c] = "session"]
                /\ UNCHANGED cmd

Tells(c, what) == /\ told[c] \in {"nothing", "session"}
                  /\ cmd' = [cmd EXCEPT ![c] = None]
                  /\ told' = [told EXCEPT ![c] = what]

-----------------------------------------------------------------------------
\* A stream is handed over as it is opened.
Perform(c) == /\ cmd[c] # None /\ c \notin done
              /\ done' = done \cup {c}
              /\ UNCHANGED <<fleet, log>>
              /\ Waits \/ HandsOver(c)

\* A row is of a machine that is there, and is written once.
Record(c) == /\ cmd[c] # None /\ log[c] = None
             /\ cmd[c].row.machine \in fleet
             /\ log' = [log EXCEPT ![c] = cmd[c].row]
             /\ UNCHANGED <<fleet, done>>
             /\ Waits \/ HandsOver(c) \/ Tells(c, "answered")

Answer(c) == /\ c \in done => log[c] # None
             /\ Tells(c, "answered")
             /\ UNCHANGED <<fleet, done, log>>

Refuse(c) == /\ c \notin done /\ log[c] = None
             /\ Tells(c, "refused")
             /\ UNCHANGED <<fleet, done, log>>

\* No row, and the caller knows.
Apologize(c) == /\ cmd[c] # None /\ log[c] = None
                /\ cmd[c].row.machine \notin fleet
                /\ Tells(c, "unlogged")
                /\ UNCHANGED <<fleet, done, log>>

\* Rows outlive their machine.
Delete(m) == /\ m \in fleet
             /\ fleet' = fleet \ {m}
             /\ log' = [c \in Commands |->
                          IF log[c] # None /\ log[c].machine = m
                          THEN [log[c] EXCEPT !.machine = None] ELSE log[c]]
             /\ UNCHANGED <<cmd, done, told>>

\* The process dies: what is under way is never answered.
Die == /\ cmd' = [c \in Commands |-> None]
       /\ UNCHANGED <<fleet, done, log>>
       /\ \E lost \in SUBSET {c \in Commands : told[c] \in {"nothing", "session"}} :
             /\ \A c \in Commands : cmd[c] # None => c \in lost
             /\ told' = [c \in Commands |-> IF c \in lost THEN "lost" ELSE told[c]]

Next == \/ \E c \in Commands : \/ Admit(c) \/ Perform(c) \/ Record(c)
                               \/ Answer(c) \/ Refuse(c) \/ Apologize(c)
        \/ \E m \in Machines : Delete(m)
        \/ Die

Spec == Init /\ [][Next]_vars
=============================================================================

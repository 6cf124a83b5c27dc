------------------------------- MODULE Engine -------------------------------
(***************************************************************************)
(* What is asked of a host, what is run on it, and what the audit log says   *)
(* of it: single actions, bulk runs, streams, terminals and power requests,  *)
(* while machines and custom actions are edited and the process is stopped.  *)
(*                                                                          *)
(* A step is one SQL statement, one exchange with the host or the provider,  *)
(* or one decision of a handler. Where a command goes and over which         *)
(* connection is Identity's and Broker's business.                          *)
(* (internal/actions/engine.go; internal/api: handlers.go, bulk.go,          *)
(* stream.go, terminal.go; internal/store/queries.go; cmd/cloudroof/main.go) *)
(***************************************************************************)
EXTENDS Naturals, FiniteSets, Sequences

CONSTANTS Machines,     \* machine IDs
          Names,        \* what a machine may be called
          BuiltIns,     \* the catalog
          Streams,      \* its follow actions
          Overview,     \* system.overview, which runs before there are facts
          Tier,         \* Tier[a]: the danger of the built-in a
          Custom,       \* IDs of custom actions
          Fleet,        \* Fleet[m]: the row of machine m at first
          Forms,        \* the rows an edit may write (a bound)
          Lists,        \* the machineIds a bulk request may carry (a bound)
          Kinds,        \* the operations of the run (a bound)
          MaxReqs,      \* requests (a bound)
          MaxTargets,   \* workers of a bulk request (a bound no request meets)
          MaxEdits,     \* edits of machines, facts and custom actions (a bound)
          Concurrency,  \* bulkConcurrency
          None

\* "stop" stands for the others too, which the code treats alike.
Powers == {"start", "stop"}
PowerTier(a) == IF a = "start" THEN 1 ELSE 2
Actions == BuiltIns \cup Custom \cup Powers

Reqs == 1..MaxReqs
\* A goroutine: <<r, 0>> serves request r, <<r, i>> is its i-th bulk worker.
Jobs == Reqs \X (0..MaxTargets)
Worker(j) == j[2] > 0
Boss(j) == <<j[1], 0>>

Rows == [name : Names, via : SUBSET {"ssh", "cloud"}, tagged : BOOLEAN]
Tiers == 0..2
Targets == [id : Machines, name : Names]

AuditRows == [machine : Machines \cup {None}, name : Names,
              action : Actions \cup {"terminal.open"}, danger : Tiers]
\* A row to be, and what confirmed it.
Orders == [row : AuditRows, given : SUBSET ({"click"} \cup Names)]

ASSUME EngineAssumption ==
    /\ None \notin Machines \cup Names \cup Actions \cup Rows \cup Tiers
    /\ None \notin AuditRows \cup Orders /\ "click" \notin Names
    /\ IsFiniteSet(Machines) /\ Cardinality(Machines) <= MaxTargets
    /\ Fleet \in [Machines -> Rows] /\ Forms \subseteq Rows
    /\ BuiltIns \cap Custom = {}                   \* createCustomAction refuses a clash
    /\ (Powers \cup {"terminal.open"}) \cap (BuiltIns \cup Custom) = {}
    /\ Tier \in [BuiltIns -> Tiers]
    /\ Streams \subseteq BuiltIns
    /\ \A a \in Streams : Tier[a] = 0
    /\ Lists \subseteq Seq(Machines) /\ \A l \in Lists : Len(l) <= MaxTargets
    /\ Kinds \subseteq {"run", "stream", "terminal", "power", "bulk"}
    /\ MaxReqs \in Nat /\ MaxTargets \in Nat /\ MaxEdits \in Nat /\ Concurrency \in Nat \ {0}

VARIABLES
    machine,  \* machine[m]: its row, None once deleted
    facts,    \* the machines that have been fingerprinted
    custom,   \* custom[a]: the danger of the custom action saved as a, or None
    runs,     \* runs[j]: the audit row of j's command, or None
    edits,    \* edits so far
    life,     \* the process: up, draining, closing (drained), cut (gave up after 5 s)
    pc,       \* pc[j]: the next step of j
    kind,     \* kind[j]: what j serves
    ask,      \* ask[j]: machine, action, and what the user sent as confirmation
    got,      \* got[j]: the tier and the row j has read
    bulk,     \* bulk[r]: IDs still to read, targets, the count the user typed
    sem,      \* sem[r]: tokens of r's semaphore that are taken
    ran,      \* the jobs whose command reached the host (history)
    result    \* result[j]: what the caller is told

stored == <<machine, facts, custom, runs>>
world == <<stored, edits, life>>
vars == <<world, pc, kind, ask, got, bulk, sem, ran, result>>

NoAsk == [machine |-> None, action |-> None, confirm |-> {}]
NoGot == [tier |-> None, row |-> None]
NoBulk == [ids |-> <<>>, targets |-> <<>>, count |-> 0]

\* As the fleet usually is: the probe has run.
Init ==
    /\ machine = Fleet
    /\ facts = Machines
    /\ custom = [a \in Custom |-> 0]
    /\ runs = [j \in Jobs |-> None]
    /\ edits = 0
    /\ life = "up"
    /\ pc = [j \in Jobs |-> "new"]
    /\ kind = [j \in Jobs |-> "none"]
    /\ ask = [j \in Jobs |-> NoAsk]
    /\ got = [j \in Jobs |-> NoGot]
    /\ bulk = [r \in Reqs |-> NoBulk]
    /\ sem = [r \in Reqs |-> 0]
    /\ ran = {}
    /\ result = [j \in Jobs |-> "none"]

StoreTypeOK ==
    /\ machine \in [Machines -> Rows \cup {None}]
    /\ facts \in SUBSET {m \in Machines : machine[m] # None}
    /\ custom \in [Custom -> Tiers \cup {None}]
    /\ runs \in [Jobs -> AuditRows \cup {None}]
    /\ \A j \in Jobs : runs[j] # None /\ runs[j].machine # None => machine[runs[j].machine] # None
    /\ edits \in 0..MaxEdits
    /\ life \in {"up", "draining", "closing", "cut"}

JobTypeOK ==
    /\ pc \in [Jobs -> {"new", "lookup", "machine", "facts", "upgrade", "exec", "running", "log",
                        "session", "group", "list", "gate", "fan", "wait", "done"}]
    /\ kind \in [Jobs -> {"none", "run", "stream", "terminal", "power", "bulk", "part"}]
    /\ ask \in [Jobs -> [machine : Machines \cup {None}, action : Actions \cup {"terminal.open", None},
                         confirm : SUBSET ({"click"} \cup Names)]]
    /\ got \in [Jobs -> [tier : Tiers \cup {None}, row : Rows \cup {None}]]
    /\ bulk \in [Reqs -> [ids : Seq(Machines), targets : Seq(Targets), count : Nat]]
    /\ sem \in [Reqs -> 0..Concurrency]
    /\ ran \in SUBSET Jobs
    /\ result \in [Jobs -> {"none", "ok", "failed", "refused", "unlogged", "lost"}]

TypeOK == StoreTypeOK /\ JobTypeOK

-----------------------------------------------------------------------------
Goto(j, where) == pc' = [pc EXCEPT ![j] = where]
Keep == UNCHANGED <<kind, ask, bulk, sem, ran, result>>

\* Bug: a worker that ends keeps its token.
AnswerKeepsToken(j, what) ==
    /\ Goto(j, "done")
    /\ result' = [result EXCEPT ![j] = what]
    /\ ask' = [ask EXCEPT ![j] = NoAsk]
    /\ got' = [got EXCEPT ![j] = NoGot]
    /\ UNCHANGED <<kind, bulk, sem, ran>>

\* The goroutine ends; a bulk worker gives back its token.
Answer(j, what) ==
    /\ Goto(j, "done")
    /\ result' = [result EXCEPT ![j] = what]
    /\ ask' = [ask EXCEPT ![j] = NoAsk]
    /\ got' = [got EXCEPT ![j] = NoGot]
    /\ sem' = IF Worker(j) THEN [sem EXCEPT ![j[1]] = @ - 1] ELSE sem
    /\ UNCHANGED <<kind, bulk, ran>>

Refuse(j) == Answer(j, "refused")

-----------------------------------------------------------------------------
(* A request comes in. Requests are numbered in the order they come.        *)

Comes(j, k) ==
    /\ k \in Kinds
    /\ life = "up"
    /\ j[2] = 0 /\ pc[j] = "new"
    /\ \A r \in 1..(j[1] - 1) : pc[<<r, 0>>] # "new"
    /\ kind' = [kind EXCEPT ![j] = k]
    /\ UNCHANGED <<world, got, sem, ran, result>>

StartRun(j, m, a, c) ==
    /\ Comes(j, "run")
    /\ ask' = [ask EXCEPT ![j] = [machine |-> m, action |-> a, confirm |-> c]]
    /\ Goto(j, "lookup")
    /\ UNCHANGED bulk

\* streamAction: only follow actions of the catalog, and nothing to confirm.
StartStream(j, m, a) ==
    /\ Comes(j, "stream")
    /\ ask' = [ask EXCEPT ![j] = [machine |-> m, action |-> a, confirm |-> {}]]
    /\ Goto(j, "lookup")
    /\ UNCHANGED bulk

StartTerminal(j, m) ==
    /\ Comes(j, "terminal")
    /\ ask' = [ask EXCEPT ![j] = [machine |-> m, action |-> "terminal.open", confirm |-> {}]]
    /\ Goto(j, "machine")
    /\ UNCHANGED bulk

StartPower(j, m, a, c) ==
    /\ Comes(j, "power")
    /\ ask' = [ask EXCEPT ![j] = [machine |-> m, action |-> a, confirm |-> c]]
    /\ Goto(j, "machine")
    /\ UNCHANGED bulk

\* runBulk, of listed machines or (ids empty) of the group; c confirms a read,
\* n a write.
StartBulk(j, ids, a, c, n) ==
    /\ Comes(j, "bulk")
    /\ ask' = [ask EXCEPT ![j] = [machine |-> None, action |-> a, confirm |-> c]]
    /\ bulk' = [bulk EXCEPT ![j[1]] = [ids |-> ids, targets |-> <<>>, count |-> n]]
    /\ Goto(j, "lookup")

-----------------------------------------------------------------------------
(* Engine.Prepare: the action, the machine and the gate, the facts.         *)

\* lookup: the catalog, else the saved custom actions.
TierOf(a) == IF a \in BuiltIns THEN Tier[a] ELSE custom[a]

AfterLookup(j) ==
    IF kind[j] # "bulk" THEN "machine" ELSE IF bulk[j[1]].ids = <<>> THEN "group" ELSE "list"

Looks(j) ==
    /\ pc[j] = "lookup"
    /\ TierOf(ask[j].action) # None
    /\ got' = [got EXCEPT ![j].tier = TierOf(ask[j].action)]
    /\ Goto(j, AfterLookup(j))
    /\ Keep
    /\ UNCHANGED world

LooksInVain(j) ==
    /\ pc[j] = "lookup"
    /\ TierOf(ask[j].action) = None
    /\ Refuse(j)
    /\ UNCHANGED world

\* Bug: any name confirms a disruptive action.
GateAnyName(tier, row, confirm) ==
    \/ tier = 0
    \/ tier = 1 /\ "click" \in confirm
    \/ tier = 2 /\ confirm \cap Names # {}

\* gate, for one machine: a reversible action wants a click, a disruptive one
\* the name of the machine.
Gate(tier, row, confirm) ==
    \/ tier = 0
    \/ tier = 1 /\ "click" \in confirm
    \/ tier = 2 /\ row.name \in confirm

\* What a job needs to know of its action's danger, and of the confirmation.
Danger(j) ==
    CASE kind[j] = "power" -> PowerTier(ask[j].action)
      [] kind[j] = "terminal" -> 2
      [] OTHER -> got[j].tier

Wants(j) == IF kind[j] = "power" THEN "cloud" ELSE "ssh"

Admits(j, row) ==
    /\ row # None
    /\ Wants(j) \in row.via
    /\ \/ kind[j] = "terminal"                      \* no gate of its own
       \/ Gate(Danger(j), row, ask[j].confirm)

AfterMachine(j) ==
    CASE kind[j] = "power" -> "exec"
      [] kind[j] = "terminal" -> "upgrade"
      [] OTHER -> "facts"

ReadsMachine(j) ==
    /\ pc[j] = "machine"
    /\ Admits(j, machine[ask[j].machine])
    /\ got' = [got EXCEPT ![j] = [tier |-> Danger(j), row |-> machine[ask[j].machine]]]
    /\ Goto(j, AfterMachine(j))
    /\ Keep
    /\ UNCHANGED world

\* Not found, no host, not linked, not confirmed.
MachineRefused(j) ==
    /\ pc[j] = "machine"
    /\ ~Admits(j, machine[ask[j].machine])
    /\ Refuse(j)
    /\ UNCHANGED world

\* Prepare: GetFacts. Only the overview may run without them.
ReadsFacts(j) ==
    /\ pc[j] = "facts"
    /\ ask[j].machine \in facts \/ ask[j].action = Overview
    /\ Goto(j, IF kind[j] = "stream" THEN "upgrade" ELSE "exec")
    /\ Keep
    /\ UNCHANGED <<world, got>>

\* No facts; or a missing capability, no root, a bad parameter, a credential
\* that cannot be opened, a handshake that is no WebSocket.
NotAvailable(j) ==
    /\ \/ pc[j] \in {"facts", "upgrade"}
       \/ pc[j] = "exec" /\ kind[j] = "power"      \* no provider for the account
    /\ Refuse(j)
    /\ UNCHANGED world

\* The connection is taken from the HTTP server. A stream writes its audit row
\* before it opens, a terminal after.
Upgrades(j) ==
    /\ pc[j] = "upgrade"
    /\ Goto(j, IF kind[j] = "stream" THEN "log" ELSE "exec")
    /\ Keep
    /\ UNCHANGED <<world, got>>

-----------------------------------------------------------------------------
(* The command, and its row.                                                *)

\* The command, the shell or the power request has reached the other side.
Reaches(j) ==
    /\ pc[j] = "exec"
    /\ ran' = ran \cup {j}
    /\ Goto(j, IF kind[j] = "terminal" THEN "log"
               ELSE IF kind[j] = "stream" THEN "session" ELSE "running")
    /\ UNCHANGED <<world, kind, ask, got, bulk, sem, result>>

\* It has not: no connection, no session. An action is recorded all the same.
ReachesNot(j) ==
    /\ pc[j] = "exec"
    /\ IF kind[j] \in {"stream", "terminal"}
       THEN Answer(j, "failed")
       ELSE /\ result' = [result EXCEPT ![j] = "failed"]
            /\ Goto(j, "log")
            /\ UNCHANGED <<kind, ask, got, bulk, sem, ran>>
    /\ UNCHANGED world

\* It ends, with an exit code or with an error: the deadline, the connection,
\* a browser that left, the broker closed.
Ends(j) ==
    /\ pc[j] = "running"
    /\ \E how \in {"ok", "failed"} : result' = [result EXCEPT ![j] = how]
    /\ Goto(j, "log")
    /\ UNCHANGED <<world, kind, ask, got, bulk, sem, ran>>

AuditRow(j) == [machine |-> ask[j].machine, name |-> got[j].row.name,
                action |-> ask[j].action, danger |-> got[j].tier]

\* What follows InsertRun: an action answers what Exec said, a stream opens, a
\* terminal is handed over.
Logged(j) ==
    CASE kind[j] = "stream" -> Goto(j, "exec") /\ UNCHANGED got /\ Keep
      [] kind[j] = "terminal" -> Goto(j, "session") /\ UNCHANGED got /\ Keep
      [] OTHER -> Answer(j, result[j])

\* Bug: only commands that ran are recorded.
LogsSuccesses(j) ==
    /\ pc[j] = "log"
    /\ machine[ask[j].machine] # None
    /\ runs' = IF result[j] = "failed" THEN runs ELSE [runs EXCEPT ![j] = AuditRow(j)]
    /\ Logged(j)
    /\ UNCHANGED <<machine, facts, custom, edits, life>>

\* InsertRun.
Logs(j) ==
    /\ pc[j] = "log"
    /\ machine[ask[j].machine] # None
    /\ runs' = [runs EXCEPT ![j] = AuditRow(j)]
    /\ Logged(j)
    /\ UNCHANGED <<machine, facts, custom, edits, life>>

\* Bug: the error of InsertRun is dropped.
LogIgnored(j) ==
    /\ pc[j] = "log"
    /\ machine[ask[j].machine] = None
    /\ Logged(j)
    /\ UNCHANGED world

\* InsertRun fails: the machine was deleted and the row would break the foreign
\* key. The caller is told that, whatever the command did.
LogFails(j) ==
    /\ pc[j] = "log"
    /\ machine[ask[j].machine] = None
    /\ Answer(j, "unlogged")
    /\ UNCHANGED world

\* A stream or a terminal ends on either side.
SessionEnds(j) ==
    /\ pc[j] = "session"
    /\ Answer(j, "ok")
    /\ UNCHANGED world

-----------------------------------------------------------------------------
(* runBulk: targets, gate, fan-out.                                         *)

Reachable(m) == machine[m] # None /\ "ssh" \in machine[m].via
Listed(S) == CHOOSE s \in [1..Cardinality(S) -> S] : \A x, y \in DOMAIN s : s[x] = s[y] => x = y
TargetAt(m) == [id |-> m, name |-> machine[m].name]

\* GroupMembers: one statement reads every machine. The one group of the model
\* has one tag.
ReadsGroup(j) ==
    /\ pc[j] = "group"
    /\ LET s == Listed({m \in Machines : Reachable(m) /\ machine[m].tagged})
       IN  bulk' = [bulk EXCEPT ![j[1]].targets = [i \in DOMAIN s |-> TargetAt(s[i])]]
    /\ Goto(j, "gate")
    /\ UNCHANGED <<world, kind, ask, got, sem, ran, result>>

\* GetMachine for the next ID; one that is gone or has no host is left out.
ReadsListed(j) ==
    /\ pc[j] = "list"
    /\ LET b == bulk[j[1]]
           m == Head(b.ids)
       IN  /\ bulk' = [bulk EXCEPT ![j[1]] =
                          [b EXCEPT !.ids = Tail(@),
                                    !.targets = IF Reachable(m) THEN Append(@, TargetAt(m)) ELSE @]]
           /\ Goto(j, IF Tail(b.ids) = <<>> THEN "gate" ELSE "list")
    /\ UNCHANGED <<world, kind, ask, got, sem, ran, result>>

Workers(j) == {<<j[1], i>> : i \in 1..Len(bulk[j[1]].targets)}

\* A read wants a click, anything else the number of hosts typed.
BulkAdmits(j) ==
    LET n == Len(bulk[j[1]].targets)
    IN  n > 0 /\ IF got[j].tier = 0 THEN "click" \in ask[j].confirm ELSE bulk[j[1]].count = n

\* Bug: the count is not asked for.
FansOutUncounted(j) ==
    /\ pc[j] = "gate"
    /\ Len(bulk[j[1]].targets) > 0
    /\ pc' = [w \in Jobs |-> IF w = j THEN "fan" ELSE IF w \in Workers(j) THEN "wait" ELSE pc[w]]
    /\ kind' = [w \in Jobs |-> IF w \in Workers(j) THEN "part" ELSE kind[w]]
    /\ ask' = [w \in Jobs |-> IF w \in Workers(j)
                 THEN [machine |-> bulk[j[1]].targets[w[2]].id, action |-> ask[j].action,
                       confirm |-> {"click", bulk[j[1]].targets[w[2]].name}]
                 ELSE ask[w]]
    /\ UNCHANGED <<world, got, bulk, sem, ran, result>>

\* One goroutine for each target, with all that Engine.Run's own gate asks for.
FansOut(j) ==
    /\ pc[j] = "gate"
    /\ BulkAdmits(j)
    /\ pc' = [w \in Jobs |-> IF w = j THEN "fan" ELSE IF w \in Workers(j) THEN "wait" ELSE pc[w]]
    /\ kind' = [w \in Jobs |-> IF w \in Workers(j) THEN "part" ELSE kind[w]]
    /\ ask' = [w \in Jobs |-> IF w \in Workers(j)
                 THEN [machine |-> bulk[j[1]].targets[w[2]].id, action |-> ask[j].action,
                       confirm |-> {"click", bulk[j[1]].targets[w[2]].name}]
                 ELSE ask[w]]
    /\ UNCHANGED <<world, got, bulk, sem, ran, result>>

BulkRefused(j) ==
    /\ pc[j] = "gate"
    /\ ~BulkAdmits(j)
    /\ Refuse(j)
    /\ UNCHANGED world

\* sem <- struct{}{}, then engine.Run, which looks everything up again.
Acquires(j) ==
    /\ pc[j] = "wait"
    /\ sem[j[1]] < Concurrency
    /\ sem' = [sem EXCEPT ![j[1]] = @ + 1]
    /\ Goto(j, "lookup")
    /\ UNCHANGED <<world, kind, ask, got, bulk, ran, result>>

\* wg.Wait, and the results of all.
BulkEnds(j) ==
    /\ pc[j] = "fan"
    /\ \A w \in Workers(j) : pc[w] = "done"
    /\ Answer(j, "ok")
    /\ UNCHANGED world

-----------------------------------------------------------------------------
(* What is edited meanwhile, one statement a step.                          *)

Edits ==
    /\ edits < MaxEdits
    /\ edits' = edits + 1
    /\ UNCHANGED <<life, pc, kind, ask, got, bulk, sem, ran, result>>

Updates(m, row) ==
    /\ Edits
    /\ machine[m] # None
    /\ machine' = [machine EXCEPT ![m] = row]
    /\ UNCHANGED <<facts, custom, runs>>

\* Bug: ON DELETE CASCADE.
DeletesRecords(m) ==
    /\ Edits
    /\ machine[m] # None
    /\ machine' = [machine EXCEPT ![m] = None]
    /\ facts' = facts \ {m}
    /\ runs' = [j \in Jobs |->
                  IF runs[j] # None /\ runs[j].machine = m THEN None ELSE runs[j]]
    /\ UNCHANGED custom

\* DeleteMachine: facts cascade, audit rows lose the ID.
Deletes(m) ==
    /\ Edits
    /\ machine[m] # None
    /\ machine' = [machine EXCEPT ![m] = None]
    /\ facts' = facts \ {m}
    /\ runs' = [j \in Jobs |->
                  IF runs[j] # None /\ runs[j].machine = m
                  THEN [runs[j] EXCEPT !.machine = None] ELSE runs[j]]
    /\ UNCHANGED custom

\* A probe, and the reset after a machine was re-pointed.
Learns(m) ==
    /\ Edits
    /\ machine[m] # None /\ m \notin facts
    /\ facts' = facts \cup {m}
    /\ UNCHANGED <<machine, custom, runs>>

Forgets(m) ==
    /\ Edits
    /\ m \in facts
    /\ facts' = facts \ {m}
    /\ UNCHANGED <<machine, custom, runs>>

\* createCustomAction, deleteCustomAction: an ID may come back with another
\* danger.
Creates(a, t) ==
    /\ Edits
    /\ custom[a] = None
    /\ custom' = [custom EXCEPT ![a] = t]
    /\ UNCHANGED <<machine, facts, runs>>

Removes(a) ==
    /\ Edits
    /\ custom[a] # None
    /\ custom' = [custom EXCEPT ![a] = None]
    /\ UNCHANGED <<machine, facts, runs>>

-----------------------------------------------------------------------------
(* The process (main.go). Shutdown waits for HTTP handlers, not for          *)
(* connections that were taken from it, and for 5 s at most.                *)

Hijacked(j) == kind[j] \in {"stream", "terminal"} /\ pc[j] \in {"log", "exec", "session"}
InFlight(j) == pc[j] \notin {"new", "done"}
InHandler(j) == InFlight(j) /\ ~Hijacked(j)

Signal ==
    /\ life = "up"
    /\ life' = "draining"
    /\ UNCHANGED <<stored, edits, pc, kind, ask, got, bulk, sem, ran, result>>

\* Bug: run returns when ListenAndServe does, as soon as Shutdown begins.
DrainsAtOnce ==
    /\ life = "draining"
    /\ life' = "closing"
    /\ UNCHANGED <<stored, edits, pc, kind, ask, got, bulk, sem, ran, result>>

Drains ==
    /\ life = "draining"
    /\ \A j \in Jobs : ~InHandler(j)
    /\ life' = "closing"
    /\ UNCHANGED <<stored, edits, pc, kind, ask, got, bulk, sem, ran, result>>

GraceExpires ==
    /\ life = "draining"
    /\ life' = "cut"
    /\ UNCHANGED <<stored, edits, pc, kind, ask, got, bulk, sem, ran, result>>

\* The process is gone, and with it what was in flight; another is started.
Restarts ==
    /\ life' = "up"
    /\ pc' = [j \in Jobs |-> IF InFlight(j) THEN "done" ELSE pc[j]]
    /\ result' = [j \in Jobs |-> IF InFlight(j) THEN "lost" ELSE result[j]]
    /\ ask' = [j \in Jobs |-> NoAsk]
    /\ got' = [j \in Jobs |-> NoGot]
    /\ bulk' = [r \in Reqs |-> NoBulk]
    /\ sem' = [r \in Reqs |-> 0]
    /\ UNCHANGED <<stored, edits, kind, ran>>

\* broker.Close and db.Close, then exit.
Exits == life \in {"closing", "cut"} /\ Restarts
Crash == life \in {"up", "draining"} /\ Restarts

-----------------------------------------------------------------------------
JobStep(j) ==
    \/ Looks(j) \/ LooksInVain(j) \/ ReadsMachine(j) \/ MachineRefused(j) \/ ReadsFacts(j)
    \/ NotAvailable(j) \/ Upgrades(j) \/ Reaches(j) \/ ReachesNot(j) \/ Ends(j) \/ Logs(j)
    \/ LogFails(j) \/ ReadsGroup(j) \/ ReadsListed(j) \/ FansOut(j) \/ BulkRefused(j)
    \/ Acquires(j) \/ BulkEnds(j)

\* What a user can send: nothing, a click, a name.
Confirms == {{}, {"click"}} \cup {{n} : n \in Names}

Start(j) ==
    \/ \E m \in Machines, a \in BuiltIns \cup Custom, c \in Confirms : StartRun(j, m, a, c)
    \/ \E m \in Machines, a \in Streams : StartStream(j, m, a)
    \/ \E m \in Machines : StartTerminal(j, m)
    \/ \E m \in Machines, a \in Powers, c \in Confirms : StartPower(j, m, a, c)
    \/ \E ids \in Lists \cup {<<>>}, a \in BuiltIns \cup Custom :
          StartBulk(j, ids, a, {"click"}, 0) \/ \E n \in 0..MaxTargets : StartBulk(j, ids, a, {}, n)

Edit ==
    \/ \E m \in Machines :
          Deletes(m) \/ Learns(m) \/ Forgets(m) \/ \E row \in Forms : Updates(m, row)
    \/ \E a \in Custom : Removes(a) \/ \E t \in Tiers : Creates(a, t)

Lifecycle == Signal \/ Drains \/ GraceExpires \/ Exits \/ Crash

Next ==
    \/ \E j \in Jobs : Start(j) \/ JobStep(j) \/ SessionEnds(j)
    \/ Edit
    \/ Lifecycle

Spec == Init /\ [][Next]_vars

\* A goroutine that can go on does: every Exec and every provider call has a
\* deadline. A session may last for ever.
Fairness == \A j \in Jobs : WF_vars(JobStep(j))

FairSpec == Spec /\ Fairness

-----------------------------------------------------------------------------
\* "Audit before returning, regardless of outcome ... an unrecorded action is
\* worse than a failed one" (engine.go:223): a command that reached a host, or a
\* power request that reached a provider, has its row, unless it is still under
\* way, its caller was told that the row could not be written, or the process
\* died under it.
RanIsRecorded ==
    \A j \in ran : \/ runs[j] # None
                   \/ pc[j] \in {"running", "log"}
                   \/ result[j] \in {"unlogged", "lost"}

\* "Deleting a machine must never erase the record of what was done to it"
\* (schema.go:89): a row stays, word for word, but for the ID of a machine that
\* is deleted.
RecordsStay ==
    [][\A j \in Jobs : runs[j] # None =>
          \/ runs'[j] = runs[j]
          \/ /\ runs'[j] = [runs[j] EXCEPT !.machine = None]
             /\ machine'[runs[j].machine] = None]_vars

\* "The bulk gate above is what authorized the fan-out" (bulk.go:119): what a
\* worker runs is of the danger the user confirmed, by a click or by the number
\* of hosts; and a disruptive action runs only on a machine that still has the
\* name in the list he was shown. A custom action may be replaced by one of
\* another danger after the gate.
WorkersRunAsConfirmed ==
    \A w \in Jobs : kind[w] = "part" /\ pc[w] \in {"exec", "running", "log"} =>
        LET b == bulk[w[1]]
            boss == Boss(w)
        IN  /\ \/ ask[w].action \in Custom
               \/ /\ got[w].tier = got[boss].tier
                  /\ IF got[boss].tier = 0
                     THEN "click" \in ask[boss].confirm
                     ELSE b.count = Len(b.targets)
            /\ got[w].tier = 2 => got[w].row.name = b.targets[w[2]].name

\* "Wait for it to finish draining before the deferred broker/db Close pull the
\* floor out from under in-flight handlers" (main.go:114): a shutdown that is
\* not cut short loses no handler, only streams and terminals.
DrainLosesNoHandler ==
    [][life = "closing" /\ life' = "up" =>
          \A j \in Jobs : InFlight(j) => kind[j] \in {"stream", "terminal"}]_vars

\* Every request is answered or becomes a session; a bulk request once all its
\* workers have passed the semaphore.
RequestsAreAnswered ==
    \A r \in Reqs : InFlight(<<r, 0>>) ~> pc[<<r, 0>>] \in {"done", "session"}

-----------------------------------------------------------------------------
(* What a reader of the log may conclude.                                   *)

Present == {m \in Machines : machine[m] # None}

Admitted(j) == pc[j] \in {"facts", "upgrade", "exec", "running", "log", "session"}

Order == [j \in Jobs |->
            IF Admitted(j) THEN [row |-> AuditRow(j), given |-> ask[j].confirm] ELSE None]

Told == [j \in Jobs |->
           CASE pc[j] = "session" -> "session"
             [] pc[j] = "done" -> IF result[j] \in {"refused", "unlogged", "lost"}
                                  THEN result[j] ELSE "answered"
             [] OTHER -> "nothing"]

Log == INSTANCE AuditLog WITH Commands <- Jobs, Entries <- AuditRows,
                              fleet <- Present, cmd <- Order, done <- ran,
                              log <- runs, told <- Told

\* "Every path that reaches the host ... writes a Run" (engine.go:192), "an
\* unrecorded session is worse than a refused one" (terminal.go:85), "the bulk
\* gate above is what authorized the fan-out" (bulk.go:119): a command is
\* recorded once, as it was confirmed and admitted, before anyone is given its
\* session; or it reached nobody; or the caller is told that its machine is
\* gone and the log has nothing; or the process died.
ImplementsAuditLog == Log!Spec

=============================================================================

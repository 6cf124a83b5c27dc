------------------------------- MODULE Broker -------------------------------
(***************************************************************************)
(* internal/sshx/broker.go: the pool of SSH connections, one per machine,   *)
(* and everything that runs on it at the same time: calls that look a       *)
(* connection up, dial, open sessions under a deadline and give up; the     *)
(* keepalive goroutine of every pooled connection; Drop, from any of them   *)
(* and from HTTP handlers; Close at shutdown; and the network failing.      *)
(*                                                                          *)
(* A step is what happens between two points where another goroutine can    *)
(* run: one critical section of b.mu, one answer of the peer, one timer.    *)
(***************************************************************************)
EXTENDS Naturals, FiniteSets

CONSTANTS Machines,  \* machine IDs: the keys of b.conns
          Conns,     \* the connections the run may dial (bounds its length)
          Procs,     \* goroutines that call Exec, OpenShell, OpenStream or Drop
          Kinds,     \* the calls of the run (a bound)
          Main,      \* the goroutine that calls Close
          None       \* no machine, no connection

ASSUME BrokerAssumption ==
    /\ None \notin Machines \cup Conns
    /\ Procs \cap Conns = {}
    /\ Main \notin Procs \cup Conns
    /\ Kinds \subseteq {"exec", "shell", "stream", "drop", "close"}

VARIABLES
    pool,    \* b.conns: pool[m] is the connection of machine m, or None
    client,  \* client[c]: the ssh.Client of c: "none" (not dialed), "open", "closed"
    home,    \* home[c]: the machine ID c was dialed for
    done,    \* the connections whose channel c.done is closed
    net,     \* net[c], while c is open: "up", "silent" (no answer will come) or
             \* "reset" (calls fail)
    ka,      \* ka[c]: keepalive goroutine: "off", "idle", "asked", "stopped"
    pc,      \* pc[p]: where the call of p stands
    op,      \* op[p]: "exec", "shell", "stream" or "drop"
    mid,     \* mid[p]: the target's machine ID
    held,    \* held[p]: the connection the call works with
    res,     \* res[p]: how the call ended
    drop,    \* drop[o]: what o took out of the pool and still has to tear down
    closing  \* Close: the IDs it still has to drop, the connections that
             \* were pooled when it began (history), and how far it is

vars == <<pool, client, home, done, net, ka, pc, op, mid, held, res, drop, closing>>
calls == <<pc, op, mid, held, res>>
wires == <<client, home, done, net, ka>>

Owners == Procs \cup Conns \cup {Main}   \* a keepalive goroutine is named by its connection
NoDrop == [conn |-> None, stage |-> "none"]

TypeOK ==
    /\ pool \in [Machines -> Conns \cup {None}]
    /\ client \in [Conns -> {"none", "open", "closed"}]
    /\ home \in [Conns -> Machines \cup {None}]
    /\ done \in SUBSET Conns
    /\ net \in [Conns -> {"up", "silent", "reset"}]
    /\ ka \in [Conns -> {"off", "idle", "asked", "stopped"}]
    /\ pc \in [Procs -> {"idle", "drop", "get", "dial", "insert", "open", "evict",
                         "pty", "start", "running", "returned"}]
    /\ op \in [Procs -> Kinds \cup {"none"}]
    /\ mid \in [Procs -> Machines \cup {None}]
    /\ held \in [Procs -> Conns \cup {None}]
    /\ res \in [Procs -> {"none", "ok", "error", "timeout"}]
    /\ drop \in [Owners -> {NoDrop} \cup [conn : Conns, stage : {"done", "client"}]]
    /\ closing \in [left : SUBSET Machines, old : SUBSET Conns,
                    phase : {"no", "dropping", "over"}]

Init ==
    /\ pool = [m \in Machines |-> None]
    /\ client = [c \in Conns |-> "none"]
    /\ home = [c \in Conns |-> None]
    /\ done = {}
    /\ net = [c \in Conns |-> "up"]
    /\ ka = [c \in Conns |-> "off"]
    /\ pc = [p \in Procs |-> "idle"]
    /\ op = [p \in Procs |-> "none"]
    /\ mid = [p \in Procs |-> None]
    /\ held = [p \in Procs |-> None]
    /\ res = [p \in Procs |-> "none"]
    /\ drop = [o \in Owners |-> NoDrop]
    /\ closing = [left |-> {}, old |-> {}, phase |-> "no"]

\* What a request on the client can come back with: an answer, an error (a
\* dead transport, or a live sshd that refuses), or nothing at all.
Answers(c) == client[c] = "open" /\ net[c] = "up"
Breaks(c) == client[c] = "closed" \/ net[c] = "reset"
CanFail(c) == Breaks(c) \/ net[c] = "up"

-----------------------------------------------------------------------------
(* Drop: the critical section, then close(c.done), then c.client.Close().   *)

\* Bug: the entry stays in the map while its connection is torn down.
TakeKeepsEntry(o, m) ==
    /\ drop[o] = NoDrop
    /\ drop' = [drop EXCEPT ![o] = IF pool[m] = None
                                   THEN NoDrop
                                   ELSE [conn |-> pool[m], stage |-> "done"]]
    /\ pool' = pool

Take(o, m) ==
    /\ drop[o] = NoDrop
    /\ drop' = [drop EXCEPT ![o] = IF pool[m] = None
                                   THEN NoDrop
                                   ELSE [conn |-> pool[m], stage |-> "done"]]
    /\ pool' = [pool EXCEPT ![m] = None]

CloseDone(o) ==
    /\ drop[o].stage = "done"
    /\ done' = done \cup {drop[o].conn}
    /\ drop' = [drop EXCEPT ![o].stage = "client"]
    /\ UNCHANGED <<pool, client, home, net, ka, calls, closing>>

CloseClient(o) ==
    /\ drop[o].stage = "client"
    /\ client' = [client EXCEPT ![drop[o].conn] = "closed"]
    /\ net' = [net EXCEPT ![drop[o].conn] = "up"]
    /\ drop' = [drop EXCEPT ![o] = NoDrop]
    /\ UNCHANGED <<pool, home, done, ka, calls, closing>>

-----------------------------------------------------------------------------
(* A call: Get, then the session under deadlines.                           *)

\* A goroutine runs on once its own Drop, if any, is finished.
At(p, where) == pc[p] = where /\ drop[p] = NoDrop

Begin(p, o, m) ==
    /\ At(p, "idle")
    /\ pc' = [pc EXCEPT ![p] = IF o = "drop" THEN "drop" ELSE "get"]
    /\ op' = [op EXCEPT ![p] = o]
    /\ mid' = [mid EXCEPT ![p] = m]
    /\ UNCHANGED <<pool, wires, held, res, drop, closing>>

Return(p) ==
    /\ At(p, "returned")
    /\ pc' = [pc EXCEPT ![p] = "idle"]
    /\ op' = [op EXCEPT ![p] = "none"]
    /\ mid' = [mid EXCEPT ![p] = None]
    /\ held' = [held EXCEPT ![p] = None]
    /\ res' = [res EXCEPT ![p] = "none"]
    /\ UNCHANGED <<pool, wires, drop, closing>>

\* An HTTP handler's plain b.Drop(id).
HandlerDrop(p) ==
    /\ At(p, "drop")
    /\ Take(p, mid[p])
    /\ pc' = [pc EXCEPT ![p] = "returned"]
    /\ UNCHANGED <<wires, op, mid, held, res, closing>>

GetHit(p) ==
    /\ At(p, "get")
    /\ pool[mid[p]] # None
    /\ held' = [held EXCEPT ![p] = pool[mid[p]]]
    /\ pc' = [pc EXCEPT ![p] = "open"]
    /\ UNCHANGED <<pool, wires, op, mid, res, drop, closing>>

GetMiss(p) ==
    /\ At(p, "get")
    /\ pool[mid[p]] = None
    /\ pc' = [pc EXCEPT ![p] = "dial"]
    /\ UNCHANGED <<pool, wires, op, mid, held, res, drop, closing>>

DialFails(p) ==
    /\ At(p, "dial")
    /\ pc' = [pc EXCEPT ![p] = "returned"]
    /\ res' = [res EXCEPT ![p] = "error"]
    /\ UNCHANGED <<pool, wires, op, mid, held, drop, closing>>

DialWorks(p, c) ==
    /\ At(p, "dial")
    /\ client[c] = "none"
    /\ client' = [client EXCEPT ![c] = "open"]
    /\ home' = [home EXCEPT ![c] = mid[p]]
    /\ held' = [held EXCEPT ![p] = c]
    /\ pc' = [pc EXCEPT ![p] = "insert"]
    /\ UNCHANGED <<pool, done, net, ka, op, mid, res, drop, closing>>

\* Bug: Get inserts without looking again whether somebody else has.
InsertBlindly(p) ==
    /\ At(p, "insert")
    /\ pool' = [pool EXCEPT ![mid[p]] = held[p]]
    /\ ka' = [ka EXCEPT ![held[p]] = "idle"]
    /\ pc' = [pc EXCEPT ![p] = "open"]
    /\ UNCHANGED <<client, home, done, net, op, mid, held, res, drop, closing>>

\* The second critical section of Get finds no entry: ours goes in.
Insert(p) ==
    /\ At(p, "insert")
    /\ pool[mid[p]] = None
    /\ pool' = [pool EXCEPT ![mid[p]] = held[p]]
    /\ ka' = [ka EXCEPT ![held[p]] = "idle"]
    /\ pc' = [pc EXCEPT ![p] = "open"]
    /\ UNCHANGED <<client, home, done, net, op, mid, held, res, drop, closing>>

\* Bug: the loser of the race is not closed.
LoseLeaks(p) ==
    /\ At(p, "insert")
    /\ pool[mid[p]] # None
    /\ held' = [held EXCEPT ![p] = pool[mid[p]]]
    /\ pc' = [pc EXCEPT ![p] = "open"]
    /\ UNCHANGED <<pool, wires, op, mid, res, drop, closing>>

\* It finds an entry: use theirs, close ours.
Lose(p) ==
    /\ At(p, "insert")
    /\ pool[mid[p]] # None
    /\ held' = [held EXCEPT ![p] = pool[mid[p]]]
    /\ drop' = [drop EXCEPT ![p] = [conn |-> held[p], stage |-> "client"]]
    /\ pc' = [pc EXCEPT ![p] = "open"]
    /\ UNCHANGED <<pool, wires, op, mid, res, closing>>

\* NewSession answers; a shell asks for a PTY first.
OpenWorks(p) ==
    /\ At(p, "open")
    /\ Answers(held[p])
    /\ pc' = [pc EXCEPT ![p] = IF op[p] = "shell" THEN "pty" ELSE "start"]
    /\ UNCHANGED <<pool, wires, op, mid, held, res, drop, closing>>

OpenFails(p) ==
    /\ At(p, "open")
    /\ CanFail(held[p])
    /\ pc' = [pc EXCEPT ![p] = "evict"]
    /\ res' = [res EXCEPT ![p] = "error"]
    /\ UNCHANGED <<pool, wires, op, mid, held, drop, closing>>

\* withDeadline abandons NewSession and drops; the caller's error path drops
\* once more.
OpenExpires(p) ==
    /\ At(p, "open")
    /\ Take(p, mid[p])
    /\ pc' = [pc EXCEPT ![p] = "evict"]
    /\ res' = [res EXCEPT ![p] = "timeout"]
    /\ UNCHANGED <<wires, op, mid, held, closing>>

Evict(p) ==
    /\ At(p, "evict")
    /\ Take(p, mid[p])
    /\ pc' = [pc EXCEPT ![p] = "returned"]
    /\ UNCHANGED <<wires, op, mid, held, res, closing>>

\* RequestPty, then Start or Shell.
SetupWorks(p) ==
    /\ At(p, "pty") \/ At(p, "start")
    /\ Answers(held[p])
    /\ pc' = [pc EXCEPT ![p] = IF pc[p] = "pty" THEN "start" ELSE "running"]
    /\ UNCHANGED <<pool, wires, op, mid, held, res, drop, closing>>

SetupFails(p) ==
    /\ At(p, "pty") \/ At(p, "start")
    /\ CanFail(held[p])
    /\ pc' = [pc EXCEPT ![p] = "returned"]
    /\ res' = [res EXCEPT ![p] = "error"]
    /\ UNCHANGED <<pool, wires, op, mid, held, drop, closing>>

\* Bug: withDeadline reports the timeout and leaves the connection pooled.
SetupExpiresKeeps(p) ==
    /\ At(p, "pty") \/ At(p, "start")
    /\ pc' = [pc EXCEPT ![p] = "returned"]
    /\ res' = [res EXCEPT ![p] = "timeout"]
    /\ UNCHANGED <<pool, wires, op, mid, held, drop, closing>>

SetupExpires(p) ==
    /\ At(p, "pty") \/ At(p, "start")
    /\ Take(p, mid[p])
    /\ pc' = [pc EXCEPT ![p] = "returned"]
    /\ res' = [res EXCEPT ![p] = "timeout"]
    /\ UNCHANGED <<wires, op, mid, held, closing>>

Ends(p) ==
    /\ pc' = [pc EXCEPT ![p] = "returned"]
    /\ res' = [res EXCEPT ![p] = "ok"]
    /\ UNCHANGED <<pool, wires, op, mid, held, drop, closing>>

\* sess.Wait returns: the command exits, or its connection is gone.
CommandEnds(p) == At(p, "running") /\ CanFail(held[p]) /\ Ends(p)

\* Bug: Exec waits for the command without its deadline.
ExecNeverExpires(p) == FALSE /\ UNCHANGED vars

\* Exec's own deadline, while the command runs: signal, close the session,
\* keep the connection.
ExecExpires(p) == At(p, "running") /\ op[p] = "exec" /\ Ends(p)

\* A shell or a stream lives until its caller closes it.
CallerCloses(p) == At(p, "running") /\ op[p] \in {"shell", "stream"} /\ Ends(p)

-----------------------------------------------------------------------------
(* keepalive(id, c)                                                         *)

Asks(c) ==
    /\ ka[c] = "idle"
    /\ ka' = [ka EXCEPT ![c] = "asked"]
    /\ UNCHANGED <<pool, client, home, done, net, calls, drop, closing>>

Alive(c) ==
    /\ ka[c] = "asked"
    /\ Answers(c)
    /\ ka' = [ka EXCEPT ![c] = "idle"]
    /\ UNCHANGED <<pool, client, home, done, net, calls, drop, closing>>

\* Bug: no deadline on the reply; SendRequest alone reports a broken client.
DeadOnError(c) ==
    /\ ka[c] = "asked"
    /\ Breaks(c)
    /\ Take(c, home[c])
    /\ ka' = [ka EXCEPT ![c] = "stopped"]
    /\ UNCHANGED <<client, home, done, net, calls, closing>>

\* The reply is an error, or does not come within keepaliveReply. The entry
\* is dropped by machine ID. (A peer that is up may still answer too late.)
Dead(c) ==
    /\ ka[c] = "asked"
    /\ Take(c, home[c])
    /\ ka' = [ka EXCEPT ![c] = "stopped"]
    /\ UNCHANGED <<client, home, done, net, calls, closing>>

\* <-c.done, in either select.
Quits(c) ==
    /\ ka[c] \in {"idle", "asked"}
    /\ c \in done
    /\ ka' = [ka EXCEPT ![c] = "stopped"]
    /\ UNCHANGED <<pool, client, home, done, net, calls, drop, closing>>

-----------------------------------------------------------------------------
(* Close: a snapshot of the IDs, then one Drop after the other.             *)

CloseBegins ==
    /\ "close" \in Kinds
    /\ closing.phase = "no"
    /\ closing' = [left |-> {m \in Machines : pool[m] # None},
                   old |-> {pool[m] : m \in Machines} \ {None},
                   phase |-> "dropping"]
    /\ UNCHANGED <<pool, wires, calls, drop>>

\* Bug: the snapshot is walked without dropping.
CloseSkips(m) ==
    /\ m \in closing.left
    /\ closing' = [closing EXCEPT !.left = @ \ {m}]
    /\ UNCHANGED <<pool, wires, calls, drop>>

CloseDrops(m) ==
    /\ m \in closing.left
    /\ Take(Main, m)
    /\ closing' = [closing EXCEPT !.left = @ \ {m}]
    /\ UNCHANGED <<wires, calls>>

CloseEnds ==
    /\ closing.phase = "dropping"
    /\ closing.left = {}
    /\ drop[Main] = NoDrop
    /\ closing' = [closing EXCEPT !.phase = "over"]
    /\ UNCHANGED <<pool, wires, calls, drop>>

-----------------------------------------------------------------------------
\* The network: a peer stops answering, or the TCP connection is reset.
Fault(c, how) ==
    /\ client[c] = "open"
    /\ net[c] = "up"
    /\ net' = [net EXCEPT ![c] = how]
    /\ UNCHANGED <<pool, client, home, done, ka, calls, drop, closing>>

-----------------------------------------------------------------------------
Teardown(o) == CloseDone(o) \/ CloseClient(o)

\* What the goroutine of p does without waiting for anybody but a timer.
CallStep(p) ==
    \/ HandlerDrop(p) \/ GetHit(p) \/ GetMiss(p)
    \/ DialFails(p) \/ (\E c \in Conns : DialWorks(p, c)) \/ Insert(p) \/ Lose(p)
    \/ OpenWorks(p) \/ OpenFails(p) \/ OpenExpires(p) \/ Evict(p)
    \/ SetupWorks(p) \/ SetupFails(p) \/ SetupExpires(p)
    \/ (CommandEnds(p) /\ Breaks(held[p])) \/ ExecExpires(p) \/ Return(p)

KeepaliveStep(c) == Asks(c) \/ Alive(c) \/ Dead(c) \/ Quits(c)

CloseStep == (\E m \in Machines : CloseDrops(m)) \/ CloseEnds

Next ==
    \/ \E p \in Procs :
          \/ \E o \in Kinds \ {"close"}, m \in Machines : Begin(p, o, m)
          \/ CallStep(p)
          \/ CommandEnds(p)
          \/ CallerCloses(p)
    \/ \E c \in Conns : KeepaliveStep(c)
    \/ \E o \in Owners : Teardown(o)
    \/ CloseBegins
    \/ CloseStep
    \/ \E c \in Conns, how \in {"silent", "reset"} : Fault(c, how)

Spec == Init /\ [][Next]_vars

\* The Go scheduler runs every runnable goroutine, timers fire, and a call
\* on a closed client returns. Nothing is assumed of the network, of how
\* long a healthy command runs, or of callers.
Fairness ==
    /\ \A p \in Procs : WF_vars(CallStep(p))
    /\ \A c \in Conns : WF_vars(KeepaliveStep(c))
    /\ \A o \in Owners : WF_vars(Teardown(o))
    /\ WF_vars(CloseStep)

FairSpec == Spec /\ Fairness

-----------------------------------------------------------------------------
(* What must hold.                                                          *)

\* A connection in the pool serves the machine it was dialed for, is open and
\* is watched: its done channel is open and its keepalive goroutine runs. A
\* Get that finds an entry never returns a client somebody is tearing down.
PooledIsLive ==
    \A m \in Machines : pool[m] # None =>
        /\ home[pool[m]] = m
        /\ client[pool[m]] = "open"
        /\ pool[m] \notin done
        /\ ka[pool[m]] \in {"idle", "asked"}

\* Somebody is bound to close every open connection that is not in the pool:
\* the Get that has just dialed it, or one goroutine inside Drop. However
\* dials, evictions and shutdown interleave, no connection is lost.
NothingLeaks ==
    \A c \in Conns : client[c] = "open" =>
        \/ \E m \in Machines : pool[m] = c
        \/ \E p \in Procs : pc[p] = "insert" /\ held[p] = c
        \/ \E o \in Owners : drop[o].conn = c

\* close(c.done) on a closed channel panics and takes the server down: two
\* Drop calls, wherever they come from, never tear the same connection down.
TornDownOnce ==
    /\ \A o \in Owners : drop[o].stage = "done" => drop[o].conn \notin done
    /\ \A o1, o2 \in Owners : drop[o1].conn = drop[o2].conn /\ drop[o1] # NoDrop => o1 = o2

\* A call that gave up on a stuck client has taken that client out of the
\* pool: the next request cannot hang on it (withDeadline).
TimedOutIsEvicted ==
    \A p \in Procs : pc[p] \in {"evict", "returned"} /\ res[p] = "timeout" =>
        pool[mid[p]] # held[p]

\* When Close is over, nothing that was pooled when it began still is, even
\* when calls and keepalives drop and redial meanwhile.
CloseDropsTheOld == closing.phase = "over" => \A m \in Machines : pool[m] \notin closing.old

\* Every call settles: Exec and Drop return, a shell or stream is running or
\* has failed, whatever the peer does (the deadlines cover every wait).
CallsSettle ==
    \A p \in Procs : pc[p] # "idle" ~>
        pc[p] = "idle" \/ (pc[p] = "running" /\ op[p] # "exec")

\* A connection whose peer went silent or reset is closed in the end, used or
\* not: keepalive finds out when no call does. Whoever closed a connection, its
\* keepalive goroutine ends too.
BrokenIsClosed ==
    \A c \in Conns : /\ (client[c] = "open" /\ net[c] # "up") ~> client[c] = "closed"
                     /\ client[c] = "closed" ~> ka[c] \in {"off", "stopped"}

\* The life of a connection as module Pool tells it.
Life == [c \in Conns |->
    CASE client[c] = "none" -> "unused"
      [] client[c] = "closed" -> "closed"
      [] OTHER -> IF \E o \in Owners : drop[o].conn = c THEN "leaving"
                  ELSE IF pool[home[c]] = c THEN "pooled" ELSE "dialed"]

P == INSTANCE Pool WITH life <- Life

\* The broker implements Pool: one admitted connection per machine, none that
\* comes back after it left, each closed once.
ImplementsPool == P!Spec

\* The same with Pool's promises of progress.
ImplementsFairPool == P!FairSpec
=============================================================================

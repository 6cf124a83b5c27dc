------------------------------ MODULE Identity ------------------------------
(***************************************************************************)
(* Who is at the other end: one machine's row, its pinned host key, what    *)
(* was learned from its host, and its pooled connection, while requests     *)
(* that read and write them overlap. Every store statement and every        *)
(* broker call is keyed by the machine's ID, so one machine is enough.      *)
(*                                                                          *)
(* A box is a host:port, a login a user and credential. A step is one SQL    *)
(* statement, one critical section of the broker, or one exchange with the  *)
(* host; the pool itself is module Broker's business and is here just the   *)
(* entry. (internal/api: server.go, handlers.go, reach.go; internal/store:  *)
(* queries.go)                                                              *)
(***************************************************************************)
EXTENDS Naturals, FiniteSets

CONSTANTS Boxes,   \* the host:port pairs a machine may be pointed at
          Logins,  \* user and credential
          Procs,   \* goroutines: requests and the reachability poller's checks
          Kinds,   \* the operations of the run (a bound)
          MaxGen,  \* how often a box may change its host key (a bound)
          MaxRekeyed, \* how many boxes may (a bound)
          None

Calls == {"exec", "probe", "check", "stream"}
Edits == {"update", "trust", "delete", "credential"}

Rows == [box : Boxes, login : Logins \cup {None}]
Keys == [box : Boxes, gen : 0..MaxGen]          \* the gen-th host key of a box
Links == [box : Boxes, login : Logins, key : Keys] \* an SSH connection

ASSUME IdentityAssumption ==
    /\ None \notin Boxes \cup Logins \cup Rows \cup Keys \cup Links
    /\ Kinds \subseteq Calls \cup Edits
    /\ MaxGen \in Nat /\ MaxRekeyed \in Nat

VARIABLES
    row,    \* the machines row: what to dial; None once deleted
    creds,  \* the credentials table
    pin,    \* host_keys: fingerprint, or None when there is no row
    seen,   \* host_keys: seen_fingerprint
    facts,  \* host_facts: the box they were taken from, or None
    reach,  \* reach_state: the box that ok or a failure was measured on, or
            \* None when it is unknown
    strays, \* what was out of place when it was written (history)
    pool,   \* the broker's entry for the machine
    gen,    \* gen[b]: which key box b presents now
    pc,     \* pc[p]: the next step of p
    op,     \* op[p]: the operation
    tgt,    \* tgt[p]: the row p read (a call's target)
    arg,    \* arg[p]: what the request names: the new row, the echoed key, the login
    fp,     \* fp[p]: the key presented to p's handshake
    link,   \* link[p]: the connection p works on
    err,    \* err[p]: how classifyReach sees the failure p met
    ref,    \* ref[p]: the pin when p's handshake began, forgotten when the
            \* pin is changed meanwhile (history)
    shown   \* every key presented to a handshake (history)

procs == <<pc, op, tgt, arg, fp, link, err, ref, shown>>
tables == <<row, creds, pin, seen, facts, reach>>
stored == <<tables, strays>>
vars == <<stored, pool, gen, procs>>

(* The history of what is out of place: the connection by its box and login *)
(* ("pool") and by its key ("key"), the pin, the pending change, the facts  *)
(* and the reach state. A thing becomes a stray when it is written in       *)
(* disagreement with the row, or the row with it by an edit that had read   *)
(* an older row, and stays one until it is written again or agrees.         *)
Things == {"pool", "key", "pin", "seen", "facts", "reach"}

Init ==
    /\ row \in [box : Boxes, login : Logins]
    /\ creds = Logins
    /\ pin = None /\ seen = None /\ facts = None /\ reach = None /\ pool = None
    /\ strays = {}
    /\ gen = [b \in Boxes |-> 0]
    /\ pc = [p \in Procs |-> "idle"]
    /\ op = [p \in Procs |-> "none"]
    /\ tgt = [p \in Procs |-> None]
    /\ arg = [p \in Procs |-> None]
    /\ fp = [p \in Procs |-> None]
    /\ link = [p \in Procs |-> None]
    /\ err = [p \in Procs |-> "none"]
    /\ ref = [p \in Procs |-> None]
    /\ shown = {}

StoreTypeOK ==
    /\ row \in Rows \cup {None}
    /\ creds \in SUBSET Logins
    /\ pin \in Keys \cup {None}
    /\ seen \in Keys \cup {None}
    /\ facts \in Boxes \cup {None}
    /\ reach \in Boxes \cup {None}
    /\ strays \subseteq Things
    /\ pool \in Links \cup {None}
    /\ gen \in [Boxes -> 0..MaxGen]
    /\ seen # None => pin # None                   \* one host_keys row
    /\ row = None => pin = None /\ facts = None     \* ON DELETE CASCADE

RequestTypeOK ==
    /\ pc \in [Procs -> {"idle", "forget", "resolve", "get", "dial", "policy", "first", "refuse",
                         "clear", "insert", "use", "facts", "reachOK", "dropBad", "reachBad",
                         "write", "drop", "reset", "unpin", "unlearn", "remove"}]
    /\ op \in [Procs -> Kinds \cup {"none", "repoint"}]
    /\ tgt \in [Procs -> Rows \cup {None}]
    /\ arg \in [Procs -> Rows \cup Keys \cup Logins \cup {None}]
    /\ fp \in [Procs -> Keys \cup {None}]
    /\ link \in [Procs -> Links \cup {None}]
    /\ err \in [Procs -> {"none", "bad", "unknown"}]
    /\ ref \in [Procs -> Keys \cup {None}]
    /\ shown \in SUBSET Keys

TypeOK == StoreTypeOK /\ RequestTypeOK

-----------------------------------------------------------------------------
Goto(p, where) == pc' = [pc EXCEPT ![p] = where]

\* The broker's call is over: what its handshake held is gone.
Hangup(p) ==
    /\ fp' = [fp EXCEPT ![p] = None]
    /\ link' = [link EXCEPT ![p] = None]
    /\ ref' = [ref EXCEPT ![p] = None]
    /\ UNCHANGED shown

\* The handler returns, with all it held.
Finish(p) ==
    /\ Goto(p, "idle")
    /\ op' = [op EXCEPT ![p] = "none"]
    /\ tgt' = [tgt EXCEPT ![p] = None]
    /\ arg' = [arg EXCEPT ![p] = None]
    /\ err' = [err EXCEPT ![p] = "none"]
    /\ Hangup(p)

Keep == UNCHANGED <<op, tgt, arg, fp, link, err, ref, shown>>

\* The thing is of a row r: of the box r points at, the connection made with
\* its login and under the pinned key.
Fits(t, r) ==
    CASE t = "pool" -> pool # None => pool.box = r.box /\ pool.login = r.login
      [] t = "key" -> pool # None => pool.key = pin
      [] t = "pin" -> pin # None => pin.box = r.box
      [] t = "seen" -> seen # None => seen.box = r.box
      [] t = "facts" -> facts # None => facts = r.box
      [] t = "reach" -> reach # None => reach = r.box

When(c, t) == IF c THEN {t} ELSE {}
Writes(ts, wrong) == strays' = (strays \ ts) \cup wrong

Unpool == pool' = None /\ Writes({"pool", "key"}, {})

\* UPDATE and INSERT on a deleted machine: the one touches no row, the other
\* breaks the foreign key.
SetReach(b) ==
    IF row = None THEN UNCHANGED <<reach, strays>>
    ELSE reach' = b /\ Writes({"reach"}, When(b \notin {None, row.box}, "reach"))

\* A pin that is replaced or removed excuses the handshakes under way.
Excuse == ref' = [q \in Procs |-> None]

-----------------------------------------------------------------------------
(* Calls: an action's Exec (by itself or in a bulk run), the probe of the   *)
(* connect button, the poller's reachCheck, a log stream or terminal. All   *)
(* read the row, resolve its target and go through Broker.Get.              *)

StartCall(p, o) ==
    /\ pc[p] = "idle"
    /\ row # None
    /\ row.login # None
    /\ op' = [op EXCEPT ![p] = o]
    /\ tgt' = [tgt EXCEPT ![p] = row]
    /\ Goto(p, IF o = "probe" THEN "forget" ELSE "resolve")
    /\ UNCHANGED <<stored, pool, gen, arg, fp, link, err, ref, shown>>

\* probeMachine: a fresh handshake, never the pooled connection.
ProbeForgets(p) ==
    /\ pc[p] = "forget"
    /\ Unpool
    /\ Goto(p, "resolve")
    /\ Keep
    /\ UNCHANGED <<tables, gen>>

\* resolveTarget: the row's credential is read and its secret opened.
Resolves(p) ==
    /\ pc[p] = "resolve"
    /\ tgt[p].login \in creds
    /\ Goto(p, "get")
    /\ Keep
    /\ UNCHANGED <<stored, pool, gen>>

\* The credential is gone, or its secret does not open: only a probe records it.
Unresolved(p) ==
    /\ pc[p] = "resolve"
    /\ IF op[p] = "probe"
       THEN /\ err' = [err EXCEPT ![p] = "unknown"]
            /\ Goto(p, "reachBad")
            /\ UNCHANGED <<op, tgt, arg, fp, link, ref, shown>>
       ELSE Finish(p)
    /\ UNCHANGED <<stored, pool, gen>>

GetHit(p) ==
    /\ pc[p] = "get"
    /\ pool # None
    /\ link' = [link EXCEPT ![p] = pool]
    /\ Goto(p, "use")
    /\ UNCHANGED <<stored, pool, gen, op, tgt, arg, fp, err, ref, shown>>

GetMiss(p) ==
    /\ pc[p] = "get"
    /\ pool = None
    /\ Goto(p, "dial")
    /\ Keep
    /\ UNCHANGED <<stored, pool, gen>>

Failures == {"bad", "unknown"}   \* of classifyReach, whose default is unknown

\* Where a failed call goes on: a probe drops and records, a check records and
\* drops, so does an action unless the failure is of unknown kind, a stream
\* only records.
Failed(p, e) ==
    IF op[p] = "exec" /\ e = "unknown" THEN Finish(p)
    ELSE /\ err' = [err EXCEPT ![p] = e]
         /\ Goto(p, IF op[p] = "probe" THEN "dropBad" ELSE "reachBad")
         /\ Hangup(p)
         /\ UNCHANGED <<op, tgt, arg>>

DialFails(p) ==
    /\ pc[p] = "dial"
    /\ \E e \in Failures : Failed(p, e)
    /\ UNCHANGED <<stored, pool, gen>>

\* The TCP connection is up and the box presents its host key.
Presents(p) ==
    /\ pc[p] = "dial"
    /\ LET k == [box |-> tgt[p].box, gen |-> gen[tgt[p].box]]
       IN  /\ fp' = [fp EXCEPT ![p] = k]
           /\ shown' = shown \cup {k}
    /\ ref' = [ref EXCEPT ![p] = pin]
    /\ Goto(p, "policy")
    /\ UNCHANGED <<stored, pool, gen, op, tgt, arg, link, err>>

\* hostKeyPolicy: GetHostKey, and the statement it decides on, if any.
PolicyReads(p) ==
    /\ pc[p] = "policy"
    /\ Goto(p, CASE pin = None -> "first"
                 [] pin # None /\ pin # fp[p] -> "refuse"
                 [] pin = fp[p] /\ seen # None -> "clear"
                 [] pin = fp[p] /\ seen = None -> "insert")
    /\ Keep
    /\ UNCHANGED <<stored, pool, gen>>

\* PinHostKey, INSERT OR IGNORE: whoever pinned meanwhile keeps the pin, and
\* the key is accepted all the same.
FirstSight(p) ==
    /\ pc[p] = "first"
    /\ row # None
    /\ IF pin = None
       THEN pin' = fp[p] /\ Writes({"pin"}, When(fp[p].box # row.box, "pin"))
       ELSE UNCHANGED <<pin, strays>>
    /\ Goto(p, "insert")
    /\ Keep
    /\ UNCHANGED <<row, creds, seen, facts, reach, pool, gen>>

\* The machine was deleted meanwhile: the insert fails, and so does the dial.
FirstSightFails(p) ==
    /\ pc[p] = "first"
    /\ row = None
    /\ Failed(p, "unknown")
    /\ UNCHANGED <<stored, pool, gen>>

\* RecordSeenHostKey, an UPDATE of the host_keys row if there still is one.
RecordSeen(k) ==
    IF pin = None THEN UNCHANGED <<seen, strays>>
    ELSE seen' = k /\ Writes({"seen"}, When(row # None /\ k.box # row.box, "seen"))

\* Bug: the change is recorded and the connection goes on.
MismatchTolerated(p) ==
    /\ pc[p] = "refuse"
    /\ RecordSeen(fp[p])
    /\ Goto(p, "insert")
    /\ Keep
    /\ UNCHANGED <<row, creds, pin, facts, reach, pool, gen>>

\* Bug: the key seen takes the place of the pin.
MismatchReplaces(p) ==
    /\ pc[p] = "refuse"
    /\ pin' = IF pin = None THEN pin ELSE fp[p]
    /\ Failed(p, "bad")
    /\ UNCHANGED <<row, creds, seen, facts, reach, strays, pool, gen>>

\* RecordSeenHostKey; refused.
Mismatch(p) ==
    /\ pc[p] = "refuse"
    /\ RecordSeen(fp[p])
    /\ Failed(p, "bad")
    /\ UNCHANGED <<row, creds, pin, facts, reach, pool, gen>>

\* ClearSeenHostKey, as the row read held a mismatch; accepted.
Match(p) ==
    /\ pc[p] = "clear"
    /\ seen' = None
    /\ Writes({"seen"}, {})
    /\ Goto(p, "insert")
    /\ Keep
    /\ UNCHANGED <<row, creds, pin, facts, reach, pool, gen>>

\* Authentication fails after the key was accepted.
AuthFails(p) ==
    /\ pc[p] = "insert"
    /\ \E e \in Failures : Failed(p, e)
    /\ UNCHANGED <<stored, pool, gen>>

\* Get: the first to insert wins, the other uses its connection.
Insert(p) ==
    /\ pc[p] = "insert"
    /\ IF pool = None
       THEN /\ pool' = [box |-> tgt[p].box, login |-> tgt[p].login, key |-> fp[p]]
            /\ Writes({"pool", "key"}, When(tgt[p] # row, "pool") \cup When(fp[p] # pin, "key"))
       ELSE UNCHANGED <<pool, strays>>
    /\ link' = [link EXCEPT ![p] = pool']
    /\ fp' = [fp EXCEPT ![p] = None]
    /\ ref' = [ref EXCEPT ![p] = None]
    /\ Goto(p, "use")
    /\ UNCHANGED <<tables, gen, op, tgt, arg, err, shown>>

\* The command runs on a connection that has not been closed under it.
UseWorks(p) ==
    /\ pc[p] = "use"
    /\ pool = link[p]
    /\ IF op[p] = "exec" THEN Finish(p)
       ELSE Goto(p, IF op[p] = "probe" THEN "facts" ELSE "reachOK") /\ Keep
    /\ UNCHANGED <<stored, pool, gen>>

\* It fails, with (a session that cannot be opened, a deadline) or without a
\* Drop by machine ID in Exec.
UseFails(p) ==
    /\ pc[p] = "use"
    /\ Unpool \/ UNCHANGED <<pool, strays>>
    /\ \E e \in Failures : Failed(p, e)
    /\ UNCHANGED <<tables, gen>>

\* probe: UpsertFacts, then SetReach; a deleted machine fails the upsert.
LearnsFacts(p) ==
    /\ pc[p] = "facts"
    /\ row # None
    /\ facts' = link[p].box
    /\ Writes({"facts"}, When(link[p].box # row.box, "facts"))
    /\ Goto(p, "reachOK")
    /\ Keep
    /\ UNCHANGED <<row, creds, pin, seen, reach, pool, gen>>

LearnsNothing(p) ==
    /\ pc[p] = "facts"
    /\ row = None
    /\ Finish(p)
    /\ UNCHANGED <<stored, pool, gen>>

ReachOK(p) ==
    /\ pc[p] = "reachOK"
    /\ SetReach(link[p].box)
    /\ Finish(p)
    /\ UNCHANGED <<row, creds, pin, seen, facts, pool, gen>>

\* openTerminal records the session only now: its audit row is refused, and
\* the terminal ends before SetReach.
Unrecorded(p) ==
    /\ pc[p] = "reachOK"
    /\ op[p] = "stream"
    /\ Finish(p)
    /\ UNCHANGED <<stored, pool, gen>>

\* probe: Drop, then SetReach. reachCheck and actions: SetReach, then Drop.
DropBad(p) ==
    /\ pc[p] = "dropBad"
    /\ Unpool
    /\ IF op[p] = "probe" THEN Goto(p, "reachBad") /\ Keep ELSE Finish(p)
    /\ UNCHANGED <<tables, gen>>

ReachBad(p) ==
    /\ pc[p] = "reachBad"
    /\ SetReach(IF err[p] = "bad" THEN tgt[p].box ELSE None)
    /\ IF op[p] \in {"probe", "stream"} THEN Finish(p) ELSE Goto(p, "dropBad") /\ Keep
    /\ UNCHANGED <<row, creds, pin, seen, facts, pool, gen>>

-----------------------------------------------------------------------------
(* updateMachine: a box that changed is forgotten, a session that changed   *)
(* is dropped; both are decided on the row read before the form.            *)

BoxChanged(p) == op[p] = "repoint"
SessionChanged(p) == tgt[p] # arg[p]

\* What p's UPDATE makes old and p does not see: the row it read had been
\* edited by the time it writes.
Overlooks(p) ==
    {t \in Things : /\ ~Fits(t, arg[p])
                    /\ \/ t \in {"pool", "reach"} /\ row # arg[p] /\ ~SessionChanged(p)
                       \/ t \in {"pin", "seen", "facts"} /\ row.box # arg[p].box /\ ~BoxChanged(p)}

StartUpdate(p, r) ==
    /\ pc[p] = "idle"
    /\ row # None
    /\ op' = [op EXCEPT ![p] = IF row.box # r.box THEN "repoint" ELSE "update"]
    /\ tgt' = [tgt EXCEPT ![p] = row]
    /\ arg' = [arg EXCEPT ![p] = r]
    /\ Goto(p, "write")
    /\ UNCHANGED <<stored, pool, gen, fp, link, err, ref, shown>>

\* The statement is made and the pooled connection is next.
Drops(p) ==
    /\ Goto(p, "drop")
    /\ tgt' = [tgt EXCEPT ![p] = None]
    /\ arg' = [arg EXCEPT ![p] = None]
    /\ UNCHANGED <<op, fp, link, err, shown>>

UpdateWrites(p) ==
    /\ pc[p] = "write"
    /\ op[p] \in {"update", "repoint"}
    /\ arg[p].login \in creds \cup {None}
    /\ IF row = None THEN UNCHANGED <<row, strays>>
       ELSE row' = arg[p] /\ Writes({t \in Things : Fits(t, arg[p])}, Overlooks(p))
    /\ IF SessionChanged(p) THEN Drops(p) /\ UNCHANGED ref ELSE Finish(p)
    /\ UNCHANGED <<creds, pin, seen, facts, reach, pool, gen>>

\* The new credential was deleted meanwhile: the foreign key refuses.
UpdateFails(p) ==
    /\ pc[p] = "write"
    /\ op[p] \in {"update", "repoint"}
    /\ arg[p].login \notin creds \cup {None}
    /\ Finish(p)
    /\ UNCHANGED <<stored, pool, gen>>

\* Bug: the pooled connection is kept.
EditKeeps(p) ==
    /\ pc[p] = "drop"
    /\ pool' = pool
    /\ CASE op[p] \in {"update", "repoint", "trust"} -> Goto(p, "reset") /\ Keep
         [] op[p] = "delete" -> Goto(p, "remove") /\ Keep
         [] op[p] = "credential" -> Finish(p)
    /\ UNCHANGED <<stored, gen>>

\* Drop, as every edit does.
EditDrops(p) ==
    /\ pc[p] = "drop"
    /\ Unpool
    /\ CASE op[p] \in {"update", "repoint", "trust"} -> Goto(p, "reset") /\ Keep
         [] op[p] = "delete" -> Goto(p, "remove") /\ Keep
         [] op[p] = "credential" -> Finish(p)
    /\ UNCHANGED <<tables, gen>>

ResetsReach(p) ==
    /\ pc[p] = "reset"
    /\ SetReach(None)
    /\ IF BoxChanged(p) THEN Goto(p, "unpin") /\ Keep ELSE Finish(p)
    /\ UNCHANGED <<row, creds, pin, seen, facts, pool, gen>>

\* Bug: the pin of the old box stays.
UnpinsNothing(p) ==
    /\ pc[p] = "unpin"
    /\ Goto(p, "unlearn")
    /\ Keep
    /\ UNCHANGED <<stored, pool, gen>>

\* ResetHostIdentity: DELETE FROM host_keys, then FROM host_facts.
Unpins(p) ==
    /\ pc[p] = "unpin"
    /\ pin' = None /\ seen' = None
    /\ Writes({"pin", "seen"}, When(pool # None, "key"))
    /\ Excuse
    /\ Goto(p, "unlearn")
    /\ UNCHANGED <<row, creds, facts, reach, pool, gen, op, tgt, arg, fp, link, err, shown>>

Unlearns(p) ==
    /\ pc[p] = "unlearn"
    /\ facts' = None
    /\ Writes({"facts"}, {})
    /\ Finish(p)
    /\ UNCHANGED <<row, creds, pin, seen, reach, pool, gen>>

-----------------------------------------------------------------------------
(* trustHostKey: the request echoes the key the user was shown.             *)

\* Bug: the echo is not compared with the key last seen.
StartTrustUnchecked(p, k) ==
    /\ pc[p] = "idle"
    /\ pin # None
    /\ seen # None
    /\ op' = [op EXCEPT ![p] = "trust"]
    /\ arg' = [arg EXCEPT ![p] = k]
    /\ Goto(p, "write")
    /\ UNCHANGED <<stored, pool, gen, tgt, fp, link, err, ref, shown>>

StartTrust(p, k) ==
    /\ pc[p] = "idle"
    /\ pin # None
    /\ seen = k
    /\ op' = [op EXCEPT ![p] = "trust"]
    /\ arg' = [arg EXCEPT ![p] = k]
    /\ Goto(p, "write")
    /\ UNCHANGED <<stored, pool, gen, tgt, fp, link, err, ref, shown>>

\* TrustHostKey, an upsert: it brings back a row that was deleted meanwhile.
TrustWrites(p) ==
    /\ pc[p] = "write"
    /\ op[p] = "trust"
    /\ row # None
    /\ pin' = arg[p] /\ seen' = None
    /\ Writes({"pin", "seen"}, When(arg[p].box # row.box, "pin"))
    /\ Excuse
    /\ Drops(p)
    /\ UNCHANGED <<row, creds, facts, reach, pool, gen>>

TrustFails(p) ==
    /\ pc[p] = "write"
    /\ op[p] = "trust"
    /\ row = None
    /\ Finish(p)
    /\ UNCHANGED <<stored, pool, gen>>

-----------------------------------------------------------------------------
(* deleteMachine: Drop, then the row; keys and facts cascade.               *)

StartDelete(p) ==
    /\ pc[p] = "idle"
    /\ row # None
    /\ op' = [op EXCEPT ![p] = "delete"]
    /\ Goto(p, "drop")
    /\ UNCHANGED <<stored, pool, gen, tgt, arg, fp, link, err, ref, shown>>

Removes(p) ==
    /\ pc[p] = "remove"
    /\ row' = None /\ pin' = None /\ seen' = None /\ facts' = None /\ reach' = None
    /\ Writes({"pin", "seen", "facts", "reach"}, {})
    /\ Finish(p)
    /\ UNCHANGED <<creds, pool, gen>>

(* deleteCredential: list the machines that use it, delete it (SET NULL),   *)
(* drop the listed connections.                                             *)

StartCredential(p, l) ==
    /\ pc[p] = "idle"
    /\ op' = [op EXCEPT ![p] = "credential"]
    /\ tgt' = [tgt EXCEPT ![p] = row]
    /\ arg' = [arg EXCEPT ![p] = l]
    /\ Goto(p, "write")
    /\ UNCHANGED <<stored, pool, gen, fp, link, err, ref, shown>>

Listed(p) == tgt[p] # None /\ tgt[p].login = arg[p]

CredentialGoes(p) ==
    /\ pc[p] = "write"
    /\ op[p] = "credential"
    /\ creds' = creds \ {arg[p]}
    /\ row' = IF row # None /\ row.login = arg[p] THEN [row EXCEPT !.login = None] ELSE row
    /\ Writes({}, When(row # None /\ row.login = arg[p] /\ ~Listed(p), "pool"))
    /\ IF Listed(p) THEN Drops(p) /\ UNCHANGED ref ELSE Finish(p)
    /\ UNCHANGED <<pin, seen, facts, reach, pool, gen>>

-----------------------------------------------------------------------------
\* A box is reinstalled: new host key. Established connections live on.
Rekey(b) ==
    /\ gen[b] < MaxGen
    /\ Cardinality({c \in Boxes \ {b} : gen[c] > 0}) < MaxRekeyed
    /\ gen' = [gen EXCEPT ![b] = @ + 1]
    /\ UNCHANGED <<stored, pool, procs>>

\* The pooled connection breaks and keepalive evicts it.
LinkBreaks ==
    /\ pool # None
    /\ Unpool
    /\ UNCHANGED <<tables, gen, procs>>

CallStep(p) ==
    \/ ProbeForgets(p) \/ Resolves(p) \/ Unresolved(p) \/ GetHit(p) \/ GetMiss(p)
    \/ DialFails(p) \/ Presents(p) \/ PolicyReads(p) \/ FirstSight(p) \/ FirstSightFails(p)
    \/ Mismatch(p) \/ Match(p) \/ AuthFails(p) \/ Insert(p) \/ UseWorks(p) \/ UseFails(p)
    \/ LearnsFacts(p) \/ LearnsNothing(p) \/ ReachOK(p) \/ Unrecorded(p)
    \/ DropBad(p) \/ ReachBad(p)

EditStep(p) ==
    \/ UpdateWrites(p) \/ UpdateFails(p) \/ EditDrops(p) \/ ResetsReach(p) \/ Unpins(p)
    \/ Unlearns(p) \/ TrustWrites(p) \/ TrustFails(p) \/ Removes(p) \/ CredentialGoes(p)

\* Any request may come at any time, and any of them overlap.
Start(p) ==
    \/ \E o \in Calls \cap Kinds : StartCall(p, o)
    \/ "update" \in Kinds /\ \E r \in Rows : StartUpdate(p, r)
    \/ "trust" \in Kinds /\ \E k \in Keys : StartTrust(p, k)
    \/ "delete" \in Kinds /\ StartDelete(p)
    \/ "credential" \in Kinds /\ \E l \in Logins : StartCredential(p, l)

Next ==
    \/ \E p \in Procs : Start(p) \/ CallStep(p) \/ EditStep(p)
    \/ \E b \in Boxes : Rekey(b)
    \/ LinkBreaks

Spec == Init /\ [][Next]_vars

-----------------------------------------------------------------------------
(* What holds however requests overlap.                                     *)

\* "Nothing can be trusted that the host did not actually present"
\* (trustHostKey): the pin and the pending change are keys that some handshake
\* of this machine was shown.
OnlyPresentedKeys == {pin, seen} \ {None} \subseteq shown

\* A pin is replaced by another key only by a trust request that echoes that
\* very key, whatever handshakes record and clear around it.
ReplacedByEchoOnly ==
    [][pin # None /\ pin' \notin {pin, None} =>
          \E p \in Procs : op[p] = "trust" /\ pc[p] = "write" /\ arg[p] = pin']_vars

\* A changed key is blocked: while a pin stands, untouched by trust, reset or
\* deletion since the handshake began, no handshake that was shown another
\* key gets through to the pool.
BlocksChangedKey ==
    \A p \in Procs : pc[p] = "insert" /\ ref[p] # None => fp[p] = ref[p]

-----------------------------------------------------------------------------
(* What edits forget.                                                       *)

\* p's edit has been written and p has yet to forget the thing for it.
Owes(p, t) ==
    \/ t = "pool" /\ op[p] \in {"update", "repoint", "credential"} /\ pc[p] = "drop"
    \/ t = "key" /\ op[p] = "trust" /\ pc[p] = "drop"
    \/ t = "reach" /\ op[p] \in {"update", "repoint"} /\ pc[p] \in {"drop", "reset"}
    \/ /\ BoxChanged(p)
       /\ \/ t \in {"pin", "seen"} /\ pc[p] \in {"drop", "reset", "unpin"}
          \/ t = "facts" /\ pc[p] \in {"drop", "reset", "unpin", "unlearn"}

Forgotten(t) == row # None => Fits(t, row) \/ t \in strays \/ \E p \in Procs : Owes(p, t)

\* "Just drop the pooled connection so nothing keeps running under the old
\* identity" (handlers.go:167): whatever overlaps, a connection that was of
\* the row when it was pooled is of the row's box, login and pinned key, or an
\* edit under way has yet to drop it. What the code does not promise is a
\* stray: a dial that an edit overtook pools the old box after the Drop.
OldConnectionsAreDropped == \A t \in {"pool", "key"} : Forgotten(t)

\* "Forgets everything learned from a machine's host ... The next probe pins
\* and fingerprints fresh" (queries.go:284): whatever overlaps, the pin, the
\* pending change, the facts and the reach state that were of the row's box
\* when they were written are of it still, or an edit under way has yet to
\* forget them.
OldBoxIsForgotten == \A t \in {"pin", "seen", "facts", "reach"} : Forgotten(t)

Editing == \E p \in Procs : op[p] \in Edits \cup {"repoint"}

\* The same words taken without that exception: once no edit is under way,
\* what is pooled was dialed to the row's box with the row's login.
NothingOldIsPooled ==
    ~Editing /\ pool # None /\ row # None =>
        pool.box = row.box /\ pool.login = row.login
=============================================================================

------------------------------ MODULE CloudSync ------------------------------
(***************************************************************************)
(* The fleet table and the cloud: the periodic sync and the sync button,    *)
(* which mirror an account's instances into the machines table, next to     *)
(* everything that writes the same rows: the machine form, deletions,       *)
(* accounts coming and going, power actions and the reachability poller;    *)
(* and the cloud itself, whose instances start, stop and change their       *)
(* address meanwhile. A crash may end it all and leaves the tables.         *)
(*                                                                          *)
(* A step is one SQL statement (one transaction for deleteAccount), one     *)
(* call of the broker, or one answer of a provider. The instances are one   *)
(* tenancy that every account row gives access to; login and credential     *)
(* never change here (module Identity), and what a sync tells the account   *)
(* of its outcome (SetSyncResult), which no request reads, is left out.     *)
(* (internal/api: sync.go, reach.go, handlers.go; internal/store:           *)
(* queries.go)                                                              *)
(***************************************************************************)
EXTENDS Naturals, FiniteSets

CONSTANTS Machines,   \* IDs of machines rows (AUTOINCREMENT; bounds the run)
          Accounts,   \* IDs of cloud_accounts rows (the same)
          Instances,  \* provider instance IDs
          Addresses,  \* IP addresses and host names
          Procs,      \* goroutines: handlers, the refresh ticker, the poller
          Kinds,      \* the operations of the run (a bound)
          Complete,   \* ListInstances returns every instance or an error
          MaxChanges, \* how often the cloud changes or the process dies (a bound)
          None        \* NULL, '' and no row

Users == {"update", "create", "delete", "account"}

NoLink == [acct |-> None, inst |-> None]
Links == [acct : Accounts, inst : Instances]
Powers == {"running", "stopped"}    \* "pending" is never told from "running"
Rows == [acct : Accounts \cup {None}, inst : Instances \cup {None},
         power : Powers \cup {"unknown"}, pub : Addresses \cup {None},
         host : Addresses \cup {None}, missing : BOOLEAN,
         reach : {"unknown", "ok", "bad"},
         of : Addresses \cup {None}]     \* the address reach was measured on (history)
Forms == [host : Addresses \cup {None}, link : Links \cup {NoLink}]
Clouds == [power : Powers, ip : Addresses \cup {None}]

ASSUME CloudSyncAssumption ==
    /\ None \notin Machines \cup Accounts \cup Instances \cup Addresses \cup Procs
    /\ None \notin Rows \cup Clouds
    /\ Kinds \subseteq Users \cup {"sync", "power", "check", "crash"}
    /\ Complete \in BOOLEAN
    /\ MaxChanges \in Nat

VARIABLES
    cloud,     \* cloud[i]: instance i at the provider, or None
    changes,   \* how many of these changes and deaths there have been
    accounts,  \* the cloud_accounts rows
    acctIds,   \* account IDs handed out so far
    row,       \* row[m]: the machines row, or None
    ids,       \* machine IDs handed out so far
    strays,    \* strays[m]: what of m was out of place when written (history)
    pool,      \* pool[m]: the address the broker's connection of m goes to
    mu,        \* who holds syncMu
    job        \* job[p]: what goroutine p is doing, and its local variables

tables == <<accounts, acctIds, row, ids>>
db == <<tables, strays>>
vars == <<cloud, changes, db, pool, mu, job>>

Idle == [op |-> "none", at |-> "idle",
         acct |-> None,                  \* sync, power: the account
         list |-> {}, todo |-> {},       \* sync: what the provider returned, what is left of it
         was |-> {},                     \* sync: the instances there were then (history)
         inst |-> None,                  \* sync, power: the instance at hand
         id |-> None,                    \* the machine at hand
         host |-> None, pub |-> None,    \* what was read of its row
         power |-> "unknown",            \* power: what the provider answered
         form |-> None]                  \* update: the request's body

Init ==
    /\ cloud \in [Instances -> {None} \cup [power : {"running"}, ip : Addresses]]
    /\ changes = 0
    /\ \E a \in Accounts : accounts = {a}
    /\ acctIds = accounts
    /\ row = [m \in Machines |-> None]
    /\ ids = {}
    /\ strays = [m \in Machines |-> {}]
    /\ pool = [m \in Machines |-> None]
    /\ mu = None
    /\ job = [p \in Procs |-> Idle]

(* The history of what is out of place. The connection and the reach state   *)
(* become strays when they are made with another address than the row's, or *)
(* when the address is changed by a write that sees nothing to drop (its    *)
(* author had read an older row), and stay so until they are made anew; the *)
(* link, when it is changed between a sync's SELECT and its UPDATE.         *)
Things == {"pool", "reach", "link"}

Listed == [inst : Instances, power : Powers, ip : Addresses \cup {None}]

Jobs == [op : Kinds \cup {"none"},
         at : {"idle", "account", "list", "item", "write", "drop", "reset", "result", "edit",
               "remove", "power", "ask", "store", "exec", "ok", "bad", "dropBad"},
         acct : Accounts \cup {None},
         list : SUBSET Listed, todo : SUBSET Listed, was : SUBSET Instances,
         inst : Instances \cup {None}, id : Machines \cup {None},
         host : Addresses \cup {None}, pub : Addresses \cup {None},
         power : Powers \cup {"unknown"}, form : Forms \cup {None}]

TypeOK ==
    /\ cloud \in [Instances -> Clouds \cup {None}]
    /\ changes \in 0..MaxChanges
    /\ accounts \subseteq acctIds /\ acctIds \subseteq Accounts
    /\ row \in [Machines -> Rows \cup {None}]
    /\ ids \subseteq Machines
    /\ strays \in [Machines -> SUBSET Things]
    /\ pool \in [Machines -> Addresses \cup {None}]
    /\ mu \in Procs \cup {None}
    /\ job \in [Procs -> Jobs]
    /\ \A m \in Machines : row[m] # None =>      \* foreign key; what validate asks of both
          row[m].acct \in accounts \cup {None} /\ (row[m].acct = None <=> row[m].inst = None)

-----------------------------------------------------------------------------
Exists(m) == row[m] # None
Linked(a, i) == {m \in Machines : Exists(m) /\ row[m].acct = a /\ row[m].inst = i}
Free(l) == l = NoLink \/ Linked(l.acct, l.inst) = {}    \* the unique index

At(p, where) == job[p].at = where
Goto(p, where) == job' = [job EXCEPT ![p].at = where]
Finish(p) == job' = [job EXCEPT ![p] = Idle]

\* The handler goes on with the machine and nothing else of what it held.
GoesOn(p, where) ==
    job' = [job EXCEPT ![p] = [Idle EXCEPT !.op = job[p].op, !.at = where, !.id = job[p].id]]

\* The thing is of the address.
Fits(t, m, host) ==
    \/ t = "pool" /\ pool[m] \in {None, host}
    \/ t = "reach" /\ (row[m].reach = "unknown" \/ row[m].of = host)

\* p moved m to another address and has yet to forget the thing for it.
Owes(p, t, m) ==
    /\ job[p].id = m /\ job[p].op \in {"sync", "update"}
    /\ At(p, "drop") \/ (t = "reach" /\ At(p, "reset"))

\* The things are written anew, those of them that are wrong out of place.
Writes(m, ts, wrong) == strays' = [strays EXCEPT ![m] = (@ \ ts) \cup wrong]

\* What m loses when its ssh_host is overwritten and nothing is dropped.
Overtaken(m, host) ==
    IF Exists(m) /\ row[m].host # host THEN {t \in {"pool", "reach"} : ~Fits(t, m, host)} ELSE {}

\* A sync is between its SELECT of m and its UPDATE.
Found(m) == \E p \in Procs : At(p, "write") /\ job[p].id = m

\* sync returns: the deferred unlock.
Unlock(p) == mu' = None /\ Finish(p)

-----------------------------------------------------------------------------
(* sync, from the button or the ticker.                                     *)

\* Bug: no syncMu.
StartSyncUnlocked(p, a) ==
    /\ At(p, "idle")
    /\ mu' = p
    /\ job' = [job EXCEPT ![p] = [Idle EXCEPT !.op = "sync", !.at = "account", !.acct = a]]
    /\ UNCHANGED <<cloud, changes, db, pool>>

StartSync(p, a) ==
    /\ At(p, "idle")
    /\ mu = None
    /\ mu' = p
    /\ job' = [job EXCEPT ![p] = [Idle EXCEPT !.op = "sync", !.at = "account", !.acct = a]]
    /\ UNCHANGED <<cloud, changes, db, pool>>

\* GetCloudAccount and providerFor.
FindsAccount(p) ==
    /\ At(p, "account")
    /\ job[p].acct \in accounts
    /\ Goto(p, "list")
    /\ UNCHANGED <<cloud, changes, db, pool, mu>>

\* The account is gone, or its provider cannot be made (a secret that does
\* not open); the account is not told.
NoProvider(p) ==
    /\ At(p, "account")
    /\ Unlock(p)
    /\ UNCHANGED <<cloud, changes, db, pool>>

There == {i \in Instances : cloud[i] # None}

\* Bug: an error is taken for an account without instances.
ListFailsQuietly(p) ==
    /\ At(p, "list")
    /\ job' = [job EXCEPT ![p] = [@ EXCEPT !.at = "item", !.list = {}, !.todo = {}, !.was = There]]
    /\ UNCHANGED <<cloud, changes, db, pool, mu>>

\* The provider does not answer, or refuses; the account is told.
ListFails(p) ==
    /\ At(p, "list")
    /\ Unlock(p)
    /\ UNCHANGED <<cloud, changes, db, pool>>

\* The provider answers. An adapter that stops paging early and reports no
\* error returns only some of them.
ListWorks(p) ==
    /\ At(p, "list")
    /\ \E some \in (IF Complete THEN {There} ELSE SUBSET There) :
          LET list == {[inst |-> i, power |-> cloud[i].power, ip |-> cloud[i].ip] : i \in some}
          IN  job' = [job EXCEPT ![p] =
                         [@ EXCEPT !.at = "item", !.list = list, !.todo = list, !.was = There]]
    /\ UNCHANGED <<cloud, changes, db, pool, mu>>

\* Bug: the instance is looked up without its account.
SelectsByInstance(p, e) ==
    /\ At(p, "item")
    /\ e \in job[p].todo
    /\ LET found == {m \in Machines : Exists(m) /\ row[m].inst = e.inst}
           m == CHOOSE x \in found : TRUE
       IN  job' = [job EXCEPT ![p] =
                      [@ EXCEPT !.at = "write", !.inst = e.inst,
                                !.id = IF found = {} THEN None ELSE m,
                                !.host = IF found = {} THEN None ELSE row[m].host,
                                !.pub = IF found = {} THEN None ELSE row[m].pub]]
    /\ UNCHANGED <<cloud, changes, db, pool, mu>>

\* UpsertFromCloud, first statement: SELECT id, ssh_host, public_ip.
Selects(p, e) ==
    /\ At(p, "item")
    /\ e \in job[p].todo
    /\ LET found == Linked(job[p].acct, e.inst)
           m == CHOOSE x \in found : TRUE
       IN  job' = [job EXCEPT ![p] =
                      [@ EXCEPT !.at = "write", !.inst = e.inst,
                                !.id = IF found = {} THEN None ELSE m,
                                !.host = IF found = {} THEN None ELSE row[m].host,
                                !.pub = IF found = {} THEN None ELSE row[m].pub]]
    /\ UNCHANGED <<cloud, changes, db, pool, mu>>

\* The element of the list that is being written.
Item(p) == CHOOSE e \in job[p].todo : e.inst = job[p].inst
NextItem(p, where) ==
    job' = [job EXCEPT ![p] =
               [@ EXCEPT !.at = where, !.todo = job[p].todo \ {Item(p)},
                         !.inst = None, !.host = None, !.pub = None]]

\* Second statement, no row: INSERT, with ssh_host pre-filled.
Inserts(p, m) ==
    /\ At(p, "write")
    /\ job[p].id = None
    /\ job[p].acct \in accounts
    /\ Linked(job[p].acct, job[p].inst) = {}
    /\ m \notin ids
    /\ row' = [row EXCEPT ![m] =
                  [acct |-> job[p].acct, inst |-> job[p].inst, power |-> Item(p).power,
                   pub |-> Item(p).ip, host |-> Item(p).ip, missing |-> FALSE,
                   reach |-> "unknown", of |-> None]]
    /\ ids' = ids \cup {m}
    /\ NextItem(p, "item")
    /\ UNCHANGED <<cloud, changes, accounts, acctIds, strays, pool, mu>>

\* The foreign key or the unique index refuses (or the run has no ID left, a
\* bound); the sync ends there.
InsertFails(p) ==
    /\ At(p, "write")
    /\ job[p].id = None
    /\ job[p].acct \notin accounts \/ Linked(job[p].acct, job[p].inst) # {} \/ ids = Machines
    /\ Unlock(p)
    /\ UNCHANGED <<cloud, changes, db, pool>>

\* Bug: ssh_host follows whatever it was.
FollowsAlways(p) == Item(p).ip \notin {None, job[p].pub}

\* ssh_host follows the public IP when it was tracking it.
Follows(p) ==
    /\ job[p].host = job[p].pub
    /\ Item(p).ip \notin {None, job[p].pub}

\* Bug: an instance that is back stays flagged missing.
RefreshesKeepsMissing(p) ==
    /\ At(p, "write")
    /\ job[p].id # None
    /\ row' = IF ~Exists(job[p].id) THEN row
              ELSE [row EXCEPT ![job[p].id] =
                       [@ EXCEPT !.power = Item(p).power, !.pub = Item(p).ip,
                                 !.host = IF Follows(p) THEN Item(p).ip ELSE job[p].host]]
    /\ Writes(job[p].id, {"link"}, IF Follows(p) THEN {} ELSE Overtaken(job[p].id, job[p].host))
    /\ NextItem(p, IF Follows(p) THEN "drop" ELSE "item")
    /\ UNCHANGED <<cloud, changes, accounts, acctIds, ids, pool, mu>>

\* Second statement, a row: UPDATE ... WHERE id, every cloud column and
\* ssh_host, changed or not.
Refreshes(p) ==
    /\ At(p, "write")
    /\ job[p].id # None
    /\ row' = IF ~Exists(job[p].id) THEN row
              ELSE [row EXCEPT ![job[p].id] =
                       [@ EXCEPT !.power = Item(p).power, !.pub = Item(p).ip,
                                 !.host = IF Follows(p) THEN Item(p).ip ELSE job[p].host,
                                 !.missing = FALSE]]
    /\ Writes(job[p].id, {"link"}, IF Follows(p) THEN {} ELSE Overtaken(job[p].id, job[p].host))
    /\ NextItem(p, IF Follows(p) THEN "drop" ELSE "item")
    /\ UNCHANGED <<cloud, changes, accounts, acctIds, ids, pool, mu>>

\* MarkMissing.
Marks(p) ==
    /\ At(p, "item")
    /\ job[p].todo = {}
    /\ LET seen == {e.inst : e \in job[p].list}
       IN  row' = [m \in Machines |->
                      IF /\ Exists(m)
                         /\ row[m].acct = job[p].acct
                         /\ row[m].inst \notin seen \cup {None}
                      THEN [row[m] EXCEPT !.missing = TRUE] ELSE row[m]]
    /\ Goto(p, "result")
    /\ UNCHANGED <<cloud, changes, accounts, acctIds, ids, strays, pool, mu>>

\* Bug: this return does not unlock.
RecordsLocked(p) ==
    /\ At(p, "result")
    /\ Finish(p)
    /\ UNCHANGED <<cloud, changes, db, pool, mu>>

\* SetSyncResult, and the return.
Records(p) ==
    /\ At(p, "result")
    /\ Unlock(p)
    /\ UNCHANGED <<cloud, changes, db, pool>>

-----------------------------------------------------------------------------
(* Drop, and SetReach(unknown): a sync that moved ssh_host, an edit, a       *)
(* power action, a deletion.                                                *)

Unpool(m) == pool' = [pool EXCEPT ![m] = None] /\ Writes(m, {"pool"}, {})

Drops(p) ==
    /\ At(p, "drop")
    /\ Unpool(job[p].id)
    /\ Goto(p, CASE job[p].op = "power" -> "ask"
                 [] job[p].op = "delete" -> "remove"
                 [] OTHER -> "reset")
    /\ UNCHANGED <<cloud, changes, tables, mu>>

\* A state other than "unknown" was measured on address a.
SetReach(m, s, a) ==
    IF ~Exists(m) THEN UNCHANGED <<row, strays>>
    ELSE /\ row' = [row EXCEPT ![m] = [@ EXCEPT !.reach = s, !.of = a]]
         /\ Writes(m, {"reach"}, IF s = "unknown" \/ a = row[m].host THEN {} ELSE {"reach"})

\* Bug: reachability is not reset.
ResetsNothing(p) ==
    /\ At(p, "reset")
    /\ IF job[p].op = "sync" THEN Goto(p, "item") ELSE Finish(p)
    /\ UNCHANGED <<cloud, changes, db, pool, mu>>

Resets(p) ==
    /\ At(p, "reset")
    /\ SetReach(job[p].id, "unknown", None)
    /\ IF job[p].op = "sync" THEN Goto(p, "item") ELSE Finish(p)
    /\ UNCHANGED <<cloud, changes, accounts, acctIds, ids, pool, mu>>

-----------------------------------------------------------------------------
(* The machine form, and deletions.                                         *)

StartUpdate(p, m, f) ==
    /\ At(p, "idle")
    /\ Exists(m)
    /\ job' = [job EXCEPT ![p] = [Idle EXCEPT !.op = "update", !.at = "edit", !.id = m,
                                              !.host = row[m].host, !.form = f]]
    /\ UNCHANGED <<cloud, changes, db, pool, mu>>

\* What the foreign key and the unique index say to the link in the form; a
\* row that is gone meanwhile breaks neither.
Refused(m, l) ==
    /\ Exists(m)
    /\ l.acct \notin accounts \cup {None} \/ ~(l = NoLink \/ Linked(l.acct, l.inst) \subseteq {m})

Has(r, l) == r.acct = l.acct /\ r.inst = l.inst

\* UpdateMachine writes the user's columns, and no other.
UpdateWrites(p) ==
    /\ At(p, "edit")
    /\ LET m == job[p].id
           f == job[p].form
       IN  /\ ~Refused(m, f.link)
           /\ row' = IF ~Exists(m) THEN row
                     ELSE [row EXCEPT ![m] = [@ EXCEPT !.host = f.host, !.acct = f.link.acct,
                                                       !.inst = f.link.inst]]
           /\ Writes(m, {}, (IF f.host # job[p].host THEN {} ELSE Overtaken(m, f.host))
                               \cup (IF Found(m) /\ Exists(m) /\ ~Has(row[m], f.link)
                                    THEN {"link"} ELSE {}))
           /\ IF f.host # job[p].host THEN GoesOn(p, "drop") ELSE Finish(p)
    /\ UNCHANGED <<cloud, changes, accounts, acctIds, ids, pool, mu>>

UpdateFails(p) ==
    /\ At(p, "edit")
    /\ Refused(job[p].id, job[p].form.link)
    /\ Finish(p)
    /\ UNCHANGED <<cloud, changes, db, pool, mu>>

\* createMachine: one INSERT.
Creates(p, m, f) ==
    /\ At(p, "idle")
    /\ m \notin ids
    /\ f.link.acct \in accounts \cup {None}
    /\ Free(f.link)
    /\ row' = [row EXCEPT ![m] =
                  [acct |-> f.link.acct, inst |-> f.link.inst, power |-> "unknown", pub |-> None,
                   host |-> f.host, missing |-> FALSE, reach |-> "unknown", of |-> None]]
    /\ ids' = ids \cup {m}
    /\ UNCHANGED <<cloud, changes, accounts, acctIds, strays, pool, mu, job>>

StartDelete(p, m) ==
    /\ At(p, "idle")
    /\ Exists(m)
    /\ job' = [job EXCEPT ![p] = [Idle EXCEPT !.op = "delete", !.at = "drop", !.id = m]]
    /\ UNCHANGED <<cloud, changes, db, pool, mu>>

Removes(p) ==
    /\ At(p, "remove")
    /\ row' = [row EXCEPT ![job[p].id] = None]
    /\ Writes(job[p].id, Things, {})
    /\ Finish(p)
    /\ UNCHANGED <<cloud, changes, accounts, acctIds, ids, pool, mu>>

\* createAccount, once the provider has accepted the credentials.
CreatesAccount(p, a) ==
    /\ At(p, "idle")
    /\ a \notin acctIds
    /\ accounts' = accounts \cup {a}
    /\ acctIds' = acctIds \cup {a}
    /\ UNCHANGED <<cloud, changes, row, ids, strays, pool, mu, job>>

Stripped(r) == [r EXCEPT !.acct = None, !.inst = None, !.power = "unknown", !.missing = FALSE]

\* Bug: only the foreign key's SET NULL.
DeletesAccountBarely(p, a) ==
    /\ At(p, "idle")
    /\ a \in accounts
    /\ row' = [m \in Machines |->
                  IF Exists(m) /\ row[m].acct = a THEN [row[m] EXCEPT !.acct = None] ELSE row[m]]
    /\ accounts' = accounts \ {a}
    /\ UNCHANGED <<cloud, changes, acctIds, ids, strays, pool, mu, job>>

\* DeleteCloudAccount, one transaction. It does not take syncMu.
DeletesAccount(p, a) ==
    /\ At(p, "idle")
    /\ a \in accounts
    /\ row' = [m \in Machines |->
                  IF Exists(m) /\ row[m].acct = a THEN Stripped(row[m]) ELSE row[m]]
    /\ strays' = [m \in Machines |->
                     strays[m] \cup IF Exists(m) /\ row[m].acct = a /\ Found(m)
                                    THEN {"link"} ELSE {}]
    /\ accounts' = accounts \ {a}
    /\ UNCHANGED <<cloud, changes, acctIds, ids, pool, mu, job>>

-----------------------------------------------------------------------------
(* powerMachine: the call, the audit (not here), Drop, and what the          *)
(* provider says of the instance afterwards.                                *)

StartPower(p, m) ==
    /\ At(p, "idle")
    /\ Exists(m)
    /\ row[m].acct # None
    /\ job' = [job EXCEPT ![p] = [Idle EXCEPT !.op = "power", !.at = "power", !.id = m,
                                              !.acct = row[m].acct, !.inst = row[m].inst]]
    /\ UNCHANGED <<cloud, changes, db, pool, mu>>

\* The account is gone, or the provider refuses.
PowerFails(p) ==
    /\ At(p, "power")
    /\ Finish(p)
    /\ UNCHANGED <<cloud, changes, db, pool, mu>>

\* An instance that is stopped gives its ephemeral address back, one that
\* starts gets another; a fixed address stays.
Stopped(c) == {[power |-> "stopped", ip |-> a] : a \in {None, c.ip}}
Started(c) == {[power |-> "running", ip |-> a] : a \in IF c.ip = None THEN Addresses ELSE {c.ip}}

Changes(i, to) ==
    /\ changes < MaxChanges
    /\ changes' = changes + 1
    /\ cloud' = [cloud EXCEPT ![i] = to]

\* Then the audit row is written; if it cannot be (the machine is gone), that
\* is the end, with the connection and the power state as they were.
PowerWorks(p) ==
    /\ At(p, "power")
    /\ cloud[job[p].inst] # None
    /\ \E to \in Stopped(cloud[job[p].inst]) \cup Started(cloud[job[p].inst]) :
          Changes(job[p].inst, to)
    /\ Goto(p, "drop") \/ Finish(p)
    /\ UNCHANGED <<db, pool, mu>>

\* GetPowerState, an error or an answer.
PowerAsks(p) ==
    /\ At(p, "ask")
    /\ \/ Finish(p)
       \/ /\ cloud[job[p].inst] # None
          /\ job' = [job EXCEPT ![p] = [@ EXCEPT !.at = "store",
                                                 !.power = cloud[job[p].inst].power]]
    /\ UNCHANGED <<cloud, changes, db, pool, mu>>

PowerStores(p) ==
    /\ At(p, "store")
    /\ row' = IF Exists(job[p].id)
              THEN [row EXCEPT ![job[p].id] = [@ EXCEPT !.power = job[p].power]] ELSE row
    /\ Finish(p)
    /\ UNCHANGED <<cloud, changes, accounts, acctIds, ids, strays, pool, mu>>

-----------------------------------------------------------------------------
(* The reachability poller's check of a machine it read from the table. Get  *)
(* and Exec are one step here; Identity tells them apart.                   *)

StartCheck(p, m) ==
    /\ At(p, "idle")
    /\ Exists(m)
    /\ row[m].host # None
    /\ ~(row[m].acct # None /\ row[m].power = "stopped")
    /\ job' = [job EXCEPT ![p] = [Idle EXCEPT !.op = "check", !.at = "exec", !.id = m,
                                              !.host = row[m].host]]
    /\ UNCHANGED <<cloud, changes, db, pool, mu>>

\* The address that a check of m talks to.
Reached(p) == IF pool[job[p].id] = None THEN job[p].host ELSE pool[job[p].id]

CheckWorks(p) ==
    /\ At(p, "exec")
    /\ LET m == job[p].id
       IN  /\ pool' = [pool EXCEPT ![m] = Reached(p)]
           /\ Writes(m, {}, IF pool[m] = None /\ Exists(m) /\ job[p].host # row[m].host
                            THEN {"pool"} ELSE {})
    /\ job' = [job EXCEPT ![p] = [@ EXCEPT !.at = "ok", !.host = None, !.pub = Reached(p)]]
    /\ UNCHANGED <<cloud, changes, tables, mu>>

CheckFails(p) ==
    /\ At(p, "exec")
    /\ job' = [job EXCEPT ![p] = [@ EXCEPT !.at = "bad", !.host = None, !.pub = Reached(p)]]
    /\ UNCHANGED <<cloud, changes, db, pool, mu>>

ReachOK(p) ==
    /\ At(p, "ok")
    /\ SetReach(job[p].id, "ok", job[p].pub)
    /\ Finish(p)
    /\ UNCHANGED <<cloud, changes, accounts, acctIds, ids, pool, mu>>

\* SetReach of what classifyReach makes of the error, which may be "unknown",
\* then Drop.
ReachBad(p) ==
    /\ At(p, "bad")
    /\ SetReach(job[p].id, "bad", job[p].pub) \/ SetReach(job[p].id, "unknown", None)
    /\ GoesOn(p, "dropBad")
    /\ UNCHANGED <<cloud, changes, accounts, acctIds, ids, pool, mu>>

DropBad(p) ==
    /\ At(p, "dropBad")
    /\ Unpool(job[p].id)
    /\ Finish(p)
    /\ UNCHANGED <<cloud, changes, tables, mu>>

-----------------------------------------------------------------------------
(* The world.                                                               *)

\* An instance is launched (or becomes visible), is given another address,
\* stops, starts, or is gone.
CloudChanges(i) ==
    /\ \E to \in {None} \cup [power : {"running"}, ip : Addresses]
                  \cup (IF cloud[i] = None THEN {} ELSE Stopped(cloud[i])) :
          to # cloud[i] /\ Changes(i, to)
    /\ UNCHANGED <<db, pool, mu, job>>

\* The process dies and is started again: the tables are what is left. A
\* reach state that was yet to be reset stays.
Crash ==
    /\ changes < MaxChanges
    /\ changes' = changes + 1
    /\ mu' = None
    /\ job' = [p \in Procs |-> Idle]
    /\ pool' = [m \in Machines |-> None]
    /\ strays' = [m \in Machines |->
                     (strays[m] \ {"pool", "link"}) \cup
                        {t \in {"reach"} : \E p \in Procs : Owes(p, t, m)}]
    /\ UNCHANGED <<cloud, tables>>

-----------------------------------------------------------------------------
SyncStep(p) ==
    \/ FindsAccount(p) \/ NoProvider(p) \/ ListFails(p) \/ ListWorks(p)
    \/ (\E e \in job[p].todo : Selects(p, e))
    \/ (\E m \in Machines : Inserts(p, m)) \/ InsertFails(p)
    \/ Refreshes(p) \/ Marks(p) \/ Records(p)

Step(p) ==
    \/ Drops(p) \/ Resets(p) \/ UpdateWrites(p) \/ UpdateFails(p) \/ Removes(p)
    \/ PowerFails(p) \/ PowerWorks(p) \/ PowerAsks(p) \/ PowerStores(p)
    \/ CheckWorks(p) \/ CheckFails(p) \/ ReachOK(p) \/ ReachBad(p) \/ DropBad(p)

Start(p) ==
    \/ "sync" \in Kinds /\ \E a \in acctIds : StartSync(p, a)
    \/ "update" \in Kinds /\ \E m \in Machines, f \in Forms : StartUpdate(p, m, f)
    \/ "delete" \in Kinds /\ \E m \in Machines : StartDelete(p, m)
    \/ "create" \in Kinds /\ \E m \in Machines, f \in Forms : Creates(p, m, f)
    \/ "account" \in Kinds /\ \E a \in Accounts : CreatesAccount(p, a) \/ DeletesAccount(p, a)
    \/ "power" \in Kinds /\ \E m \in Machines : StartPower(p, m)
    \/ "check" \in Kinds /\ \E m \in Machines : StartCheck(p, m)

Next ==
    \/ \E p \in Procs : Start(p) \/ SyncStep(p) \/ Step(p)
    \/ "crash" \in Kinds /\ Crash
    \/ \E i \in Instances : CloudChanges(i)

Spec == Init /\ [][Next]_vars

\* The ticker syncs every account again and again, a goroutine that runs goes
\* on (every provider call has a deadline), and an account whose provider is made
\* and asked for ever has one that answers for ever.
Fairness ==
    /\ \A p \in Procs :
          /\ WF_vars(SyncStep(p) \/ Step(p))
          /\ SF_vars(FindsAccount(p)) /\ SF_vars(ListWorks(p))
    /\ \A a \in Accounts : SF_vars(a \in accounts /\ \E p \in Procs : StartSync(p, a))

FairSpec == Spec /\ Fairness

-----------------------------------------------------------------------------
(* What holds whatever overlaps.                                            *)

\* "A provider API blip should never silently erase the fleet" (MarkMissing):
\* a machine is flagged missing only by a sync of its own account whose
\* complete list, taken earlier, did not have the instance because the
\* provider did not.
MissingWasAbsent ==
    [][\A m \in Machines :
          Exists(m) /\ ~row[m].missing /\ row'[m] # None /\ row'[m].missing =>
              \E p \in Procs : /\ job[p].op = "sync" /\ job[p].acct = row[m].acct
                               /\ job[p].todo = {} /\ row[m].inst \notin job[p].was]_vars

(* What holds as long as nobody edits the rows a sync works on.              *)

\* syncMu: between the SELECT that finds no row and the INSERT, nobody else
\* inserts it, so two overlapping syncs of an account never fail on each other.
SyncsDoNotCollide ==
    \A p \in Procs : At(p, "write") /\ job[p].id = None => Linked(job[p].acct, job[p].inst) = {}

\* At its end a sync has made the table say what the provider said: every
\* listed instance has a machine with its address that is not missing, and
\* every other machine of the account is flagged.
SyncShowsTheList ==
    \A p \in Procs : At(p, "result") =>
        /\ \A e \in job[p].list : \E m \in Linked(job[p].acct, e.inst) :
              row[m].pub = e.ip /\ ~row[m].missing
        /\ \A m \in Machines : Exists(m) /\ row[m].acct = job[p].acct =>
              (row[m].missing <=> row[m].inst \notin {e.inst : e \in job[p].list})

\* Once the cloud is quiet the fleet shows it: every instance has a machine
\* with its power state and address, every machine whose instance is gone is
\* flagged, and it stays so.
Mirrors ==
    \A a \in accounts :
        /\ \A i \in There : \E m \in Linked(a, i) :
              row[m].power = cloud[i].power /\ row[m].pub = cloud[i].ip /\ ~row[m].missing
        /\ \A m \in Machines : Exists(m) /\ row[m].acct = a =>
              (row[m].missing <=> row[m].inst \notin There)

FleetConverges == <>[]Mirrors

(* What the code says of a sync, of edits and of what they forget: whatever  *)
(* overlaps, and where it is more than the code promises, the property says *)
(* which interleaving, and only that one, is left out.                      *)

\* "A user-set ssh_host ... is left untouched" (UpsertFromCloud): a sync
\* changes a row's ssh_host only if it is the row's public IP, or was edited
\* between the sync's SELECT and its UPDATE.
TypedHostIsKept ==
    [][\A p \in Procs : job[p].op = "sync" /\ job'[p].op = "sync" /\ job'[p] # job[p] =>
          \A m \in Machines : Exists(m) /\ row'[m] # None /\ row'[m].host # row[m].host =>
              row[m].host = row[m].pub \/ row[m].host # job[p].host]_vars

\* A sync writes the rows that are linked to its account's instances and no
\* other: what deleteAccount stripped stays stripped, what the user unlinked
\* is left alone, unless that came between its SELECT and its UPDATE.
SyncWritesItsOwnRows ==
    [][\A p \in Procs : At(p, "write") /\ job'[p].at # "write" =>
          \A m \in Machines : Exists(m) /\ row'[m] # row[m] =>
              \/ row[m].acct = job[p].acct /\ row[m].inst = job[p].inst
              \/ "link" \in strays[m]]_vars

\* "The pooled connection points at the old IP; drop it and reset reachability
\* so the fleet reflects unknown until re-probed rather than a stale ok" (sync):
\* what is pooled goes to the machine's address and a reach state was measured
\* there, or whoever moved the machine has yet to forget it. Left out (strays)
\* are what a check that began before the move made after it, a move that an
\* overtaken edit or sync undoes without a word, and a reset a crash cut off.
NothingOfTheOldHost ==
    \A m \in Machines, t \in {"pool", "reach"} : Exists(m) =>
        Fits(t, m, row[m].host) \/ t \in strays[m] \/ \E p \in Procs : Owes(p, t, m)

\* "A machine whose ssh_host still equals its previous public IP was clearly
\* following that IP, so it should keep following" across a stop/start
\* (UpsertFromCloud): where nobody ever typed an address, ssh_host is the
\* public IP whenever there is one.
FollowsPublicIP == \A m \in Machines : Exists(m) /\ row[m].pub # None => row[m].host = row[m].pub
=============================================================================

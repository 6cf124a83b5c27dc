# Cloudroof in TLA+

Cloudroof is one Go process with a SQLite file and a web page. It keeps a table
of machines, mirrors the instances of cloud accounts into it, keeps one SSH
connection per machine, and runs catalogued commands on them. This directory
holds its specification: TLA+ modules translated from the Go source, model
checked with TLC on small instances, and theorems proved with TLAPS for every
value of the constants.

## 1. Inventory

| Part (source) | State | Operations | Talks to |
|---|---|---|---|
| Broker (`internal/sshx/broker.go`) | `conns`: machine ID -> client; per client `done` and a keepalive goroutine | Get, Drop, Close, keepalive, Exec, OpenShell, OpenStream, withDeadline | every handler, the poller, shutdown; the peers' sshd |
| Host identity (`api/server.go`, `api/handlers.go`) | rows of `machines`, `host_keys`, `host_facts`, `credentials`; the pool entry | resolveTarget, hostKeyPolicy, probe, updateMachine, trustHostKey, deleteMachine, deleteCredential | store, broker (the policy runs inside the handshake) |
| Cloud sync (`api/sync.go`) | rows of `cloud_accounts` and `machines`; `syncMu` | sync, UpsertFromCloud, MarkMissing, SetSyncResult, refreshPowerStates | provider adapters, store, broker (Drop) |
| Power (`api/handlers.go` powerMachine) | `power_state` | Power, Drop, GetPowerState, SetPowerState | provider, store, broker |
| Reachability poller (`api/reach.go`) | `sched`: next check and failures per machine | reachSweep, reachCheck, scheduleNext | broker, store |
| Action engine (`actions/engine.go`, `catalog.go`) | the catalog; rows of `custom_actions` and `runs` | lookup, gate, Prepare, render, applySudo, Run | broker, store (audit) |
| Bulk runs, groups (`api/bulk.go`, `api/groups.go`) | rows of `groups` | targets, gate, fan-out of 5 at a time | engine |
| Streams, terminals (`api/stream.go`, `api/terminal.go`) | a WebSocket and a session each | open, two pumps, close | broker, browser |
| Store (`store/*.go`) | the SQLite file (WAL, foreign keys, 4 connections) | one statement per call, two transactions; migrations | everything |
| Keyring (`keyring/keyring.go`) | the key file or an environment variable | loadOrCreate, Seal, OpenSealed | credentials, accounts |
| Providers (`provider/`) | none; six SDK adapters | ListInstances, GetPowerState, Power | sync, power |
| HTTP guard (`api/server.go`) | none | guard, hostAllowed, originOK, error mapping | browser |
| Lifecycle (`cmd/cloudroof/main.go`) | contexts, a wait group | start, shutdown with a 5 s cap | everything |
| Web page, scripts | none that matters | | API |

What is hard here is not any one operation. The handlers, the ticker, the poller,
the keepalives and the sessions are goroutines over one table and one pool, and
almost nothing holds a lock across two store statements: a row is read, a
network call of seconds is made, and what was read is used. `PROJECT.json`
lists the hazards at their lines, with the property that would show each.

What makes each part correct:

* broker: one live connection per machine; none lost, none torn down twice, no
  stuck one handed out; every call settles;
* identity: a changed key is blocked until a user echoes it; an edit leaves nothing
  behind that was learned from, or is connected to, the box the row pointed at before;
* sync: a machine is flagged missing only if its provider said so; what the
  user typed is kept; syncs do not collide; the table catches up with the cloud;
* engine, bulk: what ran is in the audit log or the caller knows that it is not;
  bulk workers run what was confirmed; records outlive machines; a shutdown waits
  for its handlers; every request is answered;
* poller: its schedules have one owner at a time and go with their machines; the
  backoff is positive and capped; reach_state comes to say what the box is;
* streams, terminals: either side's end is the session's end, and every way out
  closes what was opened;
* start: a crash, a full disk or a second process never leaves a schema no version
  has, nor a key that cannot open what was sealed;
* providers: a list that is returned leaves out nothing, and its IDs lead back to
  the instances.

## 2. Modules

| Module | Models | Lines of argument |
|---|---|---|
| `Pool` | what the broker promises: the life of a connection, unused -> dialed -> pooled -> leaving -> closed | abstract specification |
| `Broker` | `internal/sshx/broker.go`, one step per critical section, answer or timer | implements `Pool` (`Broker!ImplementsPool`) |
| `BrokerProofs` | types, four invariants, Close, the refinement | TLAPS |
| `Identity` | one machine's row, pin, facts, reach state and pool entry under overlapping requests | |
| `IdentityProofs` | types, three properties of host keys, two of edits, whatever overlaps | TLAPS |
| `CloudSync` | the fleet table, the accounts and the cloud | |
| `CloudSyncProofs` | types, all six safety properties, IDs and the unique index | TLAPS |
| `AuditLog` | what the audit log promises a reader: the life of each command | abstract specification |
| `Engine` | requests, bulk workers, streams, terminals and power actions, the audit log, shutdown | implements `AuditLog` (`Engine!ImplementsAuditLog`) |
| `EngineProofs` | types, four properties of the log, the confirmation and the shutdown, the refinement | TLAPS |
| `Sessions` | one browser tab's stream or terminal: the handler, its goroutines, the shared connection | |
| `SessionsProofs` | types, `OverIsClosed` | TLAPS |
| `ReachPoller` | the reachability loop: sweeps, goroutines, schedules, backoff, restarts | |
| `ReachPollerProofs` | types, `SchedHasOneOwner`, the backoff, what was pruned stays so | TLAPS |
| `Startup` | key file, migrations and port, several processes, crashes | |
| `StartupProofs` | types, `SchemaIsWhole`, `ServingOpensAll` | TLAPS |
| `Adapters` | ListInstances of the six adapters in a cloud that changes; instance IDs | what CloudSync's `Complete` assumes |
| `AdaptersProofs` | `IdLeadsBack`, `ListIsFaithful` | TLAPS |
| `MCBroker`, `MCIdentity`, ... | symmetry sets and small instances for TLC | |

The definitions named `...Blindly`, `...Keeps`, `...Unchecked` and so on, each
under a `Bug:` comment, are not part of any specification. Each is a plausible
mistake in the definition after it, and shows that a property would notice.

### Broker

`pool` is `b.conns`; a connection's `client`, `done`, `ka` and `net` are the
ssh.Client, the channel `c.done`, the keepalive goroutine and the network under
it. A call (`Begin` .. `Return`) runs through `get`, `dial`, `insert` (the second
critical section of Get: `Insert` or `Lose`), `open` (NewSession under
withDeadline), `pty`, `start` and `running`. Drop is three steps with an owner
(`Take`, `CloseDone`, `CloseClient`), because the Go function unlocks after the
first. Close takes a snapshot of the IDs and drops them one by one. `Fault` makes
a connection silent or reset at any time. What a deadline does is nondeterministic
(`OpenExpires`, `SetupExpires`, `ExecExpires`): the timer may fire first even on a
healthy connection.

The refinement mapping `Life` reads a connection's place in `Pool` off the
client, the pool entry and the drop in progress.

### Identity

One machine is enough: each statement and each broker call is keyed by its ID.
A *box* is a host and port, a *login* a user and a credential; box `b`'s key has a
generation that `Rekey` advances. A call is an action's Exec (alone or in a bulk run),
a probe, the poller's check, a stream or terminal. Its handshake is three steps
(`Presents`, `PolicyReads`, and one of `FirstSight`, `FirstSightFails`, `Mismatch`,
`Match`), since hostKeyPolicy reads the pin and acts on it in two statements. A call
that fails does so in one of the two ways classifyReach tells apart (`Failures`): an
error it names ("bad"), or any other ("unknown"). `Failed` says what each kind of call
makes of it: a probe does Drop and SetReach, a check SetReach and Drop, an action and a
bulk worker the same but nothing at all when the error is unknown (`handlers.go:473`,
`bulk.go:128`), a stream or terminal SetReach alone; a probe whose credential does not
resolve writes "unknown" (`Unresolved`). updateMachine is read, write, Drop, SetReach and
the two DELETEs of ResetHostIdentity, in the code's order. Get, Insert and Drop are the
broker's critical sections reduced to the one entry; `Broker` is where their own races
are checked.

Requests of every kind overlap in every way. `strays` is the history that lets the
properties say something true all the same: the things (connection, its key, pin, pending
change, facts, reach state) that were already out of place when they were written. A
thing becomes a stray when a request that an edit has overtaken writes it (a dial of the
old box pools its connection after updateMachine's Drop, a probe of the old box pins its
key after the reset, two first handshakes are both accepted and the second's key is not
the pin), or when an edit that had itself been overtaken moves the row under it without a
Drop or a reset; it is one no longer once it is written again, or agrees with the row. The
two properties are that *every other* thing is of the row's box, or owed by an edit that
is under way (`Owes`). `ref` and `shown` are history too: the pin a handshake
began under, the keys that were ever shown.

### CloudSync

`cloud` is the provider's side: instances appear, stop, start, change address and
go. A stopped instance may lose its address and gets another when it starts.
A sync holds `mu` (syncMu), makes its provider (`NoProvider`: the account is gone or its
secret does not open), asks for the list, and per instance does SELECT (`Selects`), then
INSERT or UPDATE (`Inserts`, `Refreshes`), then Drop and SetReach when ssh_host followed;
then `Marks`, `Records`. The second statement writes what the first one read. Around it:
the machine form, deletions, accounts (deleteAccount is one transaction and does not take
syncMu), power actions, a reachability check, and a crash, which leaves the tables and
nothing else. `Complete` says whether ListInstances keeps its contract. SetSyncResult is
left out: nothing but the page reads what it writes.

`strays[m]` is the same kind of history as in `Identity`: "pool" and "reach" are there
when they were made with another address than the row's (a check begun before the row
moved), when the address moved under them by a write that dropped nothing because its
author had read an older row, and, for "reach", when a crash cut off the reset that an
edit or a sync owed; "link" is there when a row's account or instance was changed between
a sync's SELECT and its UPDATE. `of` is the address a reach state was measured on.

### Engine

A job `<<r, 0>>` is the goroutine that serves request `r`, `<<r, i>>` the worker of
its `i`-th bulk target; `pc` is the statement, exchange or decision it comes to next:

    run, worker  lookup -> machine -> facts -> exec -> running -> log -> done
    stream       lookup -> machine -> facts -> upgrade -> log -> exec -> session -> done
    terminal     machine -> upgrade -> exec -> log -> session -> done
    power        machine -> exec -> running -> log -> done
    bulk         lookup -> group | list ... -> gate -> fan -> done
    worker       wait -> lookup ...

`ask` is what was asked and confirmed, `got` the tier and the machine row the job
has read, `result` what the caller is told. A machine's row is its name, what it can
be reached through (`via`: HasHost, HasCloud) and whether it has the tag of the one
group. `runs[j]` is the audit row of `j`'s command. Between any two steps a machine
is edited, deleted (its facts go, its audit rows lose the ID), probed or re-pointed,
and a custom action is deleted or saved again with another danger. `life` is the
process: `Signal` begins Shutdown, `Drains` ends it when no handler is left (a
hijacked connection is no handler), `GraceExpires` after 5 s, `Exits` and `Crash`
lose what is in flight and leave the tables. `Powers` has two members: `"stop"`
stands for the four that the code treats alike.

Where a command goes, which connection carries it and what its failure does to the
reach state (SetReach, Drop) is in `Identity`, `CloudSync` and `Broker`; what a power
action does to `power_state` in `CloudSync`. InsertRun can fail here because its
machine is gone, not because the disk is full.

`ImplementsAuditLog` maps all of this to `AuditLog`, which knows commands and no
requests. A command is a job that has read its machine and not ended (`Order`: the row
it will write, and what the user gave with it); it is done when it is in `ran`; its row is
`runs[j]`; `Told` is what its caller knows, a bulk worker's caller through the result of
its machine; the machines there are `Present`. So one property says what the code promises
in three places: that everything that reaches a host is recorded, as what was
confirmed (`engine.go:192`, `bulk.go:119`), that nobody gets a session that is not
recorded (`terminal.go:85`), and that a row, once written, stays.

### Sessions

`pc[s]` is the handler of tab `s`: `record -> open -> scan <-> write -> leave -> over`
for a stream, `open -> record -> select -> leave -> over` for a terminal (the code
records a stream before it opens it, a terminal after). `reader`, `copier` and
`waiter` are the goroutines: what reads the websocket, what takes the remote output,
and `sess.Wait`. A stream's copier and waiter are in `OpenStream` (`broker.go:599`,
`620`): the copier writes into a pipe, and `writing` is a write that waits for the scan
loop; a terminal's pump writes to the websocket itself. `Drop` ends all sessions on the
shared connection at once; `Broker` has everyone who drops it. `canceled` is the
handler's ctx.

### ReachPoller

`sched[m]` is the entry of the poller's map: the failures in a row and whether
`sc.next` has passed (`Due` lets it). `SweepStarts` is the loop over the list,
`check[m]` the goroutine of a machine that is due, `SweepEnds` wg.Wait and the pruning.
A check that cannot get a slot is `queued`; one whose credential does not resolve counts
as failed and writes no state. A check that fails writes what classifyReach makes of the
error: a state it has a name for ("bad"), or "unknown", for a host name that does not
resolve, a reset, a handshake cut short, a command timeout. `Stops` cancels the checks
under way, and each fails in one of these ways; `Exits` forgets the schedules, not the
table. `Meddles` is everybody else: a probe, an edit, an action, a stream, a sync that
writes reach_state, and one that drops the connection a check is using, which fails the
check of a box that is up. `ReachTracksBox` is about the machines that are left alone
in the end (`LeftAlone`): nobody else may then write what it found, but the poller must
still get over all that was written before.
`Backoff` is Go's arithmetic: a Duration is the set of the one bits of an int64, since
TLC's own integers have 32; 60 * 10^9 is 29296875 * 2^11.

### Startup

A process goes `key -> truncate -> write -> version -> migrate -> record -> commit ->
... -> listen -> serving`. os.WriteFile is two steps, for it empties the file before it
writes; a transaction takes SQLite's write lock with its first statement and holds it to
the commit; MAX(version) is read before, once. `Init` has every data directory there
may be: a new one, one of each release, one whose `host_keys` columns came early
(`store.go:101-105`). A process that ends is started again.

### Adapters

`kind` is the adapter. A list is paged by number (Hetzner's SDK, DigitalOcean) or by
a cursor; AWS asks its regions a few at a time and Google its projects in turn, the
others have one list. Instances are created and destroyed between the pages; EC2 lists
a terminated one until it is `Purged`. Instances are numbered, and a list is in their
order: `Rank` is an instance's position, `Before` what earlier pages covered, `NextPage`
what to ask for next. An instance ID is a sequence of the names it is joined from and of
the separators and fixed words between them (`IdOf`); that no name holds a separator is an
assumption, the code's own (`google.go:183`). Whoever acts on it takes it apart again
(`LeadsTo`): strings.Cut at the first colon, SplitN at slashes, and parseVMID's loop, which
looks for two words among the parts and keeps the part after the *last* of each
(`PartsAfter`); `Target` is what answers to the result. `slipped` marks the calls
during which a page number lost its meaning or a link could not be read.

## 3. Runs

`tlc -config <cfg> <module>` in this directory; sizes are distinct states.

| Run | Bounds | Shows | States |
|---|---|---|---|
| `broker_races` | 1 machine, 2 connections, 2 goroutines: shells, streams, Drop, shutdown | all broker invariants, Close drops what there was | 2.4 M |
| `broker_live` | 1 machine, 2 connections, 2 goroutines: Exec, fairness | calls settle, broken connections close and their keepalives end, implements Pool with fairness | 179 k |
| `identity` | 2 boxes, 1 login, 1 new key, 2 requests of any kind but a check, in any overlap | what an edit makes old is dropped and forgotten; keys presented, blocking, replaced by echo | 5.3 M |
| `identity_stale_pool` | 2 overlapping requests | violated: see findings | |
| `sync_overlap` | 2 accounts, 1 machine, 1 instance, 2 addresses, 1 change of the cloud or crash; 2 requests in any overlap: syncs, checks, edits, creations, deletions, accounts | rows and accounts consistent, typed hosts kept, own rows only, the old host forgotten | 3.5 M |
| `sync_live` | 2 machines, 2 instances, 2 goroutines: syncs, power, a crash, fairness | syncs neither collide nor misreport; missing is earned; the fleet converges | 89 k |
| `sync_follow_comment` | 1 machine | violated: see findings | |
| `engine` | 1 request of any kind with 2 workers, 1 at a time; 2 machines, 3 built-ins, 1 custom action, 2 edits, shutdown or crash, fairness | all properties of Engine | 729 k |
| `sessions` | a stream and a terminal on one connection, fairness | every way out closes; either end ends it; what stays behind | 12 k |
| `poller` | 2 machines, 1 slot, failures counted to 4, 1 stop, others meddle, fairness | schedules owned, pruned, capped; reach_state true in the end | 68 k |
| `startup` | 3 processes, 3 keys, 2 faults, every initial directory, fairness | schema whole, secrets readable, a start succeeds | 590 k |
| `adapters` | 6 adapters, 3 instances with one name, 2 regions or groups (one of them called resourceGroups), 1 a page, 1 region at a time, fairness | lists faithful, IDs lead back, listing ends | 180 k |

**Bounds.** The races of the broker need a dialer, a rival and a stale holder of an
earlier connection: two goroutines and two connections, each with its keepalive, give
those; machines do not interact in the broker. In `identity` and in CloudSync two
goroutines give every pairwise overlap, which is what a request needs to be overtaken by
another; the theorems are for any number. The poller's checks are left out of `identity`
for its size, as they do nothing there that neither a stream nor an action does but write
an unknown state; they overlap the edits in `sync_overlap`. One box may change its key once (`MaxGen`,
`MaxRekeyed`): a handshake needs a second key of the box it is pinned to, and the other
box has a key of its own. In CloudSync one row is enough to be overtaken; two
addresses give a move, two account rows the question whose machine it is, and
`sync_live` has two instances for an order within the loop. IDs are never reused
(AUTOINCREMENT), so a run ends when they are used up, which `InsertFails` turns into an
error rather than a deadlock.
Requests share nothing in Engine but the stored rows, so one request with its workers
meets every change another could make through the edits, of which there are two: one
between the gate and a worker's own lookup, one after it. A list that names a machine
twice is among the inputs. The semaphore has one token for two workers, so one waits.
In Sessions a tab meets the others only through the connection, so one of each kind
shows what a shared drop does. In ReachPoller a machine to which everything happens
and one beside it show what a neighbour does to a check, and one slot for the two lets a
check wait for the other; from four failures on nothing depends on their number, which
`BackoffIsCappedDoubling` itself establishes up to the shift by 64. In Startup two
processes race and a third comes after them; two faults are a crash in each. In Adapters
three instances at one a page make three pages, the least in which one can be lost in the
middle; two of them differ in their zone alone and two in their region alone. Two group
names are the words parseVMID looks for, so that it may misread them.
The runs of Engine and Sessions may stop (`CHECK_DEADLOCK FALSE`): the requests of a
run are used up, a tab is opened once.

**Symmetry** is used for safety runs over constants that are only compared; never
for liveness.

**Fairness.** `Broker!Fairness`: the Go scheduler runs every runnable goroutine,
timers fire, a call on a closed client returns; nothing is assumed of the network,
of a healthy command, or of callers. `CloudSync!Fairness`: a goroutine that runs
goes on, because every provider call and every Exec has a deadline; the ticker
syncs every account again and again (StartBackground); and a provider that is
asked for ever answers for ever (strong fairness of `ListWorks`), without which no
mirror can converge. syncMu is taken with strong fairness: Go's mutex hands over
to a waiter that has waited over a millisecond. `Engine!Fairness`: a goroutine that
can go on does, since every Exec and every provider call has a deadline; nothing is
assumed of a session, which may last for ever, of edits or of the process.
`Sessions!Fairness`: a goroutine that can run does, since writes to a websocket have
deadlines (10 s) and so has the set-up; nothing is assumed of the browser, of the
remote command, nor that the host ever prints a line. `ReachPoller!Fairness`: the ticker
ticks, delays pass, checks have a timeout (15 s); a list that fails is a tick without
effect, so the list must not fail for ever. `Startup!Fairness`: a process that ended is
started again and goes on. `Adapters!Fairness`: a request is answered or fails (the HTTP
clients have deadlines).

## 4. Findings

Each is a run with a counterexample, quoted against the code's own comment in
`PROJECT.json`.

* `identity_stale_pool`: a dial begun before updateMachine pools its connection
  after updateMachine's Drop.
* `sync_follow_comment`: a machine that follows its public IP stops following after
  a sync that runs while the instance is stopped without an address.

Other disagreements met while modelling, and where the models show them:

* keepalive (`sshx/broker.go:177`) drops by machine ID, so a stale one evicts the
  healthy connection that replaced the one it watched; the comment at `157-159` speaks
  of the dead one (`Dead` in `Broker`);
* a machine is deleted while a command runs on it: the audit row breaks the foreign key
  (`schema.go:94`) and the command leaves no record, though `engine.go:191-192` says
  that every path writes one. `RanIsRecorded` says that the caller is told;
* a stream whose host is silent is not closed when its browser goes away, though
  `stream.go:94` says so: the handler looks at the context after a line
  (`EndsWithEitherSide`, `Silent`); and a line of more than a megabyte, which "Long
  lines are still delivered whole" does not expect, ends the loop and leaves the copier
  and the waiter behind for good (`OnlyBlockedCopiersStay`);
* DigitalOcean's list is partial, without an error, when its links do not parse
  (`digitalocean.go:66`), against `provider.go:64-68`; the two adapters with page numbers
  skip a machine when one on a page already read is deleted meanwhile (`slipped` in
  `Adapters`). With `Complete = FALSE`, `MissingWasAbsent` shows the sync flag live
  machines;
* when Azure's addresses cannot be read (`azure.go:95`) its machines are listed without
  any, and those that followed theirs stop, as in `sync_follow_comment`;
* `reach.go:76` says that a power-on makes the state unknown and that the next sweep
  checks again: neither is so, the old state stands until the backoff is over;
* two first runs at once may leave the second's key on the disk and the first's secrets
  unreadable (`raced` in `Startup`); a first run that dies while it writes the key file
  leaves one that every later start refuses (`StartsInTheEnd`);
* a custom action may be deleted and saved again with another danger between runBulk's
  gate (`api/bulk.go:45`) and a worker's own lookup (`actions/engine.go:127`), whose
  gate the fan-out satisfies beforehand (`bulk.go:123`): `WorkersRunAsConfirmed` says
  what is left, and what holds for built-ins;
* Shutdown waits 5 s and no longer (`main.go:105`), and never for streams and
  terminals, before broker and store are closed: `DrainLosesNoHandler` is about the
  shutdowns that finish;
* a call that is dialing while its machine is deleted pools a connection under an ID
  that nothing will ask for again; it stays until it breaks or the process ends
  (`handlers.go:198`);
* a list that names a machine twice counts it twice, and runs the action on it twice;
* `azure.go:276-277` says that parseVMID pulls the group and the name out of an ID; it keeps
  the last match, so that in `/subscriptions/s/resourceGroups/resourceGroups/providers/...`
  the group is read as "providers", and the call acts on a VM of the same name in a group
  of that name if there is one. `IdLeadsBack` leaves out the groups with that name
  (`Misread`), and `adapters` has one;
* a check whose failure classifyReach has no name for (`handlers.go:277-278`) leaves
  "unknown", which is also what an edit writes: "unreachable" and "not looked at yet" look
  the same. `ReachTracksBox` therefore promises of a box that is down only that its state
  comes to be other than ok.

What the code's comments say of an edit or a sync is lost in certain overlaps. The
properties hold for every overlap because their history (`strays`, section 2) names
those, and nothing else, as exceptions:

* `OldBoxIsForgotten`: a probe of the old box pins or fingerprints it after
  ResetHostIdentity, and a check writes its reach state; of two edits the later to write
  may have read the row before the other's, and compares with the wrong one;
* `OldConnectionsAreDropped`: a dial that an edit overtakes (`identity_stale_pool` is the
  same words without the exception); two first handshakes that are shown different keys
  are both accepted, since PinHostKey is INSERT OR IGNORE;
* `TypedHostIsKept`: UpsertFromCloud's UPDATE rewrites an ssh_host typed since its SELECT;
* `SyncWritesItsOwnRows`: it writes the cloud columns of a row that deleteAccount has
  stripped, or the user has unlinked, since its SELECT;
* `NothingOfTheOldHost`: a check of the old address reports the new one reachable; a
  sync's UPDATE writes back an address without a Drop; a crash comes between
  updateMachine's write and its reset.

## 5. Proofs

All are checked by `tlapm` with no assumption but the named ones on constants
(`BrokerAssumption`, `IdentityAssumption`, ...: `None` is no member of anything, the
kinds are known ones, `MaxTargets` bounds the lists and the fleet, IDs of built-in and
custom actions differ, a key is not the word for a missing one, a name in an instance ID
holds no separator). They hold for any number of
machines, connections, goroutines, boxes, accounts and instances.

* **BrokerProofs.** `IInv` joins the invariants to what they lack to be inductive:
  a dialed connection that is not yet inserted is known to its dialer alone
  (`InsertInv`); a connection in the hands of Drop is open, in nobody else's hands
  and out of the pool (`DropInv`); a connection not yet dialed has left no trace
  (`ConnInv`). From it: `TypeCorrect`, `PoolIsLive`, `NoConnectionLeaks`,
  `NoDoubleTeardown`, `NoStuckClientPooled`. `CloseIsComplete` adds that an old
  connection is pooled only under an ID still to be dropped. `BrokerImplementsPool`
  maps each step to a step of Pool or a stutter.
* **IdentityProofs.** hostKeyPolicy decides on a pin it read earlier, so
  `BlocksChangedKey` is not inductive: `PinInv` says the pin a handshake began
  under still stands, unless the machine is gone. `StackInv` says what each place
  in a handler holds. From them `TypeCorrect`, `PinsWerePresented`,
  `ChangedKeysAreBlocked`, `PinsAreReplacedByEcho`.
  The second half is about edits, for requests of every kind in any overlap.
  `ForgetInv` says of each of six things that it fits the row, is a stray, or is owed by an
  edit. It is carried statement by statement: a call that writes a thing writes one that
  fits or marks it; an edit's UPDATE makes old only what it then owes (it saw the row
  change) or marks (`Overlooks`); each Drop, reset and DELETE pays for the thing it
  forgets. From it `OldConnectionsGo` and `OldBoxGoes`, without a hypothesis on what
  overlaps.
* **CloudSyncProofs.** `JobFit` says what a request still knows of what it read; a
  sync holds `mu` to its end, and its complete list stands for all the instances
  there were. From it `TypeCorrect`; `MissingIsEarned`, under `Complete`; and
  `NoCollision`, for runs in which nobody links machines by hand: only `Marks` flags a
  row, only `Inserts`, `Creates` and `UpdateWrites` link one.
  The rest is about what a row read by one statement still is when the next writes it.
  `RowEffects` says once, per action, which rows it adds, removes or writes and which
  columns it keeps; every later step is argued from that, not from the actions.
  `TableInvariance` (IDs are given once, an instance has one row) holds whatever
  overlaps, and so do the three properties of edits. `ReadInv` says what a sync still
  knows between its SELECT and its UPDATE: the public IP it read is the row's, since only
  a sync writes that column and syncMu keeps the others out, and the row is linked to
  its instance unless the link is a stray. It gives `TypedHostsStay` and
  `SyncStaysInItsRows`. `ForgetInv` says of each connection and reach state that it fits
  the row's address, is a stray, or is owed by whoever moved the row, after each
  statement of every request and after a crash; it gives `OldHostIsForgotten`. Two
  invariants carry it through what others do at the same time: the machine a request
  holds (`HeldGiven`) and one with a connection (`PoolGiven`) have had their IDs given
  out, so that neither is the one that is being created.
  `SyncsShowTheirLists` needs that users keep off the table, or that requests come one at
  a time (`Undisturbed(Users)`), for what it says is lost to an edit beside the sync:
  `ShowInv` is that the elements dealt with are shown, and the one being written has the
  row that was found, whether the list is complete or not. Syncs, power actions, checks
  and crashes may overlap it: syncMu is what makes that true of two syncs.
* **EngineProofs.** That a command is recorded needs to know what comes before it:
  `JobFits` says what a job is and has read at each place, `RowFits` which jobs have
  run and which have their row, `WorkerFits` that a worker is started by a request that
  passed its gate and asks for what that one asked, `TierFits` which tier each has read
  and that its gate was passed, `SemFits` that the semaphore counts the workers between
  lookup and log, `Drained` that after a complete drain only hijacked connections are in
  flight. A step of one job is framed (`Frame`, `OthersFit`, `OtherWorkersFit`), so each
  action is a lemma about its own job. From `IInv`: `TypeCorrect`,
  `CommandsAreRecorded`, `BulkIsConfirmed`, `RecordsSurvive`, `DrainIsComplete`, for any
  fleet, catalog and number of requests at once. `EngineImplementsAuditLog` is the
  refinement, one lemma per action: `AdmitImplements` for the step that reads the machine,
  `ReachImplements` for the one that runs the command, `LogsImplements` for the row, and so
  on. Most of what it needs is in `IInv`: that a gate was passed (`TierFits`), or the
  whole run's (`WorkerFits`), is what `Confirmed` asks of a command, `RowFits` that it has no
  row yet. `CallerFits` adds what only the callers see: a result is set when the job
  ends and not before, and a terminal is open before its row is written.

* **SessionsProofs.** `OverIsClosed` is inductive beside the types: `Leave` is the only
  way to `over`, it closes both, and no step of a goroutine or of the world opens them
  again. So `HandlersCleanUp`, for any number of tabs.
* **ReachPollerProofs.** `SchedHasOneOwner` is inductive beside the types and the count of
  stops; the proof is that a goroutine starts only inside a sweep that has seen its
  machine and made its entry, and that pruning comes after the last has ended.
  `ForgottenForGood` is the safety part of `SchedulesArePruned`: what was pruned never
  comes back. `BackoffIsAlwaysCapped` computes the words of 60, 120, 240, 480 and 900 s bit by
  bit; from the fourth failure on, for every number of them, either the lowest or the
  highest bit of 60 s lies above the cap (they are 24 places apart) or the word is empty
  or negative, which the code also caps.
* **StartupProofs.** That the schema is whole needs to know what each process takes for
  applied: `DoneOK` (all of it is committed, and what it is about to commit is not),
  `LockOK` (the lock is held by the one between statement and commit), `VersionsOK`. A
  process with a stale idea of the version is stopped by the table that is
  already there or by the primary key, and the one migration that is tolerated twice
  creates what is there already. `KeyOK` ties the key in a process's memory to the
  environment or the file, unless two first runs raced; `HeldOK` says that it is a key.
* **AdaptersProofs.** Every entry was made from its instance by `IdOf`. That taking it
  apart gives back what it was made of is the work of the lemmas on tokens: where the
  first separator of each ID is, that no name is one, and which parts of an Azure ID are
  the words parseVMID looks for (the group's own name may be, which is why `Misread` is
  excluded; the VM's may be, and does no harm, since nothing follows it). With `NoTwins`
  (two instances of one name in one place never exist at once) `IdsLeadBack` follows.
  `ListsAreFaithful` rests on `Covers`: of the machines that were there all along, those
  before the next page have been read. A cursor keeps this by what it is; a page number
  keeps it unless a machine before it goes away, which `slipped` records, and the
  arithmetic of that is `Rank`'s, the cardinality of what precedes an instance. A scope
  that fails makes the call fail (`CallOK`), for any number of scopes in any order.

Every invariant and every action property that a passing run checks is thus a theorem,
with the hypotheses named above. Model-checked only: the liveness properties (`CallsSettle`,
`BrokenIsClosed`, `FleetConverges`, `RequestsAreAnswered`, `EndsWithEitherSide`,
`OnlyBlockedCopiersStay`, `SchedulesArePruned`, `ReachTracksBox`, `StartsInTheEnd`,
`ListingEnds`) and the fairness part of `ImplementsFairPool`, since the prover has no
rule for fairness and ENABLED.

## 6. Not modelled, and the plan

Not modelled:

* what commands print and how it is parsed (`actions/parsers.go`, `facts/facts.go`),
  JSON and HTTP wording, the web page: no state and no decision depends on them;
* cryptography, vendor SDKs, SQLite below a statement, clocks;
* the editing of groups and settings: single statements, read afresh by every request;
* the origin guard and the mapping of errors to statuses: pure functions of one request;
* in the adapters the tables of power actions and states, labels, and Azure's join of
  machines and addresses.

What is left of the plan: pure functions against reference definitions (sudo wrapping,
the origin guard, tag matching, error classification).

Runs stay few: two properties that are about one thing are one property.

------------------------------- MODULE Startup -------------------------------
(***************************************************************************)
(* What run (cmd/cloudroof/main.go) does before it serves: the master key   *)
(* (keyring.Open), the database and its migrations (store.Open), the port.  *)
(* A process may die between any two steps, be started again, and run       *)
(* beside another one on the same data directory. What a process wrote      *)
(* outlives it; a crash of the machine (fsync) is left out.                 *)
(***************************************************************************)
EXTENDS Integers, FiniteSetsExt

CONSTANTS Procs,      \* the processes
          Keys,       \* the keys there are to generate
          EnvKey,     \* the key CLOUDROOF_MASTER_KEY holds, where it is set
          NoKey,
          MaxFaults   \* how many crashes and failing writes there may be

None == "nobody"
NoFile == {"absent", "torn"}     \* what master.key may be when it is no key

ASSUME StartupAssumption ==
    /\ None \notin Procs
    /\ EnvKey \notin Keys
    /\ NoKey \notin Keys \cup {EnvKey}
    /\ NoFile \cap (Keys \cup {EnvKey}) = {}
    /\ MaxFaults \in Nat

VARIABLES
    env,       \* CLOUDROOF_MASTER_KEY: "unset", "good", "bad"
    keyfile,   \* master.key: "absent", "torn" (empty, or cut short), or its key
    objects,   \* what the committed schema holds
    versions,  \* the committed rows of schema_migrations
    sealed,    \* the keys some secret in the database is sealed under
    lock,      \* the process whose transaction holds SQLite's write lock
    pc,        \* pc[p]: where p stands
    key,       \* key[p]: its keyring
    done,      \* done[p]: the migrations p takes for applied are 1..done[p]
    faults,    \* how many faults there have been
    raced      \* history: two first runs were about to write the key file at once

disk == <<keyfile, objects, versions, sealed>>
vars == <<env, keyfile, objects, versions, sealed, lock, pc, key, done, faults, raced>>

Latest == 3

\* What a migration creates: the tables of v0.1, two columns, two more tables.
Creates(v) == CASE v = 1 -> {"base"} [] v = 2 -> {"seen"} [] v = 3 -> {"fleet"}
UpTo(n) == UNION {Creates(v) : v \in 1..n}
Objects == UpTo(Latest)

TypeOK ==
    /\ env \in {"unset", "good", "bad"}
    /\ keyfile \in NoFile \cup Keys
    /\ objects \in SUBSET Objects
    /\ versions \in SUBSET (1..Latest)
    /\ sealed \in SUBSET (Keys \cup {EnvKey})
    /\ lock \in Procs \cup {None}
    /\ pc \in [Procs -> {"off", "key", "truncate", "write", "version", "migrate",
                         "record", "commit", "listen", "serving"}]
    /\ key \in [Procs -> Keys \cup {EnvKey, NoKey}]
    /\ done \in [Procs -> 0..Latest]
    /\ faults \in 0..MaxFaults
    /\ raced \in BOOLEAN

\* A new install, or one left by an earlier release; "seen" came early to a
\* database made while migration 1 was edited in place (store.go:107).
Init ==
    /\ env \in {"unset", "good", "bad"}
    /\ \E n \in 0..Latest :
          /\ versions = 1..n
          /\ \/ objects = UpTo(n)
             \/ n = 1 /\ objects = UpTo(2)
          /\ \/ n = 0 /\ keyfile = "absent" /\ sealed = {}
             \/ n > 0 /\ env # "unset" /\ keyfile = "absent" /\ sealed \in {{}, {EnvKey}}
             \/ n > 0 /\ env = "unset" /\ \E k \in Keys : keyfile = k /\ sealed \in {{}, {k}}
    /\ lock = None
    /\ pc = [p \in Procs |-> "off"]
    /\ key = [p \in Procs |-> NoKey]
    /\ done = [p \in Procs |-> 0]
    /\ faults = 0
    /\ raced = FALSE

-----------------------------------------------------------------------------
Goto(p, where) == pc' = [pc EXCEPT ![p] = where]

\* The process ends; an open transaction is rolled back, the rest is forgotten.
Gone(p) ==
    /\ Goto(p, "off")
    /\ key' = [key EXCEPT ![p] = NoKey]
    /\ done' = [done EXCEPT ![p] = 0]
    /\ lock' = IF lock = p THEN None ELSE lock

Start(p) ==
    /\ pc[p] = "off"
    /\ Goto(p, "key")
    /\ UNCHANGED <<env, disk, lock, key, done, faults, raced>>

Crash(p) ==
    /\ pc[p] # "off"
    /\ faults < MaxFaults
    /\ faults' = faults + 1
    /\ Gone(p)
    /\ UNCHANGED <<env, disk, raced>>

-----------------------------------------------------------------------------
(* keyring.Open: loadOrCreate.                                              *)

HasKey(p, k) == key' = [key EXCEPT ![p] = k]

KeyFromEnv(p) ==
    /\ pc[p] = "key"
    /\ env = "good"
    /\ HasKey(p, EnvKey)
    /\ Goto(p, "version")
    /\ UNCHANGED <<env, disk, lock, done, faults, raced>>

KeyFromFile(p) ==
    /\ pc[p] = "key"
    /\ env = "unset"
    /\ keyfile \in Keys
    /\ HasKey(p, keyfile)
    /\ Goto(p, "version")
    /\ UNCHANGED <<env, disk, lock, done, faults, raced>>

\* A value that is not a key is never replaced by a new one.
KeyRefused(p) ==
    /\ pc[p] = "key"
    /\ env = "bad" \/ (env = "unset" /\ keyfile = "torn")
    /\ Gone(p)
    /\ UNCHANGED <<env, disk, faults, raced>>

Generates(p) ==
    /\ \E k \in Keys \ {key[q] : q \in Procs} : HasKey(p, k)
    /\ raced' = (raced \/ \E q \in Procs : pc[q] = "truncate")
    /\ Goto(p, "truncate")
    /\ UNCHANGED <<env, disk, lock, done, faults>>

\* Bug: a key is generated whatever the file holds.
KeyGeneratedAnyway(p) ==
    /\ pc[p] = "key"
    /\ env = "unset"
    /\ Generates(p)

\* First run. A generated key is like no other.
KeyGenerated(p) ==
    /\ pc[p] = "key"
    /\ env = "unset"
    /\ keyfile = "absent"
    /\ Generates(p)

\* WriteFile creates the file, or empties it ...
FileTruncated(p) ==
    /\ pc[p] = "truncate"
    /\ keyfile' = "torn"
    /\ Goto(p, "write")
    /\ UNCHANGED <<env, objects, versions, sealed, lock, key, done, faults, raced>>

\* ... and then writes to it.
FileWritten(p) ==
    /\ pc[p] = "write"
    /\ keyfile' = key[p]
    /\ Goto(p, "version")
    /\ UNCHANGED <<env, objects, versions, sealed, lock, key, done, faults, raced>>

\* The disk is full, say: what is there of the file stays.
FileWriteFails(p) ==
    /\ pc[p] = "write"
    /\ faults < MaxFaults
    /\ faults' = faults + 1
    /\ keyfile' = "torn"
    /\ Gone(p)
    /\ UNCHANGED <<env, objects, versions, sealed, raced>>

-----------------------------------------------------------------------------
(* store.Open: migrate. A transaction takes the lock with its first         *)
(* statement and sees what was committed before.                            *)

ReadsVersionAs(p, n) ==
    /\ pc[p] = "version"
    /\ done' = [done EXCEPT ![p] = n]
    /\ Goto(p, "migrate")
    /\ UNCHANGED <<env, disk, lock, key, faults, raced>>

\* Bug: the comparison with the current version is off by one.
ReadsVersionOffByOne(p) == ReadsVersionAs(p, Min({Max(versions \cup {0}) + 1, Latest}))

\* MAX(version), read once for all the migrations that follow.
ReadsVersion(p) == ReadsVersionAs(p, Max(versions \cup {0}))

Next1(p) == done[p] + 1

\* "duplicate column name" is the one error that is tolerated.
Tolerated == Creates(2)
Conflicts(p) == (Creates(Next1(p)) \ Tolerated) \cap objects # {}

Applies(p) ==
    /\ pc[p] = "migrate"
    /\ done[p] < Latest
    /\ lock = None
    /\ IF Conflicts(p)
       THEN Gone(p)
       ELSE lock' = p /\ Goto(p, "record") /\ UNCHANGED <<key, done>>
    /\ UNCHANGED <<env, disk, faults, raced>>

\* Another process held the lock for longer than busy_timeout: a statement
\* that writes, or the first CREATE TABLE, is refused.
Busy(p) ==
    /\ pc[p] = "version" \/ (pc[p] = "migrate" /\ done[p] < Latest)
    /\ lock # None
    /\ Gone(p)
    /\ UNCHANGED <<env, disk, faults, raced>>

\* Bug: the statements are run outside the transaction.
RecordsLate(p) ==
    /\ pc[p] = "record"
    /\ objects' = objects \cup Creates(Next1(p))
    /\ IF Next1(p) \in versions
       THEN Gone(p)
       ELSE Goto(p, "commit") /\ UNCHANGED <<lock, key, done>>
    /\ UNCHANGED <<env, keyfile, versions, sealed, faults, raced>>

\* Its row in schema_migrations; version is the primary key.
Records(p) ==
    /\ pc[p] = "record"
    /\ IF Next1(p) \in versions
       THEN Gone(p)
       ELSE Goto(p, "commit") /\ UNCHANGED <<lock, key, done>>
    /\ UNCHANGED <<env, disk, faults, raced>>

Commits(p) ==
    /\ pc[p] = "commit"
    /\ objects' = objects \cup Creates(Next1(p))
    /\ versions' = versions \cup {Next1(p)}
    /\ done' = [done EXCEPT ![p] = Next1(p)]
    /\ lock' = None
    /\ Goto(p, "migrate")
    /\ UNCHANGED <<env, keyfile, sealed, key, faults, raced>>

Migrated(p) ==
    /\ pc[p] = "migrate"
    /\ done[p] = Latest
    /\ Goto(p, "listen")
    /\ UNCHANGED <<env, disk, lock, key, done, faults, raced>>

-----------------------------------------------------------------------------
(* Serving.                                                                 *)

PortTaken == \E p \in Procs : pc[p] = "serving"

Listens(p) ==
    /\ pc[p] = "listen"
    /\ IF PortTaken
       THEN Gone(p)
       ELSE Goto(p, "serving") /\ UNCHANGED <<lock, key, done>>
    /\ UNCHANGED <<env, disk, faults, raced>>

\* A credential or a cloud token is saved.
Seals(p) ==
    /\ pc[p] = "serving"
    /\ sealed' = sealed \cup {key[p]}
    /\ UNCHANGED <<env, keyfile, objects, versions, lock, pc, key, done, faults, raced>>

-----------------------------------------------------------------------------
StartupStep(p) ==
    \/ KeyFromEnv(p) \/ KeyFromFile(p) \/ KeyRefused(p) \/ KeyGenerated(p)
    \/ FileTruncated(p) \/ FileWritten(p)
    \/ ReadsVersion(p) \/ Applies(p) \/ Records(p) \/ Commits(p) \/ Migrated(p)
    \/ Listens(p)

Next == \E p \in Procs :
    \/ Start(p) \/ StartupStep(p)
    \/ Crash(p) \/ FileWriteFails(p) \/ Busy(p)
    \/ Seals(p)

Spec == Init /\ [][Next]_vars

\* A process that is not running is started again, and one that starts goes on.
Fairness == \A p \in Procs : WF_vars(Start(p)) /\ WF_vars(StartupStep(p))

FairSpec == Spec /\ Fairness

-----------------------------------------------------------------------------
(* What must hold.                                                          *)

\* What is committed is what the recorded migrations create, whenever a
\* process died and however many migrated at once; the two columns of the old
\* in-place edit are the only thing that may be there early. Who serves has
\* it all.
SchemaIsWhole ==
    /\ \E n \in 0..Latest : /\ versions = 1..n
                            /\ objects = UpTo(n) \/ (n = 1 /\ objects = UpTo(2))
    /\ \A p \in Procs : pc[p] = "serving" => versions = 1..Latest

\* Who serves can open every secret there is (keyring.go:132), and what it
\* seals now will be opened after the next start: the key in its memory is the
\* key of the environment or of the file. Two first runs at once are the
\* exception: the second to write takes the first one's key off the disk.
ServingOpensAll ==
    \A p \in Procs : pc[p] = "serving" /\ ~raced =>
        /\ sealed \subseteq {key[p]}
        /\ key[p] = IF env = "unset" THEN keyfile ELSE EnvKey

\* However a start was interrupted, one that follows gets to serve, unless the
\* key is unusable: a bad value in the environment, or a first run that was
\* interrupted while it wrote the file, which nothing but the user repairs.
StartsInTheEnd ==
    \/ []<>PortTaken
    \/ env = "bad"
    \/ <>[](env = "unset" /\ keyfile = "torn")
=============================================================================

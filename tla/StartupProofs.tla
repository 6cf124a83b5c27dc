---------------------------- MODULE StartupProofs ----------------------------
(***************************************************************************)
(* For any number of processes on one data directory, any crashes between   *)
(* their steps and any install to begin with: the schema is what the        *)
(* recorded migrations make (SchemaIsWhole), and who serves opens every     *)
(* secret (ServingOpensAll).                                                *)
(*                                                                          *)
(* The schema rests on two facts: a transaction has the lock (LockOK), and  *)
(* what a process takes for applied has been (DoneOK), so that the row a    *)
(* transaction inserts is always the next one. The key rests on the order   *)
(* of a first run: until its file is whole nobody has got past it (KeyOK).  *)
(***************************************************************************)
EXTENDS Startup, TLAPS

\* The two schemas there may be with n recorded migrations.
Whole(n) ==
    /\ versions = 1..n
    /\ objects = UpTo(n) \/ (n = 1 /\ objects = UpTo(2))

VersionsOK == \E n \in 0..Latest : Whole(n)

LockOK == \A p \in Procs : pc[p] \in {"record", "commit"} <=> lock = p

DoneOK ==
    \A p \in Procs :
        /\ pc[p] \in {"migrate", "record", "commit", "listen", "serving"} => 1..done[p] \subseteq versions
        /\ pc[p] \in {"record", "commit"} => done[p] < Latest
        /\ pc[p] = "commit" => Next1(p) \notin versions
        /\ pc[p] \in {"listen", "serving"} => done[p] = Latest

\* The key a start ends up with.
Master == IF env = "unset" THEN keyfile ELSE EnvKey

HasStarted == {"version", "migrate", "record", "commit", "listen", "serving"}

KeyOK ==
    ~raced =>
        /\ sealed \subseteq {Master}
        /\ \A p \in Procs :
              /\ pc[p] \in HasStarted => key[p] = Master
              /\ pc[p] \in {"truncate", "write"} => env = "unset"
              /\ pc[p] = "truncate" => keyfile = "absent"
              /\ pc[p] = "write" => keyfile = "torn"
        /\ \A p, q \in Procs : pc[p] \in {"truncate", "write"} /\ pc[q] \in {"truncate", "write"} => p = q

\* What a process holds is a key from the moment it has chosen one.
HeldOK ==
    \A p \in Procs :
        /\ pc[p] \in {"truncate", "write"} => key[p] \in Keys
        /\ pc[p] \in HasStarted => key[p] \in Keys \cup {EnvKey}

IInv == TypeOK /\ VersionsOK /\ LockOK /\ DoneOK /\ HeldOK /\ KeyOK

-----------------------------------------------------------------------------
\* What the migrations make, one after the other.
LEMMA Schemas ==
    /\ UpTo(0) = {} /\ UpTo(1) = {"base"} /\ UpTo(2) = {"base", "seen"}
    /\ UpTo(3) = {"base", "seen", "fleet"}
    /\ Creates(1) = {"base"} /\ Creates(2) = {"seen"} /\ Creates(3) = {"fleet"}
<1>1. Creates(1) = {"base"} /\ Creates(2) = {"seen"} /\ Creates(3) = {"fleet"}
  BY DEF Creates
<1>2. 1..0 = {} /\ 1..1 = {1} /\ 1..2 = {1, 2} /\ 1..3 = {1, 2, 3}
  OBVIOUS
<1>3. QED
  BY <1>1, <1>2 DEF UpTo

\* Max of the recorded versions is their number.
LEMMA MaxOfVersions ==
    ASSUME NEW n \in Nat, versions = 1..n
    PROVE  Max(versions \cup {0}) = n
  BY DEF Max

LEMMA ObjectsTyped == ASSUME NEW n \in 0..Latest PROVE UpTo(n) \in SUBSET Objects
<1>1. n \in {0, 1, 2, 3}
  BY DEF Latest
<1>2. QED
  BY <1>1, Schemas DEF Objects, Latest

\* A process that goes leaves the others as they were.
LEMMA GoneKeeps ==
    ASSUME IInv, NEW p \in Procs, Gone(p),
           UNCHANGED <<env, objects, versions, sealed>>,
           raced' = raced, faults' \in 0..MaxFaults,
           \/ keyfile' = keyfile
           \/ pc[p] = "write" /\ keyfile' = "torn"
    PROVE  IInv'
<1> USE DEF IInv, Gone, Goto
<1>1. TypeOK'
  <2>1. pc' \in [Procs -> {"off", "key", "truncate", "write", "version", "migrate",
                          "record", "commit", "listen", "serving"}]
    BY DEF TypeOK
  <2>2. key' \in [Procs -> Keys \cup {EnvKey, NoKey}] /\ done' \in [Procs -> 0..Latest]
    BY DEF TypeOK, Latest
  <2>3. lock' \in Procs \cup {None} /\ keyfile' \in NoFile \cup Keys
    BY DEF TypeOK, NoFile
  <2>4. QED
    BY <2>1, <2>2, <2>3 DEF TypeOK
<1>2. VersionsOK'
  BY DEF VersionsOK, Whole
<1>3. LockOK'
  BY StartupAssumption DEF LockOK, TypeOK
<1>4. DoneOK'
  BY DEF DoneOK, TypeOK, Next1
<1>5. KeyOK'
  <2>1. CASE keyfile' = keyfile
    BY <2>1 DEF KeyOK, TypeOK, Master, HasStarted
  <2>2. CASE pc[p] = "write" /\ keyfile' = "torn"
    BY <2>2 DEF KeyOK, TypeOK, Master, HasStarted
  <2>3. QED
    BY <2>1, <2>2
<1>6. HeldOK'
  BY DEF HeldOK, TypeOK, HasStarted
<1>7. QED
  BY <1>1, <1>2, <1>3, <1>4, <1>5, <1>6

-----------------------------------------------------------------------------
LEMMA InitInv == Init => IInv
<1> SUFFICES ASSUME Init PROVE IInv
  OBVIOUS
<1> USE DEF Init
<1>1. PICK n \in 0..Latest :
          /\ versions = 1..n
          /\ objects = UpTo(n) \/ (n = 1 /\ objects = UpTo(2))
          /\ \/ n = 0 /\ keyfile = "absent" /\ sealed = {}
             \/ n > 0 /\ env # "unset" /\ keyfile = "absent" /\ sealed \in {{}, {EnvKey}}
             \/ n > 0 /\ env = "unset" /\ \E k \in Keys : keyfile = k /\ sealed \in {{}, {k}}
  OBVIOUS
<1>2. objects \in SUBSET Objects
  BY <1>1, ObjectsTyped DEF Latest
<1>3. TypeOK
  <2>1. keyfile \in NoFile \cup Keys /\ sealed \in SUBSET (Keys \cup {EnvKey})
    BY <1>1 DEF NoFile
  <2>2. versions \in SUBSET (1..Latest) /\ faults \in 0..MaxFaults
    BY <1>1, StartupAssumption DEF Latest
  <2>3. done \in [Procs -> 0..Latest]
    BY DEF Latest
  <2>4. QED
    BY <1>2, <2>1, <2>2, <2>3 DEF TypeOK
<1>4. VersionsOK
  BY <1>1 DEF VersionsOK, Whole
<1>5. LockOK /\ DoneOK /\ HeldOK
  BY StartupAssumption DEF LockOK, DoneOK, HeldOK, HasStarted
<1>6. KeyOK
  BY <1>1 DEF KeyOK, Master, HasStarted
<1>7. QED
  BY <1>3, <1>4, <1>5, <1>6 DEF IInv

\* keyring.Open.
LEMMA KeyStepInv ==
    ASSUME IInv, NEW p \in Procs,
           \/ Start(p) \/ KeyFromEnv(p) \/ KeyFromFile(p) \/ KeyRefused(p) \/ KeyGenerated(p)
           \/ FileTruncated(p) \/ FileWritten(p) \/ FileWriteFails(p) \/ Crash(p)
    PROVE  IInv'
<1> USE DEF IInv, Goto, HasKey, disk
<1>1. CASE Start(p)
  BY <1>1 DEF Start, TypeOK, VersionsOK, Whole, LockOK, DoneOK, Next1, KeyOK,
     HeldOK, Master, HasStarted
<1>2. CASE KeyFromEnv(p)
  <2>1. TypeOK' /\ VersionsOK' /\ LockOK'
    BY <1>2 DEF KeyFromEnv, TypeOK, VersionsOK, Whole, LockOK
  <2>2. DoneOK' /\ KeyOK'
    BY <1>2 DEF KeyFromEnv, TypeOK, DoneOK, Next1, KeyOK, Master, HasStarted
  <2>3. HeldOK'
    BY <1>2 DEF KeyFromEnv, TypeOK, HeldOK, HasStarted
  <2>4. QED
    BY <2>1, <2>2, <2>3
<1>3. CASE KeyFromFile(p)
  <2>1. TypeOK' /\ VersionsOK' /\ LockOK'
    BY <1>3 DEF KeyFromFile, TypeOK, VersionsOK, Whole, LockOK
  <2>2. DoneOK' /\ KeyOK'
    BY <1>3 DEF KeyFromFile, TypeOK, DoneOK, Next1, KeyOK, Master, HasStarted
  <2>3. HeldOK'
    BY <1>3 DEF KeyFromFile, TypeOK, HeldOK, HasStarted
  <2>4. QED
    BY <2>1, <2>2, <2>3
<1>4. CASE KeyRefused(p)
  BY <1>4, GoneKeeps DEF KeyRefused, TypeOK
<1>5. CASE KeyGenerated(p)
  <2>1. TypeOK' /\ VersionsOK' /\ LockOK'
    BY <1>5 DEF KeyGenerated, Generates, TypeOK, VersionsOK, Whole, LockOK
  <2>2. DoneOK'
    BY <1>5 DEF KeyGenerated, Generates, TypeOK, DoneOK, Next1
  <2>3. KeyOK'
    <3> SUFFICES ASSUME ~raced' PROVE KeyOK'
      BY DEF KeyOK
    <3>1. ~raced /\ \A q \in Procs : pc[q] # "truncate"
      BY <1>5 DEF KeyGenerated, Generates
    <3>2. \A q \in Procs : pc[q] \notin {"truncate", "write"}
      BY <3>1, <1>5 DEF KeyGenerated, KeyOK
    <3>3. QED
      BY <3>1, <3>2, <1>5 DEF KeyGenerated, Generates, TypeOK, KeyOK, Master, HasStarted
  <2>4. HeldOK'
    BY <1>5 DEF KeyGenerated, Generates, TypeOK, HeldOK, HasStarted
  <2>5. QED
    BY <2>1, <2>2, <2>3, <2>4
<1>6. CASE FileTruncated(p)
  <2>1. TypeOK' /\ VersionsOK' /\ LockOK' /\ DoneOK'
    BY <1>6 DEF FileTruncated, TypeOK, NoFile, VersionsOK, Whole, LockOK, DoneOK, Next1
  <2>2. HeldOK'
    BY <1>6 DEF FileTruncated, TypeOK, HeldOK, HasStarted
  <2>3. KeyOK'
    <3> SUFFICES ASSUME ~raced PROVE KeyOK'
      BY <1>6 DEF KeyOK, FileTruncated
    <3>1. keyfile = "absent" /\ env = "unset"
      BY <1>6 DEF FileTruncated, KeyOK
    <3>2. sealed = {}
      BY <3>1, StartupAssumption DEF KeyOK, Master, TypeOK, NoFile
    <3>3. \A q \in Procs : pc[q] \notin HasStarted
      BY <3>1, StartupAssumption DEF KeyOK, Master, HeldOK, NoFile
    <3>4. \A q \in Procs : pc[q] \in {"truncate", "write"} => q = p
      BY <1>6 DEF FileTruncated, KeyOK
    <3>5. QED
      BY <3>1, <3>2, <3>3, <3>4, <1>6 DEF FileTruncated, TypeOK, KeyOK, Master, HasStarted
  <2>4. QED
    BY <2>1, <2>2, <2>3
<1>7. CASE FileWritten(p)
  <2>1. VersionsOK' /\ LockOK' /\ DoneOK'
    BY <1>7 DEF FileWritten, TypeOK, VersionsOK, Whole, LockOK, DoneOK, Next1
  <2>2. TypeOK' /\ HeldOK'
    BY <1>7 DEF FileWritten, TypeOK, NoFile, HeldOK, HasStarted
  <2>3. KeyOK'
    <3> SUFFICES ASSUME ~raced PROVE KeyOK'
      BY <1>7 DEF KeyOK, FileWritten
    <3>1. keyfile = "torn" /\ env = "unset"
      BY <1>7 DEF FileWritten, KeyOK
    <3>2. sealed = {}
      BY <3>1, StartupAssumption DEF KeyOK, Master, TypeOK, NoFile
    <3>3. \A q \in Procs : pc[q] \notin HasStarted
      BY <3>1, StartupAssumption DEF KeyOK, Master, HeldOK, NoFile
    <3>4. \A q \in Procs : pc[q] \in {"truncate", "write"} => q = p
      BY <1>7 DEF FileWritten, KeyOK
    <3>5. QED
      BY <3>1, <3>2, <3>3, <3>4, <1>7 DEF FileWritten, TypeOK, KeyOK, Master, HasStarted
  <2>4. QED
    BY <2>1, <2>2, <2>3
<1>8. CASE FileWriteFails(p)
  BY <1>8, GoneKeeps, StartupAssumption DEF FileWriteFails, TypeOK
<1>9. CASE Crash(p)
  BY <1>9, GoneKeeps, StartupAssumption DEF Crash, TypeOK
<1>10. QED
  BY <1>1, <1>2, <1>3, <1>4, <1>5, <1>6, <1>7, <1>8, <1>9

\* store.Open and the port.
LEMMA StoreStepInv ==
    ASSUME IInv, NEW p \in Procs,
           \/ ReadsVersion(p) \/ Applies(p) \/ Busy(p) \/ Records(p) \/ Commits(p)
           \/ Migrated(p) \/ Listens(p) \/ Seals(p)
    PROVE  IInv'
<1> USE DEF IInv, Goto, disk
<1>1. CASE ReadsVersion(p)
  <2>1. PICK n \in 0..Latest : Whole(n)
    BY DEF VersionsOK
  <2>2. Max(versions \cup {0}) = n
    BY <2>1, MaxOfVersions DEF Whole, Latest
  <2>3. done' = [done EXCEPT ![p] = n] /\ pc' = [pc EXCEPT ![p] = "migrate"] /\ pc[p] = "version"
        /\ UNCHANGED <<env, keyfile, objects, versions, sealed, lock, key, faults, raced>>
    BY <1>1, <2>2 DEF ReadsVersion, ReadsVersionAs
  <2>4. TypeOK' /\ VersionsOK' /\ LockOK' /\ HeldOK' /\ KeyOK'
    BY <2>3 DEF TypeOK, VersionsOK, Whole, LockOK, HeldOK, KeyOK, Master, HasStarted, Latest
  <2>5. DoneOK'
    BY <2>1, <2>3 DEF TypeOK, DoneOK, Whole, Next1, Latest
  <2>6. QED
    BY <2>4, <2>5
<1>2. CASE Applies(p)
  <2>1. CASE Conflicts(p)
    BY <1>2, <2>1, GoneKeeps DEF Applies, TypeOK
  <2>2. CASE ~Conflicts(p)
    <3>1. TypeOK' /\ VersionsOK' /\ LockOK'
      BY <1>2, <2>2, StartupAssumption DEF Applies, TypeOK, VersionsOK, Whole, LockOK
    <3>2. DoneOK' /\ HeldOK' /\ KeyOK'
      BY <1>2, <2>2 DEF Applies, TypeOK, DoneOK, Next1, HeldOK, KeyOK, Master, HasStarted
    <3>3. QED
      BY <3>1, <3>2
  <2>3. QED
    BY <2>1, <2>2
<1>3. CASE Busy(p)
  BY <1>3, GoneKeeps DEF Busy, TypeOK
<1>4. CASE Records(p)
  <2>1. CASE Next1(p) \in versions
    BY <1>4, <2>1, GoneKeeps DEF Records, TypeOK
  <2>2. CASE Next1(p) \notin versions
    BY <1>4, <2>2 DEF Records, TypeOK, VersionsOK, Whole, LockOK, DoneOK, Next1, HeldOK,
       KeyOK, Master, HasStarted
  <2>3. QED
    BY <2>1, <2>2
<1>5. CASE Commits(p)
  <2>1. PICK n \in 0..Latest : Whole(n)
    BY DEF VersionsOK
  <2>2. /\ done[p] \in 0..Latest /\ done[p] < Latest
        /\ 1..done[p] \subseteq versions /\ done[p] + 1 \notin versions
    BY <1>5 DEF Commits, DoneOK, Next1, TypeOK
  <2>3. done[p] = n /\ n \in {0, 1, 2}
    <3> DEFINE d == done[p]
    <3>1. d \in {0, 1, 2} /\ n \in Nat
      BY <2>2 DEF Latest
    <3>2. ~(d + 1 <= n)
      BY <2>1, <2>2, <3>1 DEF Whole
    <3>3. d = 0 \/ d \in 1..n
      <4>1. d = 0 \/ d \in 1..d
        BY <3>1
      <4>2. QED
        BY <4>1, <2>1, <2>2 DEF Whole
    <3>4. QED
      BY <3>1, <3>2, <3>3
  <2>4. versions' = 1..(n + 1) /\ objects' = objects \cup Creates(n + 1)
    <3>1. (1..n) \cup {n + 1} = 1..(n + 1)
      BY <2>3
    <3>2. QED
      BY <1>5, <2>1, <2>3, <3>1 DEF Commits, Whole, Next1
  <2>5. objects' = UpTo(n + 1) \/ (n + 1 = 1 /\ objects' = UpTo(2))
    BY <2>1, <2>3, <2>4, Schemas DEF Whole
  <2>6. VersionsOK'
    BY <2>3, <2>4, <2>5 DEF VersionsOK, Whole, Latest
  <2>7. TypeOK'
    <3>1. objects' \in SUBSET Objects
      BY <2>3, <2>5, ObjectsTyped DEF Latest
    <3>2. versions' \in SUBSET (1..Latest) /\ done' \in [Procs -> 0..Latest]
      BY <1>5, <2>3, <2>4 DEF Commits, TypeOK, Next1, Latest
    <3>3. QED
      BY <1>5, <3>1, <3>2 DEF Commits, TypeOK
  <2>8. LockOK' /\ HeldOK' /\ KeyOK'
    BY <1>5, StartupAssumption DEF Commits, TypeOK, LockOK, HeldOK, KeyOK, Master, HasStarted
  <2>9. DoneOK'
    <3>1. done'[p] = n + 1 /\ pc'[p] = "migrate"
      BY <1>5, <2>3 DEF Commits, TypeOK, Next1
    <3>2. \A q \in Procs \ {p} : done'[q] = done[q] /\ pc'[q] = pc[q] /\ pc[q] # "commit"
      BY <1>5 DEF Commits, TypeOK, LockOK
    <3>3. versions \subseteq versions'
      BY <1>5 DEF Commits
    <3>4. QED
      BY <3>1, <3>2, <3>3, <2>4 DEF DoneOK
  <2>10. QED
    BY <2>6, <2>7, <2>8, <2>9
<1>6. CASE Migrated(p)
  BY <1>6 DEF Migrated, TypeOK, VersionsOK, Whole, LockOK, DoneOK, Next1, HeldOK, KeyOK,
     Master, HasStarted
<1>7. CASE Listens(p)
  <2>1. CASE PortTaken
    BY <1>7, <2>1, GoneKeeps DEF Listens, TypeOK
  <2>2. CASE ~PortTaken
    BY <1>7, <2>2 DEF Listens, TypeOK, VersionsOK, Whole, LockOK, DoneOK, Next1, HeldOK, KeyOK,
       Master, HasStarted
  <2>3. QED
    BY <2>1, <2>2
<1>8. CASE Seals(p)
  <2>1. VersionsOK' /\ LockOK' /\ DoneOK' /\ HeldOK'
    BY <1>8 DEF Seals, VersionsOK, Whole, LockOK, DoneOK, Next1, HeldOK
  <2>2. TypeOK' /\ KeyOK'
    BY <1>8 DEF Seals, TypeOK, KeyOK, Master, HeldOK, HasStarted
  <2>3. QED
    BY <2>1, <2>2
<1>9. QED
  BY <1>1, <1>2, <1>3, <1>4, <1>5, <1>6, <1>7, <1>8

LEMMA InductiveStep == IInv /\ [Next]_vars => IInv'
<1> SUFFICES ASSUME IInv, [Next]_vars PROVE IInv'
  OBVIOUS
<1>1. ASSUME NEW p \in Procs,
             Start(p) \/ StartupStep(p) \/ Crash(p) \/ FileWriteFails(p) \/ Busy(p) \/ Seals(p)
      PROVE  IInv'
  BY <1>1, KeyStepInv, StoreStepInv DEF StartupStep
<1>2. CASE UNCHANGED vars
  BY <1>2 DEF vars, disk, IInv, TypeOK, VersionsOK, Whole, LockOK, DoneOK, Next1, HeldOK, KeyOK,
     Master, HasStarted
<1>3. QED
  BY <1>1, <1>2 DEF Next

THEOREM Inductive == Spec => []IInv
  BY InitInv, InductiveStep, PTL DEF Spec

-----------------------------------------------------------------------------
\* Every variable keeps its type (keyring.go, store.go, main.go).
THEOREM TypeCorrect == Spec => []TypeOK
<1>1. IInv => TypeOK
  BY DEF IInv
<1>2. QED
  BY <1>1, Inductive, PTL

\* store.Open: whatever migrations were interrupted and whoever else migrated,
\* the schema is what its recorded migrations make, and who serves has it all.
THEOREM SchemaStaysWhole == Spec => []SchemaIsWhole
<1>1. ASSUME IInv PROVE SchemaIsWhole
  <2>1. PICK n \in 0..Latest : Whole(n)
    BY <1>1 DEF IInv, VersionsOK
  <2>2. \A p \in Procs : pc[p] = "serving" => versions = 1..Latest
    BY <1>1, <2>1 DEF IInv, DoneOK, Whole, Latest
  <2>3. QED
    BY <2>1, <2>2 DEF SchemaIsWhole, Whole
<1>2. QED
  BY <1>1, Inductive, PTL

\* keyring.Open: a process that serves opens every secret there is, and the
\* next one will open what it seals, unless two first runs raced for the file.
THEOREM SecretsStayReadable == Spec => []ServingOpensAll
<1>1. IInv => ServingOpensAll
  BY DEF IInv, KeyOK, Master, HasStarted, ServingOpensAll
<1>2. QED
  BY <1>1, Inductive, PTL
=============================================================================

---------------------------- MODULE EngineProofs ----------------------------
(***************************************************************************)
(* The audit log and the confirmation of bulk runs, for any number of       *)
(* machines, actions, requests, workers and edits.                          *)
(*                                                                          *)
(* That a command is recorded is not inductive: it needs to know which      *)
(* steps come before a command runs, that a stream has its row first, and   *)
(* that a worker is started but once, by a request that has passed its      *)
(* gate. IInv says so.                                                      *)
(*                                                                          *)
(* At the end, every step is one of module AuditLog, or no step of it: one   *)
(* lemma per action. CallerFits adds to IInv what that needs, that a result  *)
(* is set when a job ends and not before, and that a terminal is open before *)
(* its row is written.                                                      *)
(***************************************************************************)
EXTENDS Engine, FiniteSetTheorems, TLAPS

Held == {"lookup", "machine", "facts", "upgrade", "exec", "running", "log", "session"}
Prepared == {"facts", "upgrade", "exec", "running", "log", "session"}
Bulking == {"group", "list", "gate", "fan"}
Runnable == BuiltIns \cup Custom

\* What a job is, and what it knows, at each step.
JobFits(j) ==
    /\ pc[j] # "new" => kind[j] # "none"
    /\ kind[j] = "part" => Worker(j)
    /\ kind[j] \notin {"none", "part"} => ~Worker(j)
    /\ pc[j] = "lookup" => /\ kind[j] \in {"run", "stream", "part", "bulk"}
                           /\ ask[j].action \in Runnable
    /\ pc[j] = "wait" => kind[j] = "part" /\ ask[j].action \in Runnable
    /\ pc[j] = "machine" =>
          \/ kind[j] = "power" /\ ask[j].action \in Powers
          \/ kind[j] = "terminal" /\ ask[j].action = "terminal.open"
          \/ kind[j] \in {"run", "stream", "part"} /\ ask[j].action \in Runnable /\ got[j].tier \in Tiers
    /\ pc[j] \in Prepared => /\ kind[j] \in {"run", "stream", "part", "terminal", "power"}
                             /\ ask[j].action \in Actions \cup {"terminal.open"}
                             /\ got[j].tier \in Tiers
                             /\ got[j].row \in Rows
    /\ pc[j] = "facts" => kind[j] \in {"run", "stream", "part"}
    /\ pc[j] = "upgrade" => kind[j] \in {"stream", "terminal"}
    /\ pc[j] = "running" => kind[j] \in {"run", "part", "power"}
    /\ pc[j] = "session" => kind[j] \in {"stream", "terminal"}
    /\ pc[j] \in Held \cup {"wait"} /\ kind[j] # "bulk" => ask[j].machine \in Machines
    /\ pc[j] \in Bulking => kind[j] = "bulk" /\ ask[j].action \in Runnable /\ got[j].tier \in Tiers
    /\ pc[j] = "list" => bulk[j[1]].ids # <<>>

\* Which jobs have run, and which have a row.
RowFits(j) ==
    /\ j \in ran => pc[j] \in {"running", "log", "session", "done"}
    /\ j \in ran /\ pc[j] = "done" => runs[j] # None \/ result[j] \in {"unlogged", "lost"}
    /\ runs[j] # None => \/ pc[j] \in {"session", "done"}
                         \/ pc[j] = "exec" /\ kind[j] = "stream"
    /\ pc[j] = "log" /\ kind[j] = "stream" => j \notin ran
    /\ pc[j] = "session" => runs[j] # None
    /\ pc[j] = "exec" /\ kind[j] = "stream" => runs[j] # None

\* A worker that has started serves a bulk request that has passed its gate.
WorkerFits(j) ==
    Worker(j) /\ pc[j] # "new" =>
        /\ pc[Boss(j)] \in {"fan", "done"}
        /\ pc[Boss(j)] = "done" => pc[j] = "done"
        /\ pc[j] # "done" => /\ j[2] \in 1..Len(bulk[j[1]].targets)
                             /\ ask[j].action = ask[Boss(j)].action
                             /\ ask[j].confirm = {"click", bulk[j[1]].targets[j[2]].name}

\* What is known of its danger.
TierFits(j) ==
    /\ pc[j] \in Bulking \cup {"machine"} \cup Prepared /\ ask[j].action \in BuiltIns =>
          got[j].tier = Tier[ask[j].action]
    /\ pc[j] \in Prepared /\ kind[j] = "part" => Gate(got[j].tier, got[j].row, ask[j].confirm)
    /\ pc[j] = "fan" => BulkAdmits(j)

\* The workers that hold a token of r's semaphore.
Holders(r) == {j \in Jobs : j[1] = r /\ Worker(j) /\ pc[j] \in Held}
SemFits == \A r \in Reqs : sem[r] = Cardinality(Holders(r))

Drained == life = "closing" => \A j \in Jobs : InFlight(j) => Hijacked(j)

IInv ==
    /\ TypeOK
    /\ \A j \in Jobs : JobFits(j) /\ RowFits(j) /\ WorkerFits(j) /\ TierFits(j)
    /\ SemFits
    /\ Drained

-----------------------------------------------------------------------------
(* Jobs are pairs.                                                          *)

LEMMA JobFacts ==
    ASSUME NEW j \in Jobs
    PROVE  /\ j[1] \in Reqs /\ j[2] \in Nat
           /\ j = <<j[1], j[2]>>
           /\ Boss(j) \in Jobs /\ Boss(j)[1] = j[1] /\ Boss(j)[2] = 0
           /\ ~Worker(Boss(j))
           /\ ~Worker(j) => Boss(j) = j
  BY EngineAssumption DEF Jobs, Reqs, Boss, Worker

LEMMA JobsFinite == IsFiniteSet(Jobs)
  <1>1. IsFiniteSet(Reqs)
    BY EngineAssumption, FS_Interval DEF Reqs
  <1>2. IsFiniteSet(0..MaxTargets)
    BY EngineAssumption, FS_Interval
  <1> QED
    BY <1>1, <1>2, FS_Product DEF Jobs

LEMMA HoldersFinite == \A r : IsFiniteSet(Holders(r)) /\ Cardinality(Holders(r)) \in Nat
  <1> SUFFICES ASSUME NEW r PROVE IsFiniteSet(Holders(r)) /\ Cardinality(Holders(r)) \in Nat
    OBVIOUS
  <1>1. Holders(r) \in SUBSET Jobs
    BY DEF Holders
  <1> QED
    BY <1>1, JobsFinite, FS_Subset, FS_CardinalityType

LEMMA HoldersFinitePrime ==
    \A r : IsFiniteSet(Holders(r)') /\ Cardinality(Holders(r)') \in Nat
  <1> SUFFICES ASSUME NEW r PROVE IsFiniteSet(Holders(r)') /\ Cardinality(Holders(r)') \in Nat
    OBVIOUS
  <1>1. Holders(r)' \in SUBSET Jobs
    BY DEF Holders, Jobs, Reqs
  <1> QED
    BY <1>1, JobsFinite, FS_Subset, FS_CardinalityType

LEMMA InitInv == Init => IInv
  <1> SUFFICES ASSUME Init PROVE IInv
    OBVIOUS
  <1>a. StoreTypeOK
    <2>1. machine \in [Machines -> Rows] /\ None \notin Rows
      BY EngineAssumption DEF Init
    <2>2. facts \in SUBSET {m \in Machines : machine[m] # None}
      BY <2>1 DEF Init
    <2>3. custom \in [Custom -> Tiers \cup {None}]
      BY DEF Init, Tiers
    <2>4. edits \in 0..MaxEdits
      BY EngineAssumption DEF Init
    <2> QED
      BY <2>1, <2>2, <2>3, <2>4 DEF Init, StoreTypeOK
  <1>b. JobTypeOK
    <2>1. bulk \in [Reqs -> [ids : Seq(Machines), targets : Seq(Targets), count : Nat]]
      BY DEF Init, NoBulk
    <2>2. sem \in [Reqs -> 0..Concurrency]
      BY EngineAssumption DEF Init
    <2>3. /\ ask \in [Jobs -> [machine : Machines \cup {None},
                              action : Actions \cup {"terminal.open", None},
                              confirm : SUBSET ({"click"} \cup Names)]]
          /\ got \in [Jobs -> [tier : Tiers \cup {None}, row : Rows \cup {None}]]
      BY DEF Init, NoAsk, NoGot
    <2> QED
      BY <2>1, <2>2, <2>3 DEF Init, JobTypeOK
  <1>1. TypeOK
    BY <1>a, <1>b DEF TypeOK
  <1>2. \A j \in Jobs : pc[j] = "new" /\ kind[j] = "none" /\ runs[j] = None /\ j \notin ran
    BY DEF Init
  <1>3. \A j \in Jobs : JobFits(j) /\ RowFits(j) /\ WorkerFits(j) /\ TierFits(j)
    BY <1>2 DEF JobFits, RowFits, WorkerFits, TierFits, Held, Prepared, Bulking
  <1>4. \A r : Holders(r) = {}
    BY <1>2 DEF Holders, Held
  <1>5. SemFits
    BY <1>4, FS_EmptySet DEF SemFits, Init
  <1>6. Drained
    BY DEF Init, Drained
  <1> QED
    BY <1>1, <1>3, <1>5, <1>6 DEF IInv

-----------------------------------------------------------------------------
(* A step of one job leaves the others alone.                               *)

Frame(j) ==
    /\ \A k \in Jobs \ {j} :
          /\ pc'[k] = pc[k] /\ kind'[k] = kind[k] /\ ask'[k] = ask[k] /\ got'[k] = got[k]
          /\ result'[k] = result[k] /\ runs'[k] = runs[k]
          /\ k \in ran' <=> k \in ran
    /\ \A r \in Reqs : (r = j[1] /\ ~Worker(j)) \/ bulk'[r] = bulk[r]

LEMMA OthersFit ==
    ASSUME IInv, NEW j \in Jobs, Frame(j)
    PROVE  \A k \in Jobs \ {j} : JobFits(k)' /\ RowFits(k)' /\ TierFits(k)'
  <1> SUFFICES ASSUME NEW k \in Jobs, k # j
               PROVE  JobFits(k)' /\ RowFits(k)' /\ TierFits(k)'
    OBVIOUS
  <1>1. /\ pc'[k] = pc[k] /\ kind'[k] = kind[k] /\ ask'[k] = ask[k] /\ got'[k] = got[k]
        /\ result'[k] = result[k] /\ runs'[k] = runs[k]
        /\ k \in ran' <=> k \in ran
    BY DEF Frame
  <1>2. JobFits(k) /\ RowFits(k) /\ TierFits(k)
    BY DEF IInv
  <1>3. pc[k] \in Bulking => bulk'[k[1]] = bulk[k[1]]
    <2> SUFFICES ASSUME pc[k] \in Bulking PROVE bulk'[k[1]] = bulk[k[1]]
      OBVIOUS
    <2>1. ~Worker(k)
      BY <1>2 DEF JobFits
    <2>2. k[1] # j[1] \/ Worker(j)
      BY <2>1, JobFacts
    <2> QED
      BY <2>2, JobFacts DEF Frame
  <1>4. JobFits(k)'
    BY <1>1, <1>2, <1>3 DEF JobFits, Worker, Bulking, Held, Prepared, Runnable, Rows, Tiers, Actions
  <1>5. RowFits(k)'
    BY <1>1, <1>2 DEF RowFits
  <1>6. TierFits(k)'
    BY <1>1, <1>2, <1>3 DEF TierFits, Gate, BulkAdmits, Bulking, Prepared
  <1> QED
    BY <1>4, <1>5, <1>6

\* The same for workers, if the job was not their boss, or stays at its place.
LEMMA OtherWorkersFit ==
    ASSUME IInv, NEW j \in Jobs, Frame(j),
           pc[j] \notin {"fan", "done"}
    PROVE  \A k \in Jobs \ {j} : WorkerFits(k)'
  <1> SUFFICES ASSUME NEW k \in Jobs, k # j, Worker(k), pc'[k] # "new"
               PROVE  WorkerFits(k)'
    BY DEF WorkerFits, Worker
  <1>1. WorkerFits(k) /\ pc'[k] = pc[k] /\ ask'[k] = ask[k]
    BY DEF IInv, Frame
  <1>2. Boss(k) \in Jobs /\ Boss(k) # j
    BY <1>1, JobFacts DEF WorkerFits
  <1>3. pc'[Boss(k)] = pc[Boss(k)] /\ ask'[Boss(k)] = ask[Boss(k)]
    BY <1>2 DEF Frame
  <1>4. bulk'[k[1]] = bulk[k[1]]
    BY <1>2, JobFacts DEF Frame
  <1> QED
    BY <1>1, <1>3, <1>4 DEF WorkerFits, Boss, Worker

\* A step that neither takes nor gives back a token.
LEMMA SemKept ==
    ASSUME SemFits, NEW j \in Jobs, sem' = sem,
           \A k \in Jobs \ {j} : pc'[k] = pc[k],
           Worker(j) => (pc[j] \in Held <=> pc'[j] \in Held)
    PROVE  SemFits'
  <1>1. \A r : Holders(r)' = Holders(r)
    BY DEF Holders, Jobs, Reqs, Worker, Held
  <1> QED
    BY <1>1 DEF SemFits, Reqs

Fits == \A j \in Jobs : JobFits(j) /\ RowFits(j) /\ WorkerFits(j) /\ TierFits(j)

\* A step of one job that does not end it.
LEMMA MoveStep ==
    ASSUME IInv, NEW j \in Jobs, Frame(j), sem' = sem, life' = life,
           pc[j] \notin {"fan", "done"},
           life = "closing" => pc[j] # "new",
           Worker(j) => pc[j] \in Held /\ pc'[j] \in Held,
           JobFits(j)', RowFits(j)', TierFits(j)', WorkerFits(j)',
           pc[j] # "new" /\ Hijacked(j) => Hijacked(j)'
    PROVE  Fits' /\ SemFits' /\ Drained'
  <1>1. Fits'
    BY OthersFit, OtherWorkersFit DEF Fits, Jobs, Reqs
  <1>2. \A k \in Jobs \ {j} : pc'[k] = pc[k] /\ kind'[k] = kind[k]
    BY DEF Frame
  <1>3. SemFits'
    BY <1>2, SemKept DEF IInv
  <1>4. Drained'
    BY <1>2 DEF IInv, Drained, InFlight, Hijacked, Jobs, Reqs
  <1> QED
    BY <1>1, <1>3, <1>4

Results == {"ok", "failed", "refused", "unlogged", "lost"}

\* A step that ends one.
LEMMA AnswerStep ==
    ASSUME IInv, NEW j \in Jobs, NEW what \in Results \cup {"none"}, Answer(j, what),
           pc[j] \notin {"new", "wait", "done"}, life' = life,
           \A k \in Jobs \ {j} : runs'[k] = runs[k],
           runs[j] # None => runs'[j] # None,
           j \in ran => runs'[j] # None \/ what \in {"unlogged", "lost"},
           pc[j] = "fan" => \A w \in Workers(j) : pc[w] = "done"
    PROVE  JobTypeOK' /\ Fits' /\ SemFits' /\ Drained'
  <1> DEFINE W == Worker(j)
  <1>0. /\ TypeOK /\ JobTypeOK /\ SemFits
        /\ JobFits(j) /\ RowFits(j) /\ WorkerFits(j)
    BY DEF IInv, TypeOK
  <1>1. pc'[j] = "done" /\ result'[j] = what /\ kind'[j] = kind[j] /\ ran' = ran
    BY <1>0 DEF Answer, Goto, JobTypeOK
  <1>2. Frame(j)
    BY <1>0 DEF Answer, Goto, JobTypeOK, Frame
  <1>3. W => pc[j] \in Held
    <2> SUFFICES ASSUME W PROVE pc[j] \in Held
      OBVIOUS
    <2>1. pc[j] \notin Bulking
      BY <1>0 DEF JobFits
    <2>2. pc[j] \in Held \cup Bulking \cup {"new", "wait", "done"}
      BY <1>0 DEF JobTypeOK, Held, Bulking
    <2> QED
      BY <2>1, <2>2
  <1>4. JobFits(j)' /\ RowFits(j)' /\ TierFits(j)'
    <2>1. JobFits(j)'
      BY <1>0, <1>1 DEF JobFits, Worker, Held, Bulking, Prepared
    <2>2. RowFits(j)'
      BY <1>0, <1>1 DEF RowFits
    <2>3. TierFits(j)'
      BY <1>1 DEF TierFits, Bulking, Prepared
    <2> QED
      BY <2>1, <2>2, <2>3
  <1>5. \A k \in Jobs : WorkerFits(k)'
    <2> SUFFICES ASSUME NEW k \in Jobs, Worker(k), pc'[k] # "new" PROVE WorkerFits(k)'
      BY DEF WorkerFits, Worker
    <2>1. pc[k] # "new" /\ WorkerFits(k) /\ Boss(k) \in Jobs /\ Boss(k)[1] = k[1]
      BY <1>2, JobFacts DEF Frame, IInv
    <2>2. bulk' = bulk
      BY DEF Answer
    <2>3. CASE k = j
      <3>1. Boss(k) # j
        BY <2>3, JobFacts
      <3>2. pc'[Boss(k)] = pc[Boss(k)]
        BY <3>1, <2>1, <1>2 DEF Frame
      <3>3. pc[Boss(k)] = "fan"
        BY <2>1, <2>3 DEF WorkerFits
      <3> QED
        BY <3>2, <3>3, <1>1, <2>3 DEF WorkerFits, Boss
    <2>4. CASE k # j /\ Boss(k) # j
      <3>1. pc'[k] = pc[k] /\ ask'[k] = ask[k] /\ pc'[Boss(k)] = pc[Boss(k)]
            /\ ask'[Boss(k)] = ask[Boss(k)]
        BY <2>4, <2>1, <1>2 DEF Frame
      <3> QED
        BY <3>1, <2>1, <2>2 DEF WorkerFits, Boss
    <2>5. CASE k # j /\ Boss(k) = j
      <3>1. pc[j] = "fan"
        BY <2>1, <2>5 DEF WorkerFits
      <3>2. pc[k] = "done"
        <4> SUFFICES ASSUME pc[k] # "done" PROVE FALSE
          OBVIOUS
        <4>1. k[2] \in 1..Len(bulk[k[1]].targets)
          BY <2>1 DEF WorkerFits
        <4>2. k \in Workers(j)
          BY <4>1, <2>1, <2>5, JobFacts DEF Workers
        <4> QED
          BY <4>2, <3>1
      <3>3. pc'[k] = "done"
        BY <3>2, <2>5, <1>2 DEF Frame
      <3> QED
        BY <3>3, <1>1, <2>5 DEF WorkerFits
    <2> QED
      BY <2>3, <2>4, <2>5
  <1>6. Fits'
    BY <1>2, <1>4, <1>5, OthersFit DEF Fits, Jobs, Reqs
  <1>7. SemFits' /\ sem' \in [Reqs -> 0..Concurrency]
    <2>1. CASE ~W
      <3>1. sem' = sem
        BY <2>1 DEF Answer
      <3> QED
        BY <3>1, <2>1, <1>0, <1>2, SemKept DEF Frame, JobTypeOK
    <2>2. CASE W
      <3>1. sem' = [sem EXCEPT ![j[1]] = @ - 1]
        BY <2>2 DEF Answer
      <3>2. j \in Holders(j[1])
        BY <2>2, <1>3 DEF Holders
      <3>3. Holders(j[1])' = Holders(j[1]) \ {j}
        BY <1>1, <1>2 DEF Holders, Frame, Jobs, Reqs, Worker, Held
      <3>4. \A r : r # j[1] => Holders(r)' = Holders(r)
        BY <1>1, <1>2 DEF Holders, Frame, Jobs, Reqs, Worker, Held
      <3>5. Cardinality(Holders(j[1])') = Cardinality(Holders(j[1])) - 1
        BY <3>2, <3>3, HoldersFinite, FS_RemoveElement
      <3>6. sem[j[1]] = Cardinality(Holders(j[1])) /\ j[1] \in Reqs
        BY <1>0, JobFacts DEF SemFits
      <3>7. Cardinality(Holders(j[1])') \in Nat
        BY HoldersFinitePrime
      <3>8. sem[j[1]] - 1 \in 0..Concurrency
        BY <3>5, <3>6, <3>7, <1>0, EngineAssumption DEF JobTypeOK
      <3>9. sem' \in [Reqs -> 0..Concurrency]
        BY <3>1, <3>8, <1>0 DEF JobTypeOK
      <3>10. \A r \in Reqs : sem'[r] = Cardinality(Holders(r)')
        BY <3>1, <3>4, <3>5, <3>6, <1>0 DEF JobTypeOK, SemFits
      <3> QED
        BY <3>9, <3>10 DEF SemFits, Reqs
    <2> QED
      BY <2>1, <2>2
  <1>8. Drained'
    BY <1>1, <1>2 DEF IInv, Drained, InFlight, Hijacked, Jobs, Reqs, Frame
  <1>9. JobTypeOK'
    <2>1. ask' \in [Jobs -> [machine : Machines \cup {None},
                             action : Actions \cup {"terminal.open", None},
                             confirm : SUBSET ({"click"} \cup Names)]]
      BY <1>0 DEF Answer, JobTypeOK, NoAsk
    <2>2. got' \in [Jobs -> [tier : Tiers \cup {None}, row : Rows \cup {None}]]
      BY <1>0 DEF Answer, JobTypeOK, NoGot
    <2>3. pc' \in [Jobs -> {"new", "lookup", "machine", "facts", "upgrade", "exec", "running", "log",
                            "session", "group", "list", "gate", "fan", "wait", "done"}]
      BY <1>0 DEF Answer, Goto, JobTypeOK
    <2>4. result' \in [Jobs -> {"none", "ok", "failed", "refused", "unlogged", "lost"}]
      BY <1>0 DEF Answer, JobTypeOK, Results
    <2> QED
      BY <1>0, <1>7, <2>1, <2>2, <2>3, <2>4 DEF Answer, Goto, JobTypeOK, Jobs, Reqs, Actions, Rows, Tiers, Targets
  <1> QED
    BY <1>6, <1>7, <1>8, <1>9

-----------------------------------------------------------------------------
(* One lemma for each step.                                                 *)

JobInv == JobTypeOK /\ Fits /\ SemFits /\ Drained

LEMMA Known ==
    ASSUME IInv, NEW j \in Jobs
    PROVE  /\ TypeOK /\ StoreTypeOK /\ JobTypeOK /\ SemFits /\ Drained
           /\ JobFits(j) /\ RowFits(j) /\ WorkerFits(j) /\ TierFits(j)
  BY DEF IInv, TypeOK

AskType == [machine : Machines \cup {None}, action : Actions \cup {"terminal.open", None},
            confirm : SUBSET ({"click"} \cup Names)]

LEMMA StartStep ==
    ASSUME IInv, NEW j \in Jobs, Start(j)
    PROVE  JobInv'
  <1>0. /\ JobTypeOK /\ JobFits(j) /\ RowFits(j) /\ WorkerFits(j)
    BY Known
  <1>1. /\ pc[j] = "new" /\ ~Worker(j) /\ life = "up" /\ life' = life /\ runs' = runs
        /\ \E k \in Kinds : kind' = [kind EXCEPT ![j] = k]
        /\ UNCHANGED <<got, sem, ran, result>>
    <2>1. PICK k \in {"run", "stream", "terminal", "power", "bulk"} : Comes(j, k)
      BY DEF Start, StartRun, StartStream, StartTerminal, StartPower, StartBulk
    <2>2. pc[j] = "new" /\ j[2] = 0 /\ life = "up" /\ life' = life /\ runs' = runs
          /\ k \in Kinds /\ kind' = [kind EXCEPT ![j] = k]
          /\ UNCHANGED <<got, sem, ran, result>>
      BY <2>1 DEF Comes, world, stored
    <2>3. ~Worker(j)
      BY <2>2 DEF Worker
    <2>4. \E t \in Kinds : kind' = [kind EXCEPT ![j] = t]
      BY <2>2
    <2> QED
      BY <2>2, <2>3, <2>4
  <1>2. /\ \E a \in AskType : ask' = [ask EXCEPT ![j] = a]
        /\ \/ bulk' = bulk
           \/ \E b \in [ids : Seq(Machines), targets : Seq(Targets), count : Nat] :
                 bulk' = [bulk EXCEPT ![j[1]] = b]
        /\ \/ pc' = [pc EXCEPT ![j] = "lookup"]
              /\ kind'[j] \in {"run", "stream", "bulk"} /\ ask'[j].action \in Runnable
           \/ pc' = [pc EXCEPT ![j] = "machine"]
              /\ \/ kind'[j] = "power" /\ ask'[j].action \in Powers
                 \/ kind'[j] = "terminal" /\ ask'[j].action = "terminal.open"
        /\ kind'[j] # "bulk" => ask'[j].machine \in Machines
    <2>1. CASE \E m \in Machines, a \in BuiltIns \cup Custom, c \in Confirms : StartRun(j, m, a, c)
      <3> PICK m \in Machines, a \in BuiltIns \cup Custom, c \in Confirms : StartRun(j, m, a, c)
        BY <2>1
      <3>1. [machine |-> m, action |-> a, confirm |-> c] \in AskType
        BY DEF AskType, Actions, Confirms
      <3> QED
        BY <3>1, <1>0 DEF StartRun, Comes, JobTypeOK, Goto, Runnable
    <2>2. CASE \E m \in Machines, a \in Streams : StartStream(j, m, a)
      <3> PICK m \in Machines, a \in Streams : StartStream(j, m, a)
        BY <2>2
      <3>1. [machine |-> m, action |-> a, confirm |-> {}] \in AskType /\ a \in Runnable
        BY EngineAssumption DEF AskType, Actions, Runnable
      <3> QED
        BY <3>1, <1>0 DEF StartStream, Comes, JobTypeOK, Goto
    <2>3. CASE \E m \in Machines : StartTerminal(j, m)
      <3> PICK m \in Machines : StartTerminal(j, m)
        BY <2>3
      <3>1. [machine |-> m, action |-> "terminal.open", confirm |-> {}] \in AskType
        BY DEF AskType
      <3> QED
        BY <3>1, <1>0 DEF StartTerminal, Comes, JobTypeOK, Goto
    <2>4. CASE \E m \in Machines, a \in Powers, c \in Confirms : StartPower(j, m, a, c)
      <3> PICK m \in Machines, a \in Powers, c \in Confirms : StartPower(j, m, a, c)
        BY <2>4
      <3>1. [machine |-> m, action |-> a, confirm |-> c] \in AskType
        BY DEF AskType, Actions, Confirms
      <3> QED
        BY <3>1, <1>0 DEF StartPower, Comes, JobTypeOK, Goto
    <2>5. CASE \E ids \in Lists \cup {<<>>}, a \in BuiltIns \cup Custom :
                  StartBulk(j, ids, a, {"click"}, 0) \/ \E n \in 0..MaxTargets : StartBulk(j, ids, a, {}, n)
      <3>1. PICK ids \in Lists \cup {<<>>}, a \in BuiltIns \cup Custom, c \in {{}, {"click"}}, n \in 0..MaxTargets :
                  StartBulk(j, ids, a, c, n)
        <4>1. 0 \in 0..MaxTargets
          BY EngineAssumption
        <4> QED
          BY <2>5, <4>1
      <3>2. [machine |-> None, action |-> a, confirm |-> c] \in AskType
        BY DEF AskType, Actions
      <3>3. ids \in Seq(Machines)
        <4>1. CASE ids \in Lists
          BY <4>1, EngineAssumption
        <4>2. CASE ids = <<>>
          BY <4>2
        <4> QED
          BY <4>1, <4>2
      <3>4. [ids |-> ids, targets |-> <<>>, count |-> n]
               \in [ids : Seq(Machines), targets : Seq(Targets), count : Nat]
        BY <3>3
      <3> QED
        BY <3>1, <3>2, <3>4, <1>0 DEF StartBulk, Comes, JobTypeOK, Goto, Runnable
    <2> QED
      BY <2>1, <2>2, <2>3, <2>4, <2>5 DEF Start
  <1>3. Frame(j)
    <2>1. /\ \A k \in Jobs \ {j} : pc'[k] = pc[k] /\ kind'[k] = kind[k] /\ ask'[k] = ask[k]
          /\ \A r \in Reqs : r # j[1] => bulk'[r] = bulk[r]
      BY <1>0, <1>1, <1>2, JobFacts DEF JobTypeOK
    <2> QED
      BY <2>1, <1>1 DEF Frame
  <1>4. /\ kind'[j] \in Kinds /\ kind'[j] \in {"run", "stream", "terminal", "power", "bulk"}
        /\ pc'[j] \in {"lookup", "machine"}
    BY <1>0, <1>1, <1>2, EngineAssumption DEF JobTypeOK
  <1>5. JobFits(j)' /\ RowFits(j)' /\ WorkerFits(j)' /\ TierFits(j)'
    <2>1. JobFits(j)'
      <3>1. pc'[j] = "machine" =>
               \/ kind'[j] = "power" /\ ask'[j].action \in Powers
               \/ kind'[j] = "terminal" /\ ask'[j].action = "terminal.open"
        BY <1>0, <1>2 DEF JobTypeOK
      <3>2. pc'[j] = "lookup" => kind'[j] \in {"run", "stream", "bulk"} /\ ask'[j].action \in Runnable
        BY <1>0, <1>2 DEF JobTypeOK
      <3> QED
        BY <3>1, <3>2, <1>1, <1>2, <1>4 DEF JobFits, Held, Prepared, Bulking, Worker, Runnable
    <2>2. RowFits(j)'
      BY <1>0, <1>1, <1>4 DEF RowFits
    <2>3. WorkerFits(j)'
      BY <1>1 DEF WorkerFits, Worker
    <2>4. TierFits(j)'
      <3>1. pc'[j] = "machine" => ask'[j].action \notin BuiltIns
        BY <1>0, <1>2, EngineAssumption DEF JobTypeOK
      <3> QED
        BY <3>1, <1>4 DEF TierFits, Bulking, Prepared
    <2> QED
      BY <2>1, <2>2, <2>3, <2>4
  <1>6. Fits' /\ SemFits' /\ Drained'
    BY <1>1, <1>3, <1>5, MoveStep DEF Hijacked
  <1>7. JobTypeOK'
    <2>1. pc' \in [Jobs -> {"new", "lookup", "machine", "facts", "upgrade", "exec", "running", "log",
                            "session", "group", "list", "gate", "fan", "wait", "done"}]
      BY <1>0, <1>2 DEF JobTypeOK
    <2>2. kind' \in [Jobs -> {"none", "run", "stream", "terminal", "power", "bulk", "part"}]
      BY <1>0, <1>1, EngineAssumption DEF JobTypeOK
    <2>3. ask' \in [Jobs -> AskType]
      BY <1>0, <1>2 DEF JobTypeOK, AskType
    <2>4. bulk' \in [Reqs -> [ids : Seq(Machines), targets : Seq(Targets), count : Nat]]
      BY <1>0, <1>2 DEF JobTypeOK
    <2> QED
      BY <1>0, <1>1, <2>1, <2>2, <2>3, <2>4 DEF JobTypeOK, AskType, Jobs, Reqs, Targets, Rows, Tiers, Actions
  <1> QED
    BY <1>6, <1>7 DEF JobInv

Places == {"new", "lookup", "machine", "facts", "upgrade", "exec", "running", "log",
           "session", "group", "list", "gate", "fan", "wait", "done"}
GotType == [tier : Tiers \cup {None}, row : Rows \cup {None}]
BulkType == [ids : Seq(Machines), targets : Seq(Targets), count : Nat]

\* What a step of one job may write.
Writes(j, x, g, b, what) ==
    /\ pc' = [pc EXCEPT ![j] = x]
    /\ got' = [got EXCEPT ![j] = g]
    /\ bulk' = [bulk EXCEPT ![j[1]] = b]
    /\ result' = [result EXCEPT ![j] = what]
    /\ ran' \in SUBSET Jobs
    /\ \A k \in Jobs \ {j} : runs'[k] = runs[k] /\ (k \in ran' <=> k \in ran)
    /\ UNCHANGED <<kind, ask, sem, life>>

LEMMA WrittenTo ==
    ASSUME IInv, NEW j \in Jobs, NEW x \in Places, NEW g \in GotType, NEW b \in BulkType,
           NEW what \in Results \cup {"none"}, Writes(j, x, g, b, what)
    PROVE  /\ pc'[j] = x /\ got'[j] = g /\ bulk'[j[1]] = b /\ result'[j] = what
           /\ kind'[j] = kind[j] /\ ask'[j] = ask[j]
           /\ ~Worker(j) \/ b = bulk[j[1]] => Frame(j)
           /\ JobTypeOK'
  <1>1. JobTypeOK /\ j[1] \in Reqs
    BY Known, JobFacts
  <1>2. pc'[j] = x /\ got'[j] = g /\ bulk'[j[1]] = b /\ result'[j] = what
    BY <1>1 DEF Writes, JobTypeOK
  <1>3. \A k \in Jobs \ {j} : /\ pc'[k] = pc[k] /\ got'[k] = got[k] /\ result'[k] = result[k]
                              /\ kind'[k] = kind[k] /\ ask'[k] = ask[k]
    BY <1>1 DEF Writes, JobTypeOK
  <1>4. \A r \in Reqs : r # j[1] \/ b = bulk[j[1]] => bulk'[r] = bulk[r]
    BY <1>1 DEF Writes, JobTypeOK
  <1>5. ~Worker(j) \/ b = bulk[j[1]] => Frame(j)
    BY <1>3, <1>4 DEF Frame, Writes
  <1>6. JobTypeOK'
    <2>1. pc' \in [Jobs -> Places]
      BY <1>1 DEF Writes, JobTypeOK, Places
    <2>2. got' \in [Jobs -> GotType]
      BY <1>1 DEF Writes, JobTypeOK, GotType
    <2>3. bulk' \in [Reqs -> BulkType]
      BY <1>1 DEF Writes, JobTypeOK, BulkType
    <2>4. result' \in [Jobs -> Results \cup {"none"}]
      BY <1>1 DEF Writes, JobTypeOK, Results
    <2> QED
      BY <1>1, <2>1, <2>2, <2>3, <2>4
      DEF Writes, JobTypeOK, Places, GotType, BulkType, Results, Jobs, Reqs, Targets, Rows, Tiers, Actions
  <1> QED
    BY <1>2, <1>5, <1>6 DEF Writes

LEMMA WriteStep ==
    ASSUME IInv, NEW j \in Jobs, NEW x \in Places, NEW g \in GotType, NEW b \in BulkType,
           NEW what \in Results \cup {"none"}, Writes(j, x, g, b, what),
           ~Worker(j) \/ b = bulk[j[1]],
           pc[j] \notin {"new", "fan", "done"},
           Worker(j) => pc[j] \in Held /\ x \in Held,
           JobFits(j)', RowFits(j)', TierFits(j)', WorkerFits(j)',
           Hijacked(j) => Hijacked(j)'
    PROVE  JobInv'
  <1>1. Frame(j) /\ JobTypeOK' /\ pc'[j] = x
    BY WrittenTo
  <1>2. sem' = sem /\ life' = life
    BY DEF Writes
  <1>3. Fits' /\ SemFits' /\ Drained'
    BY <1>1, <1>2, MoveStep
  <1> QED
    BY <1>1, <1>3 DEF JobInv

\* A worker that goes on still serves the same request.
LEMMA WorkerGoesOn ==
    ASSUME IInv, NEW j \in Jobs, NEW x \in Places, NEW g \in GotType,
           NEW what \in Results \cup {"none"}, Writes(j, x, g, bulk[j[1]], what),
           pc[j] \notin {"new", "done"}
    PROVE  WorkerFits(j)'
  <1> SUFFICES ASSUME Worker(j) PROVE WorkerFits(j)'
    BY DEF WorkerFits, Worker
  <1>1. WorkerFits(j) /\ JobTypeOK
    BY Known
  <1>2. bulk' = bulk /\ ask' = ask
    BY <1>1, JobFacts DEF Writes, JobTypeOK
  <1>3. Boss(j) # j /\ Boss(j) \in Jobs
    BY JobFacts
  <1>4. pc'[Boss(j)] = pc[Boss(j)]
    BY <1>1, <1>3 DEF Writes, JobTypeOK
  <1>5. pc[Boss(j)] = "fan"
    BY <1>1 DEF WorkerFits
  <1> QED
    BY <1>1, <1>2, <1>4, <1>5 DEF WorkerFits, Boss

LEMMA LooksStep ==
    ASSUME IInv, NEW j \in Jobs, Looks(j)
    PROVE  JobInv'
  <1> DEFINE t == TierOf(ask[j].action)
             g == [got[j] EXCEPT !.tier = t]
             x == AfterLookup(j)
  <1>0. /\ JobTypeOK /\ StoreTypeOK /\ JobFits(j) /\ RowFits(j) /\ WorkerFits(j) /\ TierFits(j)
        /\ j[1] \in Reqs
    BY Known, JobFacts
  <1>1. /\ pc[j] = "lookup" /\ ask[j].action \in Runnable
        /\ kind[j] \in {"run", "stream", "part", "bulk"}
    BY <1>0 DEF Looks, JobFits
  <1>2. t \in Tiers /\ (ask[j].action \in BuiltIns => t = Tier[ask[j].action])
    <2>1. CASE ask[j].action \in BuiltIns
      BY <2>1, EngineAssumption DEF TierOf
    <2>2. CASE ask[j].action \notin BuiltIns
      BY <2>2, <1>0, <1>1 DEF TierOf, Runnable, StoreTypeOK, Looks
    <2> QED
      BY <2>1, <2>2
  <1>3. g \in GotType /\ g.tier = t
    <2>1. got[j] \in GotType
      BY <1>0 DEF JobTypeOK, GotType
    <2> QED
      BY <2>1, <1>2 DEF GotType
  <1>4. /\ x \in {"machine", "group", "list"}
        /\ x = "machine" <=> kind[j] # "bulk"
        /\ x = "list" => bulk[j[1]].ids # <<>>
    BY DEF AfterLookup
  <1>5. bulk[j[1]] \in BulkType /\ result[j] \in Results \cup {"none"}
    BY <1>0 DEF JobTypeOK, BulkType, Results
  <1>6. Writes(j, x, g, bulk[j[1]], result[j])
    BY <1>0 DEF Looks, Goto, Keep, world, stored, Writes, JobTypeOK
  <1> HIDE DEF g, t, x
  <1>7. /\ pc'[j] = x /\ got'[j] = g /\ bulk'[j[1]] = bulk[j[1]] /\ result'[j] = result[j]
        /\ kind'[j] = kind[j] /\ ask'[j] = ask[j]
    BY <1>3, <1>4, <1>5, <1>6, WrittenTo DEF Places
  <1>8. JobFits(j)'
    BY <1>0, <1>1, <1>2, <1>3, <1>4, <1>7 DEF JobFits, Worker, Held, Prepared, Bulking, Runnable
  <1>9. RowFits(j)'
    BY <1>0, <1>1, <1>4, <1>7 DEF RowFits, Looks, world, stored, Keep
  <1>10. TierFits(j)'
    BY <1>2, <1>3, <1>4, <1>7 DEF TierFits, Bulking, Prepared
  <1>11. WorkerFits(j)'
    BY <1>1, <1>3, <1>4, <1>5, <1>6, WorkerGoesOn DEF Places
  <1>12. Worker(j) => kind[j] # "bulk"
    BY <1>0, <1>1 DEF JobFits
  <1> QED
    BY <1>1, <1>3, <1>4, <1>5, <1>6, <1>8, <1>9, <1>10, <1>11, <1>12, WriteStep
    DEF Places, Held, Hijacked

LEMMA ReadsMachineStep ==
    ASSUME IInv, NEW j \in Jobs, ReadsMachine(j)
    PROVE  JobInv'
  <1> DEFINE r == machine[ask[j].machine]
             g == [tier |-> Danger(j), row |-> r]
             x == AfterMachine(j)
  <1>0. /\ JobTypeOK /\ StoreTypeOK /\ JobFits(j) /\ RowFits(j) /\ WorkerFits(j) /\ TierFits(j)
        /\ j[1] \in Reqs
    BY Known, JobFacts
  <1>1. /\ pc[j] = "machine" /\ ask[j].machine \in Machines
        /\ \/ kind[j] = "power" /\ ask[j].action \in Powers
           \/ kind[j] = "terminal" /\ ask[j].action = "terminal.open"
           \/ kind[j] \in {"run", "stream", "part"} /\ ask[j].action \in Runnable /\ got[j].tier \in Tiers
    BY <1>0 DEF ReadsMachine, JobFits, Held
  <1>2. /\ r \in Rows
        /\ kind[j] # "terminal" => Gate(Danger(j), r, ask[j].confirm)
    BY <1>0, <1>1 DEF ReadsMachine, Admits, StoreTypeOK
  <1>3. /\ Danger(j) \in Tiers
        /\ ask[j].action \in BuiltIns => Danger(j) = Tier[ask[j].action]
    <2>1. kind[j] \in {"power", "terminal"} => ask[j].action \notin BuiltIns
      BY <1>1, EngineAssumption
    <2>2. kind[j] \notin {"power", "terminal"} => Danger(j) = got[j].tier
      BY DEF Danger
    <2>3. kind[j] \in {"power", "terminal"} => Danger(j) \in Tiers
      BY DEF Danger, PowerTier, Tiers
    <2>4. ask[j].action \in BuiltIns => got[j].tier = Tier[ask[j].action]
      BY <1>0, <1>1 DEF TierFits
    <2> QED
      BY <1>1, <2>1, <2>2, <2>3, <2>4
  <1>4. g \in GotType /\ g.tier = Danger(j) /\ g.row = r
    BY <1>2, <1>3 DEF GotType
  <1>5. /\ x \in {"exec", "upgrade", "facts"}
        /\ x = "exec" => kind[j] = "power"
        /\ x = "upgrade" => kind[j] = "terminal"
        /\ x = "facts" => kind[j] \in {"run", "stream", "part"}
    BY <1>1 DEF AfterMachine
  <1>6. bulk[j[1]] \in BulkType /\ result[j] \in Results \cup {"none"}
    BY <1>0 DEF JobTypeOK, BulkType, Results
  <1>7. Writes(j, x, g, bulk[j[1]], result[j])
    BY <1>0 DEF ReadsMachine, Goto, Keep, world, stored, Writes, JobTypeOK
  <1>8. runs' = runs /\ ran' = ran
    BY DEF ReadsMachine, Keep, world, stored
  <1> HIDE DEF g, r, x
  <1>9. /\ pc'[j] = x /\ got'[j] = g /\ bulk'[j[1]] = bulk[j[1]] /\ result'[j] = result[j]
        /\ kind'[j] = kind[j] /\ ask'[j] = ask[j]
    BY <1>4, <1>5, <1>6, <1>7, WrittenTo DEF Places
  <1>10. JobFits(j)'
    <2>1. ask[j].action \in Actions \cup {"terminal.open"}
      BY <1>1 DEF Actions, Runnable
    <2> QED
      BY <1>0, <1>1, <1>2, <1>3, <1>4, <1>5, <1>9, <2>1
      DEF JobFits, Worker, Held, Prepared, Bulking
  <1>11. RowFits(j)'
    BY <1>0, <1>1, <1>5, <1>8, <1>9 DEF RowFits
  <1>12. TierFits(j)'
    BY <1>2, <1>3, <1>4, <1>5, <1>9 DEF TierFits, Gate, Bulking
  <1>13. WorkerFits(j)'
    BY <1>1, <1>4, <1>5, <1>6, <1>7, WorkerGoesOn DEF Places
  <1> QED
    BY <1>1, <1>4, <1>5, <1>6, <1>7, <1>10, <1>11, <1>12, <1>13, WriteStep
    DEF Places, Held, Hijacked

\* The steps from facts to log that only move the job and note what happened.
LEMMA PreparedMoves ==
    ASSUME IInv, NEW j \in Jobs, NEW x \in Prepared \ {"facts", "session"},
           NEW what \in Results \cup {"none"},
           Writes(j, x, got[j], bulk[j[1]], what),
           pc[j] \in {"facts", "upgrade", "exec", "running"},
           runs' = runs, j \in ran' => x \in {"running", "log"},
           j \in ran' => kind[j] # "stream",
           runs[j] = None,
           x = "exec" => kind[j] # "stream",
           x = "upgrade" => kind[j] \in {"stream", "terminal"},
           x = "running" => kind[j] \in {"run", "part", "power"},
           Hijacked(j) => x = "log"
    PROVE  JobInv'
  <1>0. /\ JobTypeOK /\ StoreTypeOK /\ JobFits(j) /\ RowFits(j) /\ WorkerFits(j) /\ TierFits(j)
        /\ j[1] \in Reqs
    BY Known, JobFacts
  <1>1. got[j] \in GotType /\ bulk[j[1]] \in BulkType /\ x \in Places
    BY <1>0 DEF JobTypeOK, GotType, BulkType, Places, Prepared
  <1>2. /\ pc'[j] = x /\ got'[j] = got[j] /\ bulk'[j[1]] = bulk[j[1]] /\ result'[j] = what
        /\ kind'[j] = kind[j] /\ ask'[j] = ask[j]
    BY <1>1, WrittenTo
  <1>3. x \in {"upgrade", "exec", "running", "log"}
    BY DEF Prepared
  <1>4. JobFits(j)'
    BY <1>0, <1>2, <1>3 DEF JobFits, Worker, Held, Prepared, Bulking
  <1>5. RowFits(j)'
    BY <1>0, <1>2, <1>3 DEF RowFits, JobFits
  <1>6. TierFits(j)'
    BY <1>0, <1>2, <1>3 DEF TierFits, Bulking, Prepared
  <1>7. WorkerFits(j)'
    BY <1>1, WorkerGoesOn
  <1>8. Hijacked(j) => Hijacked(j)'
    BY <1>2 DEF Hijacked
  <1> QED
    BY <1>1, <1>3, <1>4, <1>5, <1>6, <1>7, <1>8, WriteStep DEF Held

LEMMA Stays ==
    ASSUME IInv, NEW j \in Jobs
    PROVE  /\ got = [got EXCEPT ![j] = got[j]]
           /\ bulk = [bulk EXCEPT ![j[1]] = bulk[j[1]]]
           /\ result = [result EXCEPT ![j] = result[j]]
           /\ result[j] \in Results \cup {"none"}
           /\ ran \in SUBSET Jobs
  BY Known, JobFacts DEF JobTypeOK, Results

LEMMA ReadsFactsStep ==
    ASSUME IInv, NEW j \in Jobs, ReadsFacts(j)
    PROVE  JobInv'
  <1> DEFINE x == IF kind[j] = "stream" THEN "upgrade" ELSE "exec"
  <1>1. pc[j] = "facts" /\ JobFits(j) /\ RowFits(j)
    BY Known DEF ReadsFacts
  <1>2. Writes(j, x, got[j], bulk[j[1]], result[j])
    BY Stays DEF ReadsFacts, Goto, Keep, world, stored, Writes
  <1>3. runs' = runs /\ ran' = ran
    BY DEF ReadsFacts, Keep, world, stored
  <1> QED
    BY <1>1, <1>2, <1>3, Stays, PreparedMoves DEF Prepared, RowFits, Hijacked

LEMMA UpgradesStep ==
    ASSUME IInv, NEW j \in Jobs, Upgrades(j)
    PROVE  JobInv'
  <1> DEFINE x == IF kind[j] = "stream" THEN "log" ELSE "exec"
  <1>1. pc[j] = "upgrade" /\ JobFits(j) /\ RowFits(j)
    BY Known DEF Upgrades
  <1>2. Writes(j, x, got[j], bulk[j[1]], result[j])
    BY Stays DEF Upgrades, Goto, Keep, world, stored, Writes
  <1>3. runs' = runs /\ ran' = ran
    BY DEF Upgrades, Keep, world, stored
  <1> QED
    BY <1>1, <1>2, <1>3, Stays, PreparedMoves DEF Prepared, RowFits, Hijacked

LEMMA EndsStep ==
    ASSUME IInv, NEW j \in Jobs, Ends(j)
    PROVE  JobInv'
  <1>1. pc[j] = "running" /\ JobFits(j) /\ RowFits(j)
    BY Known DEF Ends
  <1>2. PICK what \in {"ok", "failed"} : result' = [result EXCEPT ![j] = what]
    BY DEF Ends
  <1>3. Writes(j, "log", got[j], bulk[j[1]], what)
    BY <1>2, Stays DEF Ends, Goto, world, stored, Writes
  <1>4. runs' = runs /\ ran' = ran
    BY DEF Ends, world, stored
  <1>5. kind[j] \in {"run", "part", "power"}
    BY <1>1 DEF JobFits
  <1> QED
    BY <1>1, <1>3, <1>4, <1>5, Stays, PreparedMoves DEF Prepared, RowFits, Hijacked, Results

\* A session: a stream that is open, a terminal that is recorded.
LEMMA SessionOpens ==
    ASSUME IInv, NEW j \in Jobs, NEW x \in {"exec", "session"},
           Writes(j, x, got[j], bulk[j[1]], result[j]),
           pc[j] \in {"exec", "log"}, kind[j] \in {"stream", "terminal"},
           x = "exec" => kind[j] = "stream" /\ j \notin ran',
           runs'[j] # None
    PROVE  JobInv'
  <1>0. /\ JobTypeOK /\ StoreTypeOK /\ JobFits(j) /\ RowFits(j) /\ WorkerFits(j) /\ TierFits(j)
        /\ j[1] \in Reqs
    BY Known, JobFacts
  <1>1. got[j] \in GotType /\ bulk[j[1]] \in BulkType /\ x \in Places /\ result[j] \in Results \cup {"none"}
    BY <1>0 DEF JobTypeOK, GotType, BulkType, Places, Results
  <1>2. /\ pc'[j] = x /\ got'[j] = got[j] /\ bulk'[j[1]] = bulk[j[1]] /\ result'[j] = result[j]
        /\ kind'[j] = kind[j] /\ ask'[j] = ask[j]
    BY <1>1, WrittenTo
  <1>4. JobFits(j)'
    BY <1>0, <1>2 DEF JobFits, Worker, Held, Prepared, Bulking
  <1>5. RowFits(j)'
    BY <1>0, <1>2 DEF RowFits
  <1>6. TierFits(j)'
    BY <1>0, <1>2 DEF TierFits, Bulking, Prepared
  <1>7. WorkerFits(j)'
    BY <1>1, WorkerGoesOn
  <1>8. Hijacked(j)'
    BY <1>2 DEF Hijacked
  <1> QED
    BY <1>1, <1>4, <1>5, <1>6, <1>7, <1>8, WriteStep DEF Held

LEMMA ReachesStep ==
    ASSUME IInv, NEW j \in Jobs, Reaches(j)
    PROVE  JobInv'
  <1>0. pc[j] = "exec" /\ JobFits(j) /\ RowFits(j)
    BY Known DEF Reaches
  <1>1. runs' = runs /\ ran' \in SUBSET Jobs /\ \A k \in Jobs \ {j} : k \in ran' <=> k \in ran
    BY Stays DEF Reaches, world, stored
  <1>2. CASE kind[j] = "stream"
    <2>1. Writes(j, "session", got[j], bulk[j[1]], result[j])
      BY <1>1, <1>2, Stays DEF Reaches, Goto, world, stored, Writes
    <2> QED
      BY <2>1, <1>0, <1>1, <1>2, SessionOpens DEF RowFits
  <1>3. CASE kind[j] = "terminal"
    <2>1. Writes(j, "log", got[j], bulk[j[1]], result[j])
      BY <1>1, <1>3, Stays DEF Reaches, Goto, world, stored, Writes
    <2> QED
      BY <2>1, <1>0, <1>1, <1>3, Stays, PreparedMoves DEF RowFits, Prepared
  <1>4. CASE kind[j] \notin {"stream", "terminal"}
    <2>1. Writes(j, "running", got[j], bulk[j[1]], result[j])
      BY <1>1, <1>4, Stays DEF Reaches, Goto, world, stored, Writes
    <2>2. kind[j] \in {"run", "part", "power"}
      BY <1>0, <1>4 DEF JobFits, Prepared
    <2> QED
      BY <2>1, <2>2, <1>0, <1>1, <1>4, Stays, PreparedMoves DEF RowFits, Prepared, Hijacked
  <1> QED
    BY <1>2, <1>3, <1>4

LEMMA ReachesNotStep ==
    ASSUME IInv, NEW j \in Jobs, ReachesNot(j)
    PROVE  JobInv'
  <1>0. pc[j] = "exec" /\ JobFits(j) /\ RowFits(j) /\ runs' = runs /\ life' = life
    BY Known DEF ReachesNot, world, stored
  <1>1. CASE kind[j] \in {"stream", "terminal"}
    <2>1. Answer(j, "failed")
      BY <1>1 DEF ReachesNot
    <2> QED
      BY <1>0, <2>1, AnswerStep DEF JobInv, RowFits, Results
  <1>2. CASE kind[j] \notin {"stream", "terminal"}
    <2>1. Writes(j, "log", got[j], bulk[j[1]], "failed")
      BY <1>2, Stays DEF ReachesNot, Goto, world, stored, Writes
    <2>2. ran' = ran
      BY <1>2 DEF ReachesNot
    <2> QED
      BY <2>1, <2>2, <1>0, <1>2, Stays, PreparedMoves DEF RowFits, Prepared, Hijacked, Results
  <1> QED
    BY <1>1, <1>2

LEMMA LogsStep ==
    ASSUME IInv, NEW j \in Jobs, Logs(j)
    PROVE  JobInv'
  <1>0. /\ pc[j] = "log" /\ JobFits(j) /\ RowFits(j) /\ life' = life /\ TypeOK
        /\ runs' = [runs EXCEPT ![j] = AuditRow(j)]
    BY Known DEF Logs
  <1>1. AuditRow(j) \in AuditRows
    BY <1>0 DEF AuditRow, AuditRows, JobFits, Held, Prepared, Rows
  <1>2. /\ runs'[j] # None
        /\ \A k \in Jobs \ {j} : runs'[k] = runs[k]
    BY <1>0, <1>1, EngineAssumption DEF TypeOK, StoreTypeOK
  <1>3. CASE kind[j] = "stream"
    <2>1. Writes(j, "exec", got[j], bulk[j[1]], result[j])
      BY <1>2, <1>3, Stays DEF Logs, Logged, Goto, Keep, Writes
    <2>2. j \notin ran'
      BY <1>0, <1>3 DEF Logs, Logged, Keep, RowFits
    <2> QED
      BY <2>1, <2>2, <1>0, <1>2, <1>3, SessionOpens
  <1>4. CASE kind[j] = "terminal"
    <2>1. Writes(j, "session", got[j], bulk[j[1]], result[j])
      BY <1>2, <1>4, Stays DEF Logs, Logged, Goto, Keep, Writes
    <2> QED
      BY <2>1, <1>0, <1>2, <1>4, SessionOpens
  <1>5. CASE kind[j] \notin {"stream", "terminal"}
    <2>1. Answer(j, result[j])
      BY <1>5 DEF Logs, Logged
    <2> QED
      BY <2>1, <1>0, <1>2, Stays, AnswerStep DEF JobInv
  <1> QED
    BY <1>3, <1>4, <1>5

LEMMA EndedStep ==
    ASSUME IInv, NEW j \in Jobs,
           \/ LooksInVain(j) \/ MachineRefused(j) \/ NotAvailable(j) \/ LogFails(j)
           \/ BulkRefused(j) \/ BulkEnds(j) \/ SessionEnds(j)
    PROVE  JobInv'
  <1>0. JobFits(j) /\ RowFits(j)
    BY Known
  <1>1. runs' = runs /\ life' = life
    BY DEF LooksInVain, MachineRefused, NotAvailable, LogFails, BulkRefused, BulkEnds, SessionEnds,
           world, stored
  <1>2. CASE LooksInVain(j) \/ MachineRefused(j) \/ NotAvailable(j) \/ BulkRefused(j)
    <2>1. Answer(j, "refused")
      BY <1>2 DEF LooksInVain, MachineRefused, NotAvailable, BulkRefused, Refuse
    <2>2. pc[j] \in {"lookup", "machine", "facts", "upgrade", "exec", "gate"}
      BY <1>2 DEF LooksInVain, MachineRefused, NotAvailable, BulkRefused
    <2> QED
      BY <1>0, <1>1, <2>1, <2>2, AnswerStep DEF JobInv, RowFits, Results
  <1>3. CASE LogFails(j)
    BY <1>0, <1>1, <1>3, AnswerStep DEF LogFails, JobInv, Results
  <1>4. CASE SessionEnds(j)
    BY <1>0, <1>1, <1>4, AnswerStep DEF SessionEnds, JobInv, Results, RowFits
  <1>5. CASE BulkEnds(j)
    BY <1>0, <1>1, <1>5, AnswerStep DEF BulkEnds, JobInv, Results, RowFits
  <1> QED
    BY <1>2, <1>3, <1>4, <1>5

\* Reading targets, one statement at a time.
LEMMA TargetsRead ==
    ASSUME IInv, NEW j \in Jobs, NEW x \in {"list", "gate"}, NEW b \in BulkType,
           Writes(j, x, got[j], b, result[j]),
           pc[j] \in {"group", "list"}, runs' = runs, ran' = ran,
           x = "list" => b.ids # <<>>
    PROVE  JobInv'
  <1>0. /\ JobTypeOK /\ JobFits(j) /\ RowFits(j) /\ WorkerFits(j) /\ TierFits(j) /\ j[1] \in Reqs
    BY Known, JobFacts
  <1>1. kind[j] = "bulk" /\ ~Worker(j)
    BY <1>0 DEF JobFits, Bulking
  <1>2. got[j] \in GotType /\ x \in Places /\ result[j] \in Results \cup {"none"}
    BY <1>0 DEF JobTypeOK, GotType, Places, Results
  <1>3. /\ pc'[j] = x /\ got'[j] = got[j] /\ bulk'[j[1]] = b /\ result'[j] = result[j]
        /\ kind'[j] = kind[j] /\ ask'[j] = ask[j]
    BY <1>2, WrittenTo
  <1>4. JobFits(j)'
    BY <1>0, <1>1, <1>3 DEF JobFits, Worker, Held, Prepared, Bulking, Runnable
  <1>5. RowFits(j)'
    BY <1>0, <1>1, <1>3 DEF RowFits
  <1>6. TierFits(j)'
    BY <1>0, <1>3 DEF TierFits, Bulking, Prepared
  <1>7. WorkerFits(j)'
    BY <1>1 DEF WorkerFits, Worker
  <1> QED
    BY <1>1, <1>2, <1>4, <1>5, <1>6, <1>7, WriteStep DEF Hijacked

LEMMA FunctionIsSequence ==
    ASSUME NEW T, NEW n \in Nat, NEW f \in [1..n -> T]
    PROVE  f \in Seq(T)
  OBVIOUS

LEMMA ListedType ==
    ASSUME NEW S \in SUBSET Machines
    PROVE  Listed(S) \in Seq(S) /\ DOMAIN Listed(S) = 1..Len(Listed(S))
  <1>1. IsFiniteSet(S)
    BY EngineAssumption, FS_Subset
  <1>2. Cardinality(S) \in Nat /\ ExistsBijection(1..Cardinality(S), S)
    BY <1>1, FS_CardinalityType
  <1>3. PICK f \in [1..Cardinality(S) -> S] : \A x, y \in DOMAIN f : f[x] = f[y] => x = y
    BY <1>2 DEF ExistsBijection, Bijection, Injection, IsInjective
  <1>4. Listed(S) \in [1..Cardinality(S) -> S]
    BY <1>3 DEF Listed
  <1> QED
    BY <1>2, <1>4

LEMMA ReadsGroupStep ==
    ASSUME IInv, NEW j \in Jobs, ReadsGroup(j)
    PROVE  JobInv'
  <1> DEFINE S == {m \in Machines : Reachable(m) /\ machine[m].tagged}
             s == Listed(S)
             ts == [i \in DOMAIN s |-> TargetAt(s[i])]
             b == [bulk[j[1]] EXCEPT !.targets = ts]
  <1>0. JobTypeOK /\ StoreTypeOK /\ j[1] \in Reqs
    BY Known, JobFacts
  <1>1. s \in Seq(S) /\ DOMAIN s = 1..Len(s)
    BY ListedType
  <1>2. \A m \in S : TargetAt(m) \in Targets
    BY <1>0 DEF TargetAt, Targets, Reachable, StoreTypeOK, Rows
  <1>3. ts \in Seq(Targets)
    <2>1. \A i \in 1..Len(s) : s[i] \in S
      BY <1>1
    <2>2. ts \in [1..Len(s) -> Targets] /\ Len(s) \in Nat
      BY <1>1, <1>2, <2>1
    <2> QED
      BY <2>2, FunctionIsSequence
  <1>4. b \in BulkType
    BY <1>0, <1>3 DEF JobTypeOK, BulkType
  <1>5. bulk' = [bulk EXCEPT ![j[1]] = b]
    BY <1>0 DEF ReadsGroup, JobTypeOK
  <1> HIDE DEF b
  <1>6. Writes(j, "gate", got[j], b, result[j])
    BY <1>5, Stays DEF ReadsGroup, Goto, world, stored, Writes
  <1> QED
    BY <1>4, <1>6, TargetsRead DEF ReadsGroup, world, stored

LEMMA ReadsListedStep ==
    ASSUME IInv, NEW j \in Jobs, ReadsListed(j)
    PROVE  JobInv'
  <1> DEFINE old == bulk[j[1]]
             m == Head(old.ids)
             ts == IF Reachable(m) THEN Append(old.targets, TargetAt(m)) ELSE old.targets
             b == [old EXCEPT !.ids = Tail(@), !.targets = IF Reachable(m) THEN Append(@, TargetAt(m)) ELSE @]
             x == IF Tail(old.ids) = <<>> THEN "gate" ELSE "list"
  <1>0. JobTypeOK /\ StoreTypeOK /\ j[1] \in Reqs /\ JobFits(j) /\ pc[j] = "list"
    BY Known, JobFacts DEF ReadsListed
  <1>1. old \in BulkType /\ old.ids \in Seq(Machines) /\ old.ids # <<>> /\ old.targets \in Seq(Targets)
    BY <1>0 DEF JobTypeOK, BulkType, JobFits
  <1>2. m \in Machines /\ Tail(old.ids) \in Seq(Machines)
    BY <1>1
  <1>3. ts \in Seq(Targets)
    <2>1. Reachable(m) => TargetAt(m) \in Targets
      BY <1>0, <1>2 DEF TargetAt, Targets, Reachable, StoreTypeOK, Rows
    <2> QED
      BY <1>1, <2>1
  <1>4. b \in BulkType /\ b.ids = Tail(old.ids)
    BY <1>1, <1>2, <1>3 DEF BulkType
  <1>5. bulk' = [bulk EXCEPT ![j[1]] = b]
    BY <1>0 DEF ReadsListed, JobTypeOK
  <1>6. pc' = [pc EXCEPT ![j] = x]
    BY DEF ReadsListed, Goto
  <1>7. x \in {"list", "gate"} /\ (x = "list" => b.ids # <<>>)
    BY <1>4
  <1> HIDE DEF b, x
  <1>8. Writes(j, x, got[j], b, result[j])
    BY <1>5, <1>6, Stays DEF ReadsListed, world, stored, Writes
  <1> QED
    BY <1>0, <1>4, <1>7, <1>8, TargetsRead DEF ReadsListed, world, stored

LEMMA FansOutStep ==
    ASSUME IInv, NEW j \in Jobs, FansOut(j)
    PROVE  JobInv'
  <1> DEFINE ts == bulk[j[1]].targets
  <1>0. /\ JobTypeOK /\ JobFits(j) /\ RowFits(j) /\ TierFits(j) /\ j[1] \in Reqs
        /\ pc[j] = "gate" /\ BulkAdmits(j)
    BY Known, JobFacts DEF FansOut
  <1>1. kind[j] = "bulk" /\ ~Worker(j) /\ ask[j].action \in Runnable /\ got[j].tier \in Tiers
    BY <1>0 DEF JobFits, Bulking
  <1>2. ts \in Seq(Targets)
    BY <1>0 DEF JobTypeOK
  <1>3. \A w \in Workers(j) : w[1] = j[1] /\ w[2] \in 1..Len(ts)
    BY DEF Workers
  <1>4. \A w \in Workers(j) : w \in Jobs => /\ Worker(w) /\ w # j /\ Boss(w) = j
                                           /\ pc[w] = "new" /\ w \notin ran /\ runs[w] = None
    <2> SUFFICES ASSUME NEW w \in Jobs, w \in Workers(j)
                 PROVE  Worker(w) /\ w # j /\ Boss(w) = j /\ pc[w] = "new" /\ w \notin ran /\ runs[w] = None
      OBVIOUS
    <2>1. Worker(w)
      BY <1>2, <1>3 DEF Worker
    <2>2. Boss(w) = j
      BY <1>1, <1>3, JobFacts DEF Boss
    <2>3. pc[w] = "new"
      BY <1>0, <2>1, <2>2, Known DEF WorkerFits
    <2>4. RowFits(w)
      BY Known
    <2> QED
      BY <1>1, <2>1, <2>2, <2>3, <2>4 DEF RowFits
  <1>5. /\ pc'[j] = "fan" /\ kind'[j] = kind[j] /\ ask'[j] = ask[j]
        /\ \A w \in Jobs : w \in Workers(j) =>
              /\ pc'[w] = "wait" /\ kind'[w] = "part"
              /\ ask'[w] = [machine |-> ts[w[2]].id, action |-> ask[j].action,
                            confirm |-> {"click", ts[w[2]].name}]
        /\ \A w \in Jobs \ {j} : w \notin Workers(j) => pc'[w] = pc[w] /\ kind'[w] = kind[w] /\ ask'[w] = ask[w]
    <2>1. j \notin Workers(j)
      BY <1>4
    <2> QED
      BY <1>4, <2>1 DEF FansOut
  <1>6. UNCHANGED <<world, got, bulk, sem, ran, result>>
    BY DEF FansOut
  <1>7. \A w \in Workers(j) : /\ ts[w[2]].id \in Machines /\ ts[w[2]].name \in Names
    <2> SUFFICES ASSUME NEW w \in Workers(j) PROVE ts[w[2]].id \in Machines /\ ts[w[2]].name \in Names
      OBVIOUS
    <2>1. ts[w[2]] \in Targets
      BY <1>2, <1>3
    <2> QED
      BY <2>1 DEF Targets
  <1>8. JobTypeOK'
    <2>1. pc' \in [Jobs -> Places]
      BY <1>0 DEF FansOut, JobTypeOK, Places
    <2>2. kind' \in [Jobs -> {"none", "run", "stream", "terminal", "power", "bulk", "part"}]
      BY <1>0 DEF FansOut, JobTypeOK
    <2>3. \A w \in Jobs : ask'[w] \in AskType
      <3> SUFFICES ASSUME NEW w \in Jobs PROVE ask'[w] \in AskType
        OBVIOUS
      <3>1. CASE w \in Workers(j)
        <4> DEFINE name == ts[w[2]].name
        <4>1. ask'[w] = [machine |-> ts[w[2]].id, action |-> ask[j].action, confirm |-> {"click", name}]
          BY <3>1, <1>5
        <4>2. ts[w[2]].id \in Machines /\ name \in Names /\ ask[j].action \in Actions
          BY <3>1, <1>1, <1>7 DEF Runnable, Actions
        <4>3. {"click", name} \in SUBSET ({"click"} \cup Names)
          BY <4>2
        <4> HIDE DEF name
        <4> QED
          BY <4>1, <4>2, <4>3 DEF AskType
      <3>2. CASE w \notin Workers(j)
        BY <3>2, <1>0, <1>5 DEF AskType, JobTypeOK
      <3> QED
        BY <3>1, <3>2
    <2>4. ask' \in [Jobs -> AskType]
      BY <2>3 DEF FansOut
    <2> QED
      BY <1>0, <1>6, <2>1, <2>2, <2>4 DEF JobTypeOK, AskType, Places, Jobs, Reqs, Targets, Rows, Tiers, Actions
  <1>9. \A k \in Jobs : JobFits(k)' /\ RowFits(k)' /\ TierFits(k)'
    <2> SUFFICES ASSUME NEW k \in Jobs PROVE JobFits(k)' /\ RowFits(k)' /\ TierFits(k)'
      OBVIOUS
    <2>0. /\ JobFits(k) /\ RowFits(k) /\ TierFits(k)
          /\ got' = got /\ bulk' = bulk /\ ran' = ran /\ result' = result /\ runs' = runs
      BY <1>6, Known DEF world, stored
    <2>1. CASE k \in Workers(j)
      <3>1. pc'[k] = "wait" /\ kind'[k] = "part" /\ ask'[k].machine \in Machines
            /\ ask'[k].action \in Runnable /\ Worker(k)
        <4>1. /\ pc'[k] = "wait" /\ kind'[k] = "part"
              /\ ask'[k] = [machine |-> ts[k[2]].id, action |-> ask[j].action,
                            confirm |-> {"click", ts[k[2]].name}]
          BY <2>1, <1>5
        <4>2. ts[k[2]].id \in Machines /\ Worker(k)
          BY <2>1, <1>4, <1>7
        <4> QED
          BY <4>1, <4>2, <1>1
      <3>2. JobFits(k)'
        BY <3>1 DEF JobFits, Worker, Held, Prepared, Bulking, Runnable
      <3>3. RowFits(k)' /\ TierFits(k)'
        BY <3>1, <2>0, <2>1, <1>4 DEF RowFits, TierFits, Prepared, Bulking
      <3> QED
        BY <3>2, <3>3
    <2>2. CASE k = j
      <3>1. JobFits(k)'
        BY <2>0, <2>2, <1>1, <1>5 DEF JobFits, Worker, Held, Prepared, Bulking, Runnable
      <3>2. RowFits(k)'
        BY <2>0, <2>2, <1>0, <1>5 DEF RowFits
      <3>3. TierFits(k)'
        BY <2>0, <2>2, <1>0, <1>5 DEF TierFits, BulkAdmits, Prepared, Bulking
      <3> QED
        BY <3>1, <3>2, <3>3
    <2>3. CASE k # j /\ k \notin Workers(j)
      <3>1. pc'[k] = pc[k] /\ kind'[k] = kind[k] /\ ask'[k] = ask[k]
        BY <2>3, <1>5
      <3>2. JobFits(k)'
        BY <2>0, <3>1 DEF JobFits, Worker, Held, Prepared, Bulking, Runnable, Rows, Tiers, Actions
      <3>3. RowFits(k)'
        BY <2>0, <3>1 DEF RowFits
      <3>4. TierFits(k)'
        BY <2>0, <3>1 DEF TierFits, BulkAdmits, Gate, Prepared, Bulking
      <3> QED
        BY <3>2, <3>3, <3>4
    <2> QED
      BY <2>1, <2>2, <2>3
  <1>10. \A k \in Jobs : WorkerFits(k)'
    <2> SUFFICES ASSUME NEW k \in Jobs, Worker(k), pc'[k] # "new" PROVE WorkerFits(k)'
      BY DEF WorkerFits, Worker
    <2>0. k # j /\ Boss(k) \in Jobs /\ WorkerFits(k) /\ bulk' = bulk
      BY <1>1, <1>6, JobFacts, Known
    <2>1. CASE k \in Workers(j)
      <3>1. Boss(k) = j /\ k[1] = j[1]
        BY <2>1, <1>3, <1>4
      <3>2. ask'[k] = [machine |-> ts[k[2]].id, action |-> ask[j].action,
                      confirm |-> {"click", ts[k[2]].name}]
        BY <2>1, <1>5
      <3>3. pc'[Boss(k)] = "fan" /\ ask'[Boss(k)] = ask[j]
        BY <3>1, <1>5
      <3>4. k[2] \in 1..Len(bulk'[k[1]].targets)
        BY <2>0, <2>1, <3>1, <1>3
      <3>5. ask'[k].action = ask'[Boss(k)].action
            /\ ask'[k].confirm = {"click", bulk'[k[1]].targets[k[2]].name}
        BY <2>0, <3>1, <3>2, <3>3
      <3> QED
        BY <3>3, <3>4, <3>5 DEF WorkerFits, Boss
    <2>2. CASE k \notin Workers(j)
      <3>1. pc'[k] = pc[k] /\ ask'[k] = ask[k]
        BY <2>0, <2>2, <1>5
      <3>2. Boss(k) # j
        BY <3>1, <2>0, <1>0 DEF WorkerFits
      <3>3. Boss(k) \notin Workers(j)
        BY <2>0, <1>4, JobFacts
      <3>4. pc'[Boss(k)] = pc[Boss(k)] /\ ask'[Boss(k)] = ask[Boss(k)]
        BY <3>2, <3>3, <2>0, <1>5
      <3> QED
        BY <3>1, <3>4, <2>0 DEF WorkerFits, Boss, Worker
    <2> QED
      BY <2>1, <2>2
  <1>11. \A r : Holders(r)' = Holders(r)
    <2>1. \A k \in Jobs : Worker(k) => (pc'[k] \in Held <=> pc[k] \in Held)
      <3> SUFFICES ASSUME NEW k \in Jobs, Worker(k) PROVE pc'[k] \in Held <=> pc[k] \in Held
        OBVIOUS
      <3>1. CASE k \in Workers(j)
        BY <3>1, <1>4, <1>5 DEF Held
      <3>2. CASE k \notin Workers(j)
        BY <3>2, <1>1, <1>5
      <3> QED
        BY <3>1, <3>2
    <2> QED
      BY <2>1 DEF Holders, Jobs, Reqs, Worker, Held
  <1>12. SemFits'
    BY <1>11, <1>6, Known DEF SemFits, Reqs
  <1>13. Drained'
    <2>1. life # "closing"
      BY <1>0, <1>1, Known DEF Drained, InFlight, Hijacked
    <2> QED
      BY <2>1, <1>6 DEF Drained, world
  <1> QED
    BY <1>8, <1>9, <1>10, <1>12, <1>13 DEF JobInv, Fits, Jobs, Reqs

LEMMA AcquiresStep ==
    ASSUME IInv, NEW j \in Jobs, Acquires(j)
    PROVE  JobInv'
  <1>0. /\ JobTypeOK /\ JobFits(j) /\ RowFits(j) /\ WorkerFits(j) /\ TierFits(j) /\ SemFits
        /\ j[1] \in Reqs /\ pc[j] = "wait" /\ Boss(j) \in Jobs
    BY Known, JobFacts DEF Acquires
  <1>1. kind[j] = "part" /\ Worker(j) /\ ask[j].action \in Runnable /\ ask[j].machine \in Machines
    BY <1>0 DEF JobFits
  <1>2. UNCHANGED <<world, kind, ask, got, bulk, ran, result>>
    BY DEF Acquires
  <1>3. pc'[j] = "lookup" /\ \A k \in Jobs \ {j} : pc'[k] = pc[k]
    BY <1>0 DEF Acquires, Goto, JobTypeOK
  <1>4. Frame(j)
    BY <1>2, <1>3 DEF Frame, world, stored
  <1>5. JobFits(j)'
    BY <1>1, <1>2, <1>3 DEF JobFits, Worker, Held, Prepared, Bulking, Runnable
  <1>6. RowFits(j)' /\ TierFits(j)'
    BY <1>0, <1>2, <1>3 DEF RowFits, TierFits, Prepared, Bulking, world, stored
  <1>7. WorkerFits(j)'
    <2>1. Boss(j) # j
      BY <1>1, JobFacts
    <2>2. pc'[Boss(j)] = pc[Boss(j)]
      BY <1>0, <1>3, <2>1
    <2> QED
      BY <2>2, <1>0, <1>1, <1>2 DEF WorkerFits, Boss, Worker
  <1>8. Fits'
    BY <1>0, <1>4, <1>5, <1>6, <1>7, OthersFit, OtherWorkersFit DEF Fits, Jobs, Reqs
  <1>9. SemFits' /\ sem' \in [Reqs -> 0..Concurrency]
    <2>1. sem' = [sem EXCEPT ![j[1]] = @ + 1] /\ sem[j[1]] < Concurrency
      BY DEF Acquires
    <2>2. j \notin Holders(j[1])
      BY <1>0 DEF Holders, Held
    <2>3. Holders(j[1])' = Holders(j[1]) \cup {j}
      BY <1>1, <1>3 DEF Holders, Jobs, Reqs, Worker, Held
    <2>4. \A r : r # j[1] => Holders(r)' = Holders(r)
      BY <1>3 DEF Holders, Jobs, Reqs, Worker, Held
    <2>5. Cardinality(Holders(j[1])') = Cardinality(Holders(j[1])) + 1
      BY <2>2, <2>3, HoldersFinite, FS_AddElement
    <2>6. sem' \in [Reqs -> 0..Concurrency]
      BY <2>1, <1>0, EngineAssumption DEF JobTypeOK
    <2>7. \A r \in Reqs : sem'[r] = Cardinality(Holders(r)')
      BY <2>1, <2>4, <2>5, <1>0 DEF JobTypeOK, SemFits
    <2> QED
      BY <2>6, <2>7 DEF SemFits, Reqs
  <1>10. Drained'
    <2>1. life # "closing"
      BY <1>0, <1>1, Known DEF Drained, InFlight, Hijacked
    <2> QED
      BY <2>1, <1>2 DEF Drained, world
  <1>11. JobTypeOK'
    <2>1. pc' \in [Jobs -> Places]
      BY <1>0 DEF Acquires, Goto, JobTypeOK, Places
    <2> QED
      BY <1>0, <1>2, <1>9, <2>1 DEF JobTypeOK, Places, Jobs, Reqs, Targets, Rows, Tiers, Actions
  <1> QED
    BY <1>8, <1>9, <1>10, <1>11 DEF JobInv

-----------------------------------------------------------------------------
(* The tables.                                                              *)

LEMMA JobKeepsStore ==
    ASSUME IInv, NEW j \in Jobs, Start(j) \/ JobStep(j) \/ SessionEnds(j)
    PROVE  StoreTypeOK'
  <1>0. StoreTypeOK
    BY Known
  <1>1. CASE Logs(j)
    <2>1. /\ runs' = [runs EXCEPT ![j] = AuditRow(j)]
          /\ UNCHANGED <<machine, facts, custom, edits, life>>
          /\ machine[ask[j].machine] # None
      BY <1>1 DEF Logs
    <2>2. JobFits(j) /\ pc[j] = "log"
      BY <1>1, Known DEF Logs
    <2>3. AuditRow(j) \in AuditRows /\ AuditRow(j).machine = ask[j].machine
      BY <2>2 DEF AuditRow, AuditRows, JobFits, Held, Prepared, Rows
    <2>4. runs' \in [Jobs -> AuditRows \cup {None}]
      BY <1>0, <2>1, <2>3 DEF StoreTypeOK
    <2>5. \A k \in Jobs : runs'[k] # None /\ runs'[k].machine # None => machine[runs'[k].machine] # None
      BY <1>0, <2>1, <2>3 DEF StoreTypeOK
    <2> QED
      BY <1>0, <2>1, <2>4, <2>5 DEF StoreTypeOK, Jobs, Reqs, AuditRows, Actions, Rows, Tiers
  <1>2. CASE ~Logs(j)
    <2>1. UNCHANGED world
      <3>1. CASE Start(j)
        BY <3>1 DEF Start, StartRun, StartStream, StartTerminal, StartPower, StartBulk, Comes
      <3>2. CASE SessionEnds(j)
        BY <3>2 DEF SessionEnds
      <3>3. CASE JobStep(j)
        BY <3>3, <1>2 DEF JobStep, Looks, LooksInVain, ReadsMachine, MachineRefused, ReadsFacts,
           NotAvailable, Upgrades, Reaches, ReachesNot, Ends, LogFails, ReadsGroup, ReadsListed,
           FansOut, BulkRefused, Acquires, BulkEnds
      <3> QED
        BY <3>1, <3>2, <3>3
    <2> QED
      BY <1>0, <2>1 DEF world, stored, StoreTypeOK, Jobs, Reqs, AuditRows, Actions, Rows, Tiers
  <1> QED
    BY <1>1, <1>2

LEMMA JobSteps ==
    ASSUME IInv, NEW j \in Jobs, Start(j) \/ JobStep(j) \/ SessionEnds(j)
    PROVE  IInv'
  <1>1. JobInv'
    <2>1. CASE Start(j)
      BY <2>1, StartStep
    <2>2. CASE SessionEnds(j)
      BY <2>2, EndedStep
    <2>3. CASE JobStep(j)
      BY <2>3, LooksStep, ReadsMachineStep, ReadsFactsStep, UpgradesStep, EndsStep, ReachesStep,
         ReachesNotStep, LogsStep, EndedStep, ReadsGroupStep, ReadsListedStep, FansOutStep,
         AcquiresStep DEF JobStep
    <2> QED
      BY <2>1, <2>2, <2>3
  <1>2. StoreTypeOK'
    BY JobKeepsStore
  <1> QED
    BY <1>1, <1>2 DEF JobInv, IInv, TypeOK, Fits

\* An edit changes no row of the log but for the ID of a deleted machine.
LEMMA EditSteps ==
    ASSUME IInv, Edit
    PROVE  IInv'
  <1>0. TypeOK /\ StoreTypeOK /\ JobTypeOK
    BY DEF IInv, TypeOK
  <1>1. UNCHANGED <<life, pc, kind, ask, got, bulk, sem, ran, result>> /\ edits' \in 0..MaxEdits
    BY <1>0, EngineAssumption DEF Edit, Edits, Deletes, Learns, Forgets, Updates, Removes, Creates, StoreTypeOK
  <1>2. StoreTypeOK' /\ \A j \in Jobs : runs'[j] = None <=> runs[j] = None
    <2>1. CASE \E m \in Machines : Deletes(m)
      <3> PICK m \in Machines : Deletes(m)
        BY <2>1
      <3>1. /\ machine' = [machine EXCEPT ![m] = None] /\ facts' = facts \ {m} /\ custom' = custom
            /\ runs' = [j \in Jobs |-> IF runs[j] # None /\ runs[j].machine = m
                                       THEN [runs[j] EXCEPT !.machine = None] ELSE runs[j]]
        BY DEF Deletes
      <3>2. \A j \in Jobs : runs[j] # None /\ runs[j].machine = m =>
                /\ runs'[j] \in AuditRows /\ runs'[j].machine = None
                /\ runs'[j] # None
        BY <1>0, <3>1, EngineAssumption DEF StoreTypeOK, AuditRows
      <3>3. \A j \in Jobs : ~(runs[j] # None /\ runs[j].machine = m) => runs'[j] = runs[j]
        BY <3>1
      <3>4. runs' \in [Jobs -> AuditRows \cup {None}]
        BY <1>0, <3>1, <3>2, <3>3 DEF StoreTypeOK
      <3>5. \A j \in Jobs : runs'[j] # None /\ runs'[j].machine # None => machine'[runs'[j].machine] # None
        <4> SUFFICES ASSUME NEW j \in Jobs, runs'[j] # None, runs'[j].machine # None
                     PROVE  machine'[runs'[j].machine] # None
          OBVIOUS
        <4>1. runs'[j] = runs[j] /\ runs[j].machine # m
          BY <3>2, <3>3
        <4> QED
          BY <4>1, <1>0, <3>1 DEF StoreTypeOK, AuditRows
      <3>6. machine' \in [Machines -> Rows \cup {None}]
            /\ facts' \in SUBSET {n \in Machines : machine'[n] # None}
        BY <1>0, <3>1 DEF StoreTypeOK
      <3>7. StoreTypeOK'
        BY <1>0, <1>1, <3>1, <3>4, <3>5, <3>6 DEF StoreTypeOK, Jobs, Reqs, AuditRows, Actions, Rows, Tiers
      <3> QED
        BY <3>2, <3>3, <3>7
    <2>2. CASE \E m \in Machines : Learns(m) \/ Forgets(m)
      <3>1. machine' = machine /\ custom' = custom /\ runs' = runs
            /\ facts' \in SUBSET {m \in Machines : machine[m] # None}
        BY <1>0, <2>2 DEF Learns, Forgets, StoreTypeOK
      <3> QED
        BY <1>0, <1>1, <3>1 DEF StoreTypeOK, Jobs, Reqs, AuditRows, Actions, Rows, Tiers
    <2>3. CASE \E m \in Machines : \E row \in Forms : Updates(m, row)
      <3> PICK m \in Machines, row \in Forms : Updates(m, row)
        BY <2>3
      <3>1. /\ machine[m] # None /\ machine' = [machine EXCEPT ![m] = row]
            /\ row \in Rows /\ row # None
            /\ facts' = facts /\ custom' = custom /\ runs' = runs
        BY EngineAssumption DEF Updates
      <3>2. machine' \in [Machines -> Rows \cup {None}]
            /\ \A n \in Machines : machine'[n] # None <=> machine[n] # None
        BY <1>0, <3>1 DEF StoreTypeOK
      <3>3. facts' \in SUBSET {n \in Machines : machine'[n] # None}
        BY <1>0, <3>1, <3>2 DEF StoreTypeOK
      <3>4. \A j \in Jobs : runs'[j] # None /\ runs'[j].machine # None => machine'[runs'[j].machine] # None
        BY <1>0, <3>1, <3>2 DEF StoreTypeOK, AuditRows
      <3> QED
        BY <1>0, <1>1, <3>1, <3>2, <3>3, <3>4 DEF StoreTypeOK, Jobs, Reqs, AuditRows, Actions, Rows, Tiers
    <2>4. CASE \E a \in Custom : Removes(a) \/ \E t \in Tiers : Creates(a, t)
      <3>1. machine' = machine /\ facts' = facts /\ runs' = runs
            /\ custom' \in [Custom -> Tiers \cup {None}]
        BY <1>0, <2>4 DEF Removes, Creates, StoreTypeOK
      <3> QED
        BY <1>0, <1>1, <3>1 DEF StoreTypeOK, Jobs, Reqs, AuditRows, Actions, Rows, Tiers
    <2> QED
      BY <2>1, <2>2, <2>3, <2>4 DEF Edit
  <1>3. JobTypeOK'
    BY <1>0, <1>1 DEF JobTypeOK, Jobs, Reqs, Targets, Rows, Tiers, Actions
  <1>4. \A j \in Jobs : JobFits(j)' /\ RowFits(j)' /\ WorkerFits(j)' /\ TierFits(j)'
    <2> SUFFICES ASSUME NEW j \in Jobs PROVE JobFits(j)' /\ RowFits(j)' /\ WorkerFits(j)' /\ TierFits(j)'
      OBVIOUS
    <2>1. JobFits(j) /\ RowFits(j) /\ WorkerFits(j) /\ TierFits(j)
      BY Known
    <2>2. JobFits(j)'
      BY <1>1, <2>1 DEF JobFits, Worker, Held, Prepared, Bulking, Runnable, Rows, Tiers, Actions
    <2>3. RowFits(j)'
      BY <1>1, <1>2, <2>1 DEF RowFits
    <2>4. WorkerFits(j)'
      BY <1>1, <2>1 DEF WorkerFits, Boss, Worker
    <2>5. TierFits(j)'
      BY <1>1, <2>1 DEF TierFits, BulkAdmits, Gate, Prepared, Bulking
    <2> QED
      BY <2>2, <2>3, <2>4, <2>5
  <1>5. SemFits'
    BY <1>1 DEF IInv, SemFits, Holders, Jobs, Reqs, Worker, Held
  <1>6. Drained'
    BY <1>1 DEF IInv, Drained, InFlight, Hijacked, Jobs, Reqs
  <1> QED
    BY <1>2, <1>3, <1>4, <1>5, <1>6 DEF IInv, TypeOK, Jobs, Reqs

\* A signal, the end of the wait, the end of the process.
LEMMA LifecycleSteps ==
    ASSUME IInv, Lifecycle
    PROVE  IInv'
  <1>0. TypeOK /\ StoreTypeOK /\ JobTypeOK
    BY DEF IInv, TypeOK
  <1>1. CASE Signal \/ Drains \/ GraceExpires
    <2>1. /\ UNCHANGED <<stored, edits, pc, kind, ask, got, bulk, sem, ran, result>>
          /\ life' \in {"draining", "closing", "cut"}
          /\ life' = "closing" => \A j \in Jobs : ~InHandler(j)
      BY <1>1 DEF Signal, Drains, GraceExpires
    <2>2. StoreTypeOK'
      BY <1>0, <2>1 DEF stored, StoreTypeOK, Jobs, Reqs, AuditRows, Actions, Rows, Tiers
    <2>3. JobTypeOK'
      BY <1>0, <2>1 DEF JobTypeOK, Jobs, Reqs, Targets, Rows, Tiers, Actions
    <2>4. \A j \in Jobs : JobFits(j)' /\ RowFits(j)' /\ WorkerFits(j)' /\ TierFits(j)'
      <3> SUFFICES ASSUME NEW j \in Jobs
                   PROVE  JobFits(j)' /\ RowFits(j)' /\ WorkerFits(j)' /\ TierFits(j)'
        OBVIOUS
      <3>1. JobFits(j) /\ RowFits(j) /\ WorkerFits(j) /\ TierFits(j)
        BY Known
      <3>2. JobFits(j)'
        BY <2>1, <3>1 DEF JobFits, Worker, Held, Prepared, Bulking, Runnable, Rows, Tiers, Actions
      <3>3. RowFits(j)'
        BY <2>1, <3>1 DEF RowFits, stored
      <3>4. WorkerFits(j)'
        BY <2>1, <3>1 DEF WorkerFits, Boss, Worker
      <3>5. TierFits(j)'
        BY <2>1, <3>1 DEF TierFits, BulkAdmits, Gate, Prepared, Bulking
      <3> QED
        BY <3>2, <3>3, <3>4, <3>5
    <2>5. SemFits'
      BY <2>1 DEF IInv, SemFits, Holders, Jobs, Reqs, Worker, Held
    <2>6. Drained'
      BY <2>1 DEF Drained, InHandler, InFlight, Hijacked, Jobs, Reqs
    <2> QED
      BY <2>2, <2>3, <2>4, <2>5, <2>6 DEF IInv, TypeOK, Jobs, Reqs
  <1>2. CASE Exits \/ Crash
    <2>0. Restarts
      BY <1>2 DEF Exits, Crash
    <2>1. /\ life' = "up" /\ UNCHANGED <<stored, edits, kind, ran>>
          /\ \A j \in Jobs : /\ pc'[j] = IF pc[j] = "new" THEN "new" ELSE "done"
                             /\ InFlight(j) => result'[j] = "lost"
                             /\ ~InFlight(j) => result'[j] = result[j]
      BY <1>0, <2>0 DEF Restarts, InFlight, JobTypeOK
    <2>2. StoreTypeOK'
      BY <1>0, <2>1 DEF stored, StoreTypeOK, Jobs, Reqs, AuditRows, Actions, Rows, Tiers
    <2>3. JobTypeOK'
      <3>1. pc' \in [Jobs -> Places]
        BY <1>0, <2>0 DEF Restarts, JobTypeOK, Places
      <3>2. result' \in [Jobs -> {"none", "ok", "failed", "refused", "unlogged", "lost"}]
        BY <1>0, <2>0 DEF Restarts, JobTypeOK
      <3>3. ask' \in [Jobs -> AskType] /\ got' \in [Jobs -> [tier : Tiers \cup {None}, row : Rows \cup {None}]]
        BY <2>0 DEF Restarts, NoAsk, NoGot, AskType
      <3>4. bulk' \in [Reqs -> [ids : Seq(Machines), targets : Seq(Targets), count : Nat]]
        BY <2>0 DEF Restarts, NoBulk
      <3>5. sem' \in [Reqs -> 0..Concurrency]
        BY <2>0, EngineAssumption DEF Restarts
      <3> QED
        BY <1>0, <2>1, <3>1, <3>2, <3>3, <3>4, <3>5
           DEF JobTypeOK, AskType, Places, Jobs, Reqs, Targets, Rows, Tiers, Actions
    <2>4. \A j \in Jobs : JobFits(j)' /\ RowFits(j)' /\ WorkerFits(j)' /\ TierFits(j)'
      <3> SUFFICES ASSUME NEW j \in Jobs
                   PROVE  JobFits(j)' /\ RowFits(j)' /\ WorkerFits(j)' /\ TierFits(j)'
        OBVIOUS
      <3>1. JobFits(j) /\ RowFits(j) /\ WorkerFits(j) /\ Boss(j) \in Jobs
        BY Known, JobFacts
      <3>2. JobFits(j)'
        BY <2>1, <3>1 DEF JobFits, Worker, Held, Prepared, Bulking
      <3>3. RowFits(j)'
        BY <2>1, <3>1 DEF RowFits, stored, InFlight
      <3>4. WorkerFits(j)'
        BY <2>1, <3>1 DEF WorkerFits, Boss, Worker
      <3>5. TierFits(j)'
        BY <2>1 DEF TierFits, Prepared, Bulking
      <3> QED
        BY <3>2, <3>3, <3>4, <3>5
    <2>5. SemFits'
      <3>1. \A r : Holders(r)' = {}
        BY <2>1 DEF Holders, Held, Jobs, Reqs
      <3>2. \A r \in Reqs : sem'[r] = 0
        BY <2>0 DEF Restarts
      <3> QED
        BY <3>1, <3>2, FS_EmptySet DEF SemFits, Reqs
    <2>6. Drained'
      BY <2>1 DEF Drained
    <2> QED
      BY <2>2, <2>3, <2>4, <2>5, <2>6 DEF IInv, TypeOK, Jobs, Reqs
  <1> QED
    BY <1>1, <1>2 DEF Lifecycle

LEMMA Stutter == IInv /\ UNCHANGED vars => IInv'
  <1> SUFFICES ASSUME IInv, UNCHANGED vars PROVE IInv'
    OBVIOUS
  <1>1. StoreTypeOK' /\ JobTypeOK'
    BY DEF IInv, TypeOK, vars, world, stored, StoreTypeOK, JobTypeOK, Jobs, Reqs, AuditRows, Actions, Rows, Tiers, Targets
  <1>2. \A j \in Jobs : JobFits(j)' /\ RowFits(j)' /\ WorkerFits(j)' /\ TierFits(j)'
    <2> SUFFICES ASSUME NEW j \in Jobs
                 PROVE  JobFits(j)' /\ RowFits(j)' /\ WorkerFits(j)' /\ TierFits(j)'
      OBVIOUS
    <2>1. JobFits(j) /\ RowFits(j) /\ WorkerFits(j) /\ TierFits(j)
      BY Known
    <2> QED
      BY <2>1 DEF vars, world, stored, JobFits, RowFits, WorkerFits, TierFits, Worker, Boss, Gate, BulkAdmits,
         Held, Prepared, Bulking, Runnable, Rows, Tiers, Actions
  <1>3. SemFits' /\ Drained'
    BY DEF vars, world, IInv, SemFits, Drained, Holders, InFlight, Hijacked, Jobs, Reqs, Worker, Held
  <1> QED
    BY <1>1, <1>2, <1>3 DEF IInv, TypeOK, Jobs, Reqs

LEMMA Inductive == IInv /\ [Next]_vars => IInv'
  BY JobSteps, EditSteps, LifecycleSteps, Stutter DEF Next

LEMMA Invariance == Spec => []IInv
  BY InitInv, Inductive, PTL DEF Spec

-----------------------------------------------------------------------------
(* The theorems.                                                            *)

\* Every variable has its type: in particular no bulk request ever has more
\* than bulkConcurrency workers past its semaphore, and no audit row names a
\* machine that is no longer there.
THEOREM TypeCorrect == Spec => []TypeOK
  <1>1. IInv => TypeOK
    BY DEF IInv
  <1> QED
    BY <1>1, Invariance, PTL

\* A command that reached its host, and a power request that reached its
\* provider, has its audit row once it is over, or its caller was told that it
\* has none, or the process died.
THEOREM CommandsAreRecorded == Spec => []RanIsRecorded
  <1>1. IInv => RanIsRecorded
    <2> SUFFICES ASSUME IInv, NEW j \in ran
                 PROVE  runs[j] # None \/ pc[j] \in {"running", "log"} \/ result[j] \in {"unlogged", "lost"}
      BY DEF RanIsRecorded
    <2>1. j \in Jobs
      BY DEF IInv, TypeOK, JobTypeOK
    <2>2. RowFits(j)
      BY <2>1, Known
    <2> QED
      BY <2>2 DEF RowFits
  <1> QED
    BY <1>1, Invariance, PTL

\* What a bulk worker runs on a host is what the user confirmed for the bulk
\* request, at the danger he was shown, and a disruptive command runs only on
\* a host that still bears the name he was shown.
THEOREM BulkIsConfirmed == Spec => []WorkersRunAsConfirmed
  <1>1. IInv => WorkersRunAsConfirmed
    <2> SUFFICES ASSUME IInv, NEW w \in Jobs, kind[w] = "part", pc[w] \in {"exec", "running", "log"}
                 PROVE  /\ \/ ask[w].action \in Custom
                           \/ /\ got[w].tier = got[Boss(w)].tier
                              /\ IF got[Boss(w)].tier = 0
                                 THEN "click" \in ask[Boss(w)].confirm
                                 ELSE bulk[w[1]].count = Len(bulk[w[1]].targets)
                        /\ got[w].tier = 2 => got[w].row.name = bulk[w[1]].targets[w[2]].name
      BY DEF WorkersRunAsConfirmed
    <2>0. /\ JobTypeOK /\ JobFits(w) /\ WorkerFits(w) /\ TierFits(w)
          /\ Boss(w) \in Jobs /\ Boss(w)[1] = w[1] /\ w[1] \in Reqs
      BY Known, JobFacts
    <2>1. Worker(w) /\ got[w].row \in Rows /\ got[w].tier \in Tiers
      BY <2>0 DEF JobFits, Prepared
    <2>2. pc[Boss(w)] = "fan"
      BY <2>0, <2>1 DEF WorkerFits
    <2>3. /\ w[2] \in 1..Len(bulk[w[1]].targets) /\ ask[w].action = ask[Boss(w)].action
          /\ ask[w].confirm = {"click", bulk[w[1]].targets[w[2]].name}
      BY <2>0, <2>1 DEF WorkerFits
    <2>4. JobFits(Boss(w)) /\ TierFits(Boss(w))
      BY <2>0, Known
    <2>5. BulkAdmits(Boss(w)) /\ ask[w].action \in Runnable
      BY <2>2, <2>3, <2>4 DEF TierFits, JobFits, Bulking
    <2>6. ask[w].action \in BuiltIns =>
            got[w].tier = Tier[ask[w].action] /\ got[Boss(w)].tier = Tier[ask[w].action]
      BY <2>0, <2>2, <2>3, <2>4 DEF TierFits, Bulking, Prepared
    <2>7. got[w].tier = 2 => got[w].row.name = bulk[w[1]].targets[w[2]].name
      <3> SUFFICES ASSUME got[w].tier = 2 PROVE got[w].row.name = bulk[w[1]].targets[w[2]].name
        OBVIOUS
      <3>1. got[w].row.name \in ask[w].confirm
        BY <2>0 DEF TierFits, Prepared, Gate
      <3>2. got[w].row.name # "click"
        BY <2>1, EngineAssumption DEF Rows
      <3> QED
        BY <3>1, <3>2, <2>3
    <2> QED
      BY <2>0, <2>5, <2>6, <2>7 DEF BulkAdmits, Runnable
  <1> QED
    BY <1>1, Invariance, PTL

\* No step alters or erases an audit row, but for the ID of a machine that is
\* deleted.
THEOREM RecordsSurvive == Spec => RecordsStay
  <1> DEFINE Stay == \A j \in Jobs : runs[j] # None =>
                        \/ runs'[j] = runs[j]
                        \/ /\ runs'[j] = [runs[j] EXCEPT !.machine = None]
                           /\ machine'[runs[j].machine] = None
  <1>1. IInv /\ [Next]_vars => Stay
    <2> SUFFICES ASSUME IInv, [Next]_vars, NEW j \in Jobs, runs[j] # None
                 PROVE  \/ runs'[j] = runs[j]
                        \/ /\ runs'[j] = [runs[j] EXCEPT !.machine = None]
                           /\ machine'[runs[j].machine] = None
      OBVIOUS
    <2>0. StoreTypeOK /\ RowFits(j)
      BY Known
    <2>1. CASE runs' = runs
      BY <2>1
    <2>2. CASE \E k \in Jobs : Logs(k)
      <3> PICK k \in Jobs : Logs(k)
        BY <2>2
      <3>1. pc[k] = "log" /\ runs' = [runs EXCEPT ![k] = AuditRow(k)]
        BY DEF Logs
      <3>2. k # j
        BY <2>0, <3>1 DEF RowFits
      <3> QED
        BY <2>0, <3>1, <3>2 DEF StoreTypeOK
    <2>3. CASE \E m \in Machines : Deletes(m)
      <3> PICK m \in Machines : Deletes(m)
        BY <2>3
      <3>1. /\ machine' = [machine EXCEPT ![m] = None]
            /\ runs' = [k \in Jobs |-> IF runs[k] # None /\ runs[k].machine = m
                                       THEN [runs[k] EXCEPT !.machine = None] ELSE runs[k]]
        BY DEF Deletes
      <3> QED
        BY <2>0, <3>1 DEF StoreTypeOK
    <2>4. runs' = runs \/ (\E k \in Jobs : Logs(k)) \/ (\E m \in Machines : Deletes(m))
      <3>1. CASE \E k \in Jobs : Start(k) \/ SessionEnds(k)
        BY <3>1 DEF Start, StartRun, StartStream, StartTerminal, StartPower, StartBulk, Comes,
           SessionEnds, world, stored
      <3>2. CASE \E k \in Jobs : JobStep(k)
        BY <3>2 DEF JobStep, Looks, LooksInVain, ReadsMachine, MachineRefused, ReadsFacts,
           NotAvailable, Upgrades, Reaches, ReachesNot, Ends, LogFails, ReadsGroup, ReadsListed,
           FansOut, BulkRefused, Acquires, BulkEnds, world, stored
      <3>3. CASE Edit
        BY <3>3 DEF Edit, Learns, Forgets, Updates, Removes, Creates
      <3>4. CASE Lifecycle
        BY <3>4 DEF Lifecycle, Signal, Drains, GraceExpires, Exits, Crash, Restarts, stored
      <3>5. CASE UNCHANGED vars
        BY <3>5 DEF vars, world, stored
      <3> QED
        BY <3>1, <3>2, <3>3, <3>4, <3>5 DEF Next
    <2> QED
      BY <2>1, <2>2, <2>3, <2>4
  <1> QED
    BY <1>1, Invariance, PTL DEF Spec, RecordsStay

\* When a shutdown has waited for its handlers, the exit ends none: what is
\* still in flight is a stream or a terminal.
THEOREM DrainIsComplete == Spec => DrainLosesNoHandler
  <1> DEFINE Complete == life = "closing" /\ life' = "up" =>
                            \A j \in Jobs : InFlight(j) => kind[j] \in {"stream", "terminal"}
  <1>1. IInv => Complete
    BY DEF IInv, Drained, Hijacked
  <1> QED
    BY <1>1, Invariance, PTL DEF DrainLosesNoHandler

-----------------------------------------------------------------------------
(* The audit log as module AuditLog tells it.                               *)

Untold == {"none", "ok", "failed"}

\* Nobody has been told anything before the job is done, and a terminal's row
\* is that of a shell that is open.
CallerFits ==
    \A j \in Jobs :
        /\ pc[j] # "done" => result[j] \in Untold
        /\ pc[j] = "log" /\ kind[j] = "terminal" => j \in ran

\* A step of one job is one of AuditLog's, about one command.
LEMMA OneMoves ==
    ASSUME NEW j \in Jobs, Frame(j)
    PROVE  /\ Order' = [Order EXCEPT ![j] = Order'[j]]
           /\ Told' = [Told EXCEPT ![j] = Told'[j]]
  <1>1. Jobs' = Jobs
    BY DEF Jobs, Reqs
  <1>2. ASSUME NEW k \in Jobs, k # j PROVE Order'[k] = Order[k] /\ Told'[k] = Told[k]
    <2>1. pc'[k] = pc[k] /\ ask'[k] = ask[k] /\ got'[k] = got[k] /\ result'[k] = result[k]
      BY <1>2 DEF Frame
    <2> QED
      BY <1>1, <2>1 DEF Order, Told, Admitted, AuditRow
  <1>3. /\ Order = [k \in Jobs |-> Order[k]] /\ Told = [k \in Jobs |-> Told[k]]
        /\ Order' = [k \in Jobs |-> Order'[k]] /\ Told' = [k \in Jobs |-> Told'[k]]
    BY <1>1 DEF Order, Told
  <1> HIDE DEF Order, Told
  <1> QED
    BY <1>2, <1>3

LEMMA OrderOf ==
    ASSUME IInv, NEW j \in Jobs
    PROVE  /\ Admitted(j) => /\ Order[j] \in Orders /\ Order[j] # None
                             /\ Order[j].row = AuditRow(j)
                             /\ AuditRow(j) \in AuditRows
                             /\ AuditRow(j).machine = ask[j].machine
                             /\ ask[j].machine \in Machines
           /\ ~Admitted(j) => Order[j] = None
  <1>1. JobTypeOK /\ JobFits(j)
    BY Known
  <1>2. CASE Admitted(j)
    <2>1. /\ got[j].tier \in Tiers /\ got[j].row \in Rows /\ ask[j].machine \in Machines
          /\ ask[j].action \in Actions \cup {"terminal.open"}
      BY <1>1, <1>2 DEF Admitted, JobFits, Prepared, Held
    <2>2. AuditRow(j) \in AuditRows /\ AuditRow(j).machine = ask[j].machine
      BY <2>1 DEF AuditRow, AuditRows, Rows
    <2>3. ask[j].confirm \in SUBSET ({"click"} \cup Names)
      BY <1>1 DEF JobTypeOK
    <2>4. Order[j] = [row |-> AuditRow(j), given |-> ask[j].confirm]
      BY <1>2 DEF Order
    <2>5. Order[j] \in Orders /\ Order[j].row = AuditRow(j)
      BY <2>2, <2>3, <2>4 DEF Orders
    <2> QED
      BY <1>2, <2>1, <2>2, <2>5, EngineAssumption
  <1> QED
    BY <1>2 DEF Order

\* Where j stands tells what it has been told.
LEMMA ToldOf ==
    ASSUME NEW j \in Jobs
    PROVE  /\ pc[j] = "session" => Told[j] = "session"
           /\ pc[j] \notin {"session", "done"} => Told[j] = "nothing"
           /\ pc'[j] = "session" => Told'[j] = "session"
           /\ pc'[j] \notin {"session", "done"} => Told'[j] = "nothing"
           /\ pc'[j] = "done" => Told'[j] = IF result'[j] \in {"refused", "unlogged", "lost"}
                                            THEN result'[j] ELSE "answered"
           /\ ~Admitted(j)' => Order'[j] = None
           /\ Admitted(j)' => Order'[j] = [row |-> AuditRow(j)', given |-> ask'[j].confirm]
  <1>1. Jobs' = Jobs
    BY DEF Jobs, Reqs
  <1> QED
    BY <1>1 DEF Told, Order

\* What the log does not see.
LEMMA Unseen ==
    ASSUME NEW j \in Jobs, Frame(j), Order'[j] = Order[j], Told'[j] = Told[j],
           ran' = ran, runs' = runs, machine' = machine
    PROVE  UNCHANGED Log!vars
  <1>1. Order' = Order /\ Told' = Told
    <2>1. Order = [Order EXCEPT ![j] = Order[j]] /\ Told = [Told EXCEPT ![j] = Told[j]]
      BY DEF Order, Told
    <2> QED
      BY <2>1, OneMoves
  <1>2. Present' = Present
    BY DEF Present
  <1> QED
    BY <1>1, <1>2 DEF Log!vars

\* A job that moves about before it is admitted, or after, with nothing done.
LEMMA MovesUnseen ==
    ASSUME NEW j \in Jobs, Frame(j), ran' = ran, runs' = runs, machine' = machine,
           pc[j] \notin {"session", "done"}, pc'[j] \notin {"session", "done"},
           \/ ~Admitted(j) /\ ~Admitted(j)'
           \/ Admitted(j) /\ Admitted(j)' /\ ask'[j] = ask[j] /\ got'[j] = got[j]
    PROVE  UNCHANGED Log!vars
  <1>1. Told'[j] = Told[j]
    BY ToldOf
  <1>2. Order'[j] = Order[j]
    <2>1. Jobs' = Jobs
      BY DEF Jobs, Reqs
    <2> QED
      BY <2>1 DEF Order, AuditRow, Admitted
  <1> QED
    BY <1>1, <1>2, Unseen

\* The end of a job is an answer.
LEMMA AnswerTells ==
    ASSUME IInv, NEW j \in Jobs, NEW what \in Results \cup {"none"}, Answer(j, what), pc[j] # "done",
           \A k \in Jobs \ {j} : runs'[k] = runs[k]
    PROVE  Log!Tells(j, IF what \in {"refused", "unlogged", "lost"} THEN what ELSE "answered")
  <1>1. JobTypeOK
    BY Known
  <1>2. pc'[j] = "done" /\ result'[j] = what
    BY <1>1 DEF Answer, Goto, JobTypeOK
  <1>3. Frame(j)
    BY <1>1 DEF Answer, Goto, JobTypeOK, Frame
  <1>4. Told[j] \in {"nothing", "session"}
    BY ToldOf
  <1>5. Order'[j] = None /\ Told'[j] = IF what \in {"refused", "unlogged", "lost"} THEN what ELSE "answered"
    BY <1>2, ToldOf DEF Admitted
  <1> QED
    BY <1>3, <1>4, <1>5, OneMoves DEF Log!Tells

LEMMA StartImplements ==
    ASSUME IInv, NEW j \in Jobs, Start(j)
    PROVE  UNCHANGED Log!vars
  <1>1. JobTypeOK
    BY Known
  <1>2. /\ pc[j] = "new" /\ ran' = ran /\ runs' = runs /\ machine' = machine /\ j[2] = 0
        /\ got' = got /\ result' = result
        /\ \A k \in Jobs \ {j} : kind'[k] = kind[k]
    BY <1>1 DEF Start, StartRun, StartStream, StartTerminal, StartPower, StartBulk, Comes, world, stored,
                JobTypeOK
  <1>3. pc'[j] \in {"lookup", "machine"}
    BY <1>1 DEF Start, StartRun, StartStream, StartTerminal, StartPower, StartBulk, Goto, JobTypeOK
  <1>4. \A k \in Jobs \ {j} : pc'[k] = pc[k] /\ ask'[k] = ask[k]
    BY <1>1 DEF Start, StartRun, StartStream, StartTerminal, StartPower, StartBulk, Goto, JobTypeOK
  <1>5. \A r \in Reqs : r = j[1] \/ bulk'[r] = bulk[r]
    BY <1>1 DEF Start, StartRun, StartStream, StartTerminal, StartPower, StartBulk, JobTypeOK
  <1>6. Frame(j)
    BY <1>2, <1>4, <1>5 DEF Frame, Worker
  <1> QED
    BY <1>2, <1>3, <1>6, MovesUnseen DEF Admitted

\* The steps that end a job but for the row.
LEMMA EndImplements ==
    ASSUME IInv, NEW j \in Jobs,
           \/ LooksInVain(j) \/ MachineRefused(j) \/ NotAvailable(j) \/ LogFails(j)
           \/ BulkRefused(j) \/ BulkEnds(j) \/ SessionEnds(j)
    PROVE  Log!Next
  <1>0. JobFits(j) /\ RowFits(j)
    BY Known
  <1>1. runs' = runs /\ machine' = machine /\ Present' = Present
    BY DEF LooksInVain, MachineRefused, NotAvailable, LogFails, BulkRefused, BulkEnds, SessionEnds,
           world, stored, Present
  <1>2. ASSUME NEW what, Answer(j, what) PROVE ran' = ran
    BY <1>2 DEF Answer
  <1>3. CASE LooksInVain(j) \/ MachineRefused(j) \/ NotAvailable(j) \/ BulkRefused(j)
    <2>1. Answer(j, "refused")
      BY <1>3 DEF LooksInVain, MachineRefused, NotAvailable, BulkRefused, Refuse
    <2>2. /\ pc[j] \in {"lookup", "machine", "facts", "upgrade", "exec", "gate"}
          /\ pc[j] = "exec" => kind[j] = "power"
      BY <1>3 DEF LooksInVain, MachineRefused, NotAvailable, BulkRefused
    <2>3. j \notin ran /\ runs[j] = None
      BY <1>0, <2>2 DEF RowFits
    <2>4. Log!Tells(j, "refused")
      BY <1>1, <2>1, <2>2, AnswerTells DEF Results
    <2>5. Log!Refuse(j)
      BY <1>1, <1>2, <2>1, <2>3, <2>4 DEF Log!Refuse
    <2> QED
      BY <2>5 DEF Log!Next
  <1>4. CASE LogFails(j)
    <2>1. Answer(j, "unlogged") /\ pc[j] = "log" /\ machine[ask[j].machine] = None
      BY <1>4 DEF LogFails
    <2>2. runs[j] = None
      BY <1>0, <2>1 DEF RowFits
    <2>3. Order[j] # None /\ Order[j].row.machine \notin Present
      BY <2>1, OrderOf DEF Admitted, Present
    <2>4. Log!Tells(j, "unlogged")
      BY <1>1, <2>1, AnswerTells DEF Results
    <2>5. Log!Apologize(j)
      BY <1>1, <1>2, <2>1, <2>2, <2>3, <2>4 DEF Log!Apologize
    <2> QED
      BY <2>5 DEF Log!Next
  <1>5. CASE SessionEnds(j) \/ BulkEnds(j)
    <2>1. Answer(j, "ok") /\ pc[j] \in {"session", "fan"}
      BY <1>5 DEF SessionEnds, BulkEnds
    <2>2. j \in ran => runs[j] # None
      BY <1>0, <2>1 DEF RowFits
    <2>3. Log!Tells(j, "answered")
      BY <1>1, <2>1, AnswerTells DEF Results
    <2>4. Log!Answer(j)
      BY <1>1, <1>2, <2>1, <2>2, <2>3 DEF Log!Answer
    <2> QED
      BY <2>4 DEF Log!Next
  <1> QED
    BY <1>3, <1>4, <1>5

\* Prepare's gate, powerMachine's and the terminal's lack of one.
LEMMA AdmitImplements ==
    ASSUME IInv, NEW j \in Jobs, ReadsMachine(j)
    PROVE  Log!Next
  <1> DEFINE m == ask[j].machine
             r == [machine |-> m, name |-> machine[m].name, action |-> ask[j].action,
                   danger |-> Danger(j)]
             o == [row |-> r, given |-> ask[j].confirm]
  <1>0. /\ JobTypeOK /\ StoreTypeOK /\ JobFits(j) /\ RowFits(j)
    BY Known
  <1>1. /\ pc[j] = "machine" /\ Admits(j, machine[m])
        /\ got' = [got EXCEPT ![j] = [tier |-> Danger(j), row |-> machine[m]]]
        /\ pc' = [pc EXCEPT ![j] = AfterMachine(j)]
        /\ UNCHANGED <<kind, ask, bulk, sem, ran, result>> /\ runs' = runs /\ machine' = machine
    BY DEF ReadsMachine, Goto, Keep, world, stored
  <1>2. /\ m \in Machines /\ machine[m] \in Rows
        /\ kind[j] \in {"run", "stream", "part", "power", "terminal"}
        /\ kind[j] = "power" => ask[j].action \in Powers
        /\ kind[j] = "terminal" => ask[j].action = "terminal.open"
        /\ kind[j] \in {"run", "stream", "part"} => ask[j].action \in Runnable /\ got[j].tier \in Tiers
    BY <1>0, <1>1 DEF JobFits, Admits, StoreTypeOK, Held
  <1>3. AfterMachine(j) \in {"exec", "upgrade", "facts"} /\ Danger(j) \in Tiers
    BY <1>2 DEF AfterMachine, Danger, PowerTier, Tiers
  <1>4. Frame(j)
    BY <1>0, <1>1 DEF Frame, JobTypeOK
  <1>5. pc'[j] \in {"exec", "upgrade", "facts"} /\ got'[j] = [tier |-> Danger(j), row |-> machine[m]]
        /\ ask'[j] = ask[j]
    BY <1>0, <1>1, <1>3 DEF JobTypeOK
  <1>6. Order'[j] = o
    BY <1>5, ToldOf DEF Admitted, AuditRow
  <1>7. r \in AuditRows
    BY <1>2, <1>3 DEF AuditRows, Rows, Actions, Runnable
  <1>8. o \in Orders
    BY <1>0, <1>7 DEF Orders, JobTypeOK
  <1>9. Log!Confirmed(o)
    <2>1. CASE kind[j] = "terminal"
      BY <1>2, <2>1 DEF Log!Confirmed
    <2>2. CASE kind[j] # "terminal"
      BY <1>1, <2>2 DEF Admits, Gate, Log!Confirmed
    <2> QED
      BY <2>1, <2>2
  <1>10. Order[j] = None /\ Told[j] = "nothing"
    BY <1>1, OrderOf, ToldOf DEF Admitted
  <1>11. j \notin ran /\ runs[j] = None
    BY <1>0, <1>1 DEF RowFits
  <1>12. m \in Present /\ Present' = Present
    BY <1>1, <1>2, EngineAssumption DEF Present
  <1>13. Told' = Told
    <2>1. Told'[j] = Told[j]
      BY <1>5, <1>10, ToldOf
    <2>2. Told = [Told EXCEPT ![j] = Told[j]]
      BY DEF Told
    <2> QED
      BY <1>4, <2>1, <2>2, OneMoves
  <1>14. Order' = [Order EXCEPT ![j] = Order'[j]]
    BY <1>4, OneMoves
  <1>15. Order'[j] \in Log!Orders
    BY <1>6, <1>8 DEF Orders, Log!Orders
  <1>16. Order'[j].row.machine \in Present /\ Log!Confirmed(Order'[j])
    BY <1>6, <1>9, <1>12
  <1>17. Log!Admit(j)
    BY <1>1, <1>10, <1>11, <1>12, <1>13, <1>14, <1>15, <1>16 DEF Log!Admit
  <1> QED
    BY <1>17 DEF Log!Next

\* A stream is open, a shell is, a command runs.
LEMMA ReachImplements ==
    ASSUME IInv, NEW j \in Jobs, Reaches(j)
    PROVE  Log!Next
  <1>0. JobTypeOK /\ RowFits(j) /\ JobFits(j)
    BY Known
  <1>1. /\ pc[j] = "exec" /\ ran' = ran \cup {j} /\ runs' = runs /\ machine' = machine
        /\ UNCHANGED <<kind, ask, got, bulk, sem, result>>
        /\ pc' = [pc EXCEPT ![j] = IF kind[j] = "terminal" THEN "log"
                                   ELSE IF kind[j] = "stream" THEN "session" ELSE "running"]
    BY DEF Reaches, Goto, world, stored
  <1>2. Frame(j)
    BY <1>0, <1>1 DEF Frame, JobTypeOK
  <1>3. pc'[j] = IF kind[j] = "terminal" THEN "log" ELSE IF kind[j] = "stream" THEN "session" ELSE "running"
    BY <1>0, <1>1 DEF JobTypeOK
  <1>4. Order[j] # None /\ j \notin ran /\ Told[j] = "nothing"
    BY <1>0, <1>1, OrderOf, ToldOf DEF Admitted, RowFits
  <1>5. Order' = Order
    <2>1. Order'[j] = Order[j]
      <3>1. Jobs' = Jobs
        BY DEF Jobs, Reqs
      <3> QED
        BY <1>1, <1>3, <3>1 DEF Order, Admitted, AuditRow
    <2>2. Order = [Order EXCEPT ![j] = Order[j]]
      BY DEF Order
    <2> QED
      BY <1>2, <2>1, <2>2, OneMoves
  <1>6. Present' = Present
    BY <1>1 DEF Present
  <1>7. CASE kind[j] = "stream"
    <2>1. runs'[j] # None
      BY <1>0, <1>1, <1>7 DEF RowFits
    <2>2. Told' = [Told EXCEPT ![j] = "session"]
      BY <1>2, <1>3, <1>7, OneMoves, ToldOf
    <2>3. Log!HandsOver(j)
      BY <1>1, <1>4, <1>5, <2>1, <2>2 DEF Log!HandsOver
    <2>4. Log!Perform(j)
      BY <1>1, <1>4, <1>6, <2>3 DEF Log!Perform
    <2> QED
      BY <2>4 DEF Log!Next
  <1>8. CASE kind[j] # "stream"
    <2>1. Told'[j] = Told[j]
      BY <1>3, <1>4, <1>8, ToldOf
    <2>2. Told' = Told
      <3>1. Told = [Told EXCEPT ![j] = Told[j]]
        BY DEF Told
      <3> QED
        BY <1>2, <2>1, <3>1, OneMoves
    <2>3. Log!Perform(j)
      BY <1>1, <1>4, <1>5, <1>6, <2>2 DEF Log!Perform, Log!Waits
    <2> QED
      BY <2>3 DEF Log!Next
  <1> QED
    BY <1>7, <1>8

\* InsertRun: before a stream, between shell and session, after a command.
LEMMA LogsImplements ==
    ASSUME IInv, CallerFits, NEW j \in Jobs, Logs(j)
    PROVE  Log!Next
  <1>0. JobTypeOK /\ StoreTypeOK /\ RowFits(j) /\ JobFits(j)
    BY Known
  <1>1. /\ pc[j] = "log" /\ machine[ask[j].machine] # None /\ machine' = machine
        /\ runs' = [runs EXCEPT ![j] = AuditRow(j)] /\ Logged(j)
    BY DEF Logs
  <1>2. /\ Order[j] # None /\ Order[j].row = AuditRow(j) /\ Order[j].row.machine \in Present
        /\ AuditRow(j) \in AuditRows /\ Told[j] = "nothing"
    <2>1. Admitted(j)
      BY <1>1 DEF Admitted
    <2>2. /\ Order[j] # None /\ Order[j].row = AuditRow(j) /\ AuditRow(j) \in AuditRows
          /\ AuditRow(j).machine = ask[j].machine /\ ask[j].machine \in Machines
      BY <2>1, OrderOf
    <2>3. ask[j].machine \in Present
      BY <1>1, <2>2 DEF Present
    <2>4. Told[j] = "nothing"
      BY <1>1, ToldOf
    <2> QED
      BY <2>2, <2>3, <2>4
  <1>3. runs[j] = None
    BY <1>0, <1>1 DEF RowFits
  <1>4. runs'[j] # None /\ \A k \in Jobs \ {j} : runs'[k] = runs[k]
    BY <1>0, <1>1, <1>2, EngineAssumption DEF StoreTypeOK
  <1>5. Present' = Present
    BY <1>1 DEF Present
  <1>6. ran' = ran
    BY <1>1 DEF Logged, Keep, Answer
  <1>7. SUFFICES Log!Waits \/ Log!HandsOver(j) \/ Log!Tells(j, "answered")
    <2>1. Log!Record(j)
      BY <1>1, <1>2, <1>3, <1>5, <1>6, <1>7 DEF Log!Record
    <2> QED
      BY <2>1 DEF Log!Next
  <1>8. CASE kind[j] \in {"stream", "terminal"}
    <2> DEFINE x == IF kind[j] = "stream" THEN "exec" ELSE "session"
    <2>1. pc' = [pc EXCEPT ![j] = x] /\ got' = got /\ UNCHANGED <<kind, ask, bulk, sem, ran, result>>
      BY <1>1, <1>8 DEF Logged, Goto, Keep
    <2>2. Frame(j)
      BY <1>0, <1>4, <2>1 DEF Frame, JobTypeOK
    <2>3. pc'[j] = x
      BY <1>0, <2>1 DEF JobTypeOK
    <2>4. Order' = Order
      <3>1. Jobs' = Jobs
        BY DEF Jobs, Reqs
      <3>2. Order'[j] = Order[j]
        BY <1>1, <2>1, <2>3, <3>1 DEF Order, Admitted, AuditRow
      <3>3. Order = [Order EXCEPT ![j] = Order[j]]
        BY DEF Order
      <3> QED
        BY <2>2, <3>2, <3>3, OneMoves
    <2>5. CASE kind[j] = "stream"
      <3>1. Told'[j] = Told[j]
        BY <1>2, <2>3, <2>5, ToldOf
      <3>2. Told = [Told EXCEPT ![j] = Told[j]]
        BY DEF Told
      <3> QED
        BY <2>2, <2>4, <3>1, <3>2, OneMoves DEF Log!Waits
    <2>6. CASE kind[j] = "terminal"
      <3>1. Told' = [Told EXCEPT ![j] = "session"]
        BY <2>2, <2>3, <2>6, OneMoves, ToldOf
      <3>2. j \in ran'
        BY <1>1, <1>6, <2>6 DEF CallerFits
      <3> QED
        BY <1>2, <1>4, <2>4, <3>1, <3>2 DEF Log!HandsOver
    <2> QED
      BY <1>8, <2>5, <2>6
  <1>9. CASE kind[j] \notin {"stream", "terminal"}
    <2>1. Answer(j, result[j]) /\ result[j] \in Untold
      BY <1>1, <1>9 DEF Logged, CallerFits
    <2> QED
      BY <1>1, <1>4, <2>1, AnswerTells DEF Results, Untold
  <1> QED
    BY <1>8, <1>9

\* The others: reading, moving on, fanning out.
LEMMA MoveImplements ==
    ASSUME IInv, NEW j \in Jobs,
           \/ Looks(j) \/ ReadsFacts(j) \/ Upgrades(j) \/ Ends(j) \/ ReadsGroup(j)
           \/ ReadsListed(j) \/ Acquires(j)
    PROVE  UNCHANGED Log!vars
  <1>0. JobTypeOK /\ JobFits(j)
    BY Known
  <1>1. /\ ran' = ran /\ runs' = runs /\ machine' = machine /\ ask' = ask /\ kind' = kind
        /\ \A k \in Jobs \ {j} : pc'[k] = pc[k] /\ got'[k] = got[k] /\ result'[k] = result[k]
        /\ pc[j] # "lookup" => got' = got
    BY <1>0 DEF Looks, ReadsFacts, Upgrades, Ends, ReadsGroup, ReadsListed, Acquires, Goto, Keep,
                world, stored, JobTypeOK
  <1>2. /\ pc[j] \in {"facts", "upgrade", "running"} => pc'[j] \in {"upgrade", "exec", "log"}
        /\ pc[j] \notin {"facts", "upgrade", "running"} =>
              /\ pc[j] \in {"lookup", "group", "list", "wait"}
              /\ pc'[j] \in {"lookup", "machine", "group", "list", "gate"}
    BY <1>0 DEF Looks, ReadsFacts, Upgrades, Ends, ReadsGroup, ReadsListed, Acquires, Goto,
                AfterLookup, JobTypeOK
  <1>3. Frame(j)
    <2>1. ASSUME NEW r \in Reqs PROVE (r = j[1] /\ ~Worker(j)) \/ bulk'[r] = bulk[r]
      BY <1>0, <2>1 DEF Looks, ReadsFacts, Upgrades, Ends, ReadsGroup, ReadsListed, Acquires, Keep,
                        JobTypeOK, JobFits, Bulking
    <2> QED
      BY <1>1, <2>1 DEF Frame
  <1> QED
    BY <1>1, <1>2, <1>3, MovesUnseen DEF Admitted

LEMMA ReachesNotImplements ==
    ASSUME IInv, NEW j \in Jobs, ReachesNot(j)
    PROVE  Log!Next \/ UNCHANGED Log!vars
  <1>0. JobTypeOK /\ RowFits(j) /\ pc[j] = "exec"
    BY Known DEF ReachesNot
  <1>1. runs' = runs /\ machine' = machine /\ Present' = Present /\ ran' = ran
    BY DEF ReachesNot, Answer, world, stored, Present
  <1>2. CASE kind[j] \in {"stream", "terminal"}
    <2>1. Answer(j, "failed")
      BY <1>2 DEF ReachesNot
    <2>2. Log!Tells(j, "answered")
      BY <1>0, <1>1, <2>1, AnswerTells DEF Results
    <2>3. Log!Answer(j)
      BY <1>0, <1>1, <2>2 DEF Log!Answer, RowFits
    <2> QED
      BY <2>3 DEF Log!Next
  <1>3. CASE kind[j] \notin {"stream", "terminal"}
    <2>1. /\ pc' = [pc EXCEPT ![j] = "log"] /\ result' = [result EXCEPT ![j] = "failed"]
          /\ UNCHANGED <<kind, ask, got, bulk, sem>>
      BY <1>3 DEF ReachesNot, Goto
    <2>2. Frame(j) /\ pc'[j] = "log"
      BY <1>0, <1>1, <2>1 DEF Frame, JobTypeOK
    <2> QED
      BY <1>0, <1>1, <2>1, <2>2, MovesUnseen DEF Admitted
  <1> QED
    BY <1>2, <1>3

\* Workers begin; none is admitted yet.
LEMMA FanImplements ==
    ASSUME IInv, NEW j \in Jobs, FansOut(j)
    PROVE  UNCHANGED Log!vars
  <1>0. JobTypeOK /\ Jobs' = Jobs
    BY Known DEF Jobs, Reqs
  <1>1. /\ pc[j] = "gate" /\ ran' = ran /\ runs' = runs /\ machine' = machine
        /\ got' = got /\ result' = result
    BY DEF FansOut, world, stored
  <1>2. ASSUME NEW k \in Jobs, k # j, k \in Workers(j) PROVE pc[k] = "new" /\ pc'[k] = "wait"
    <2>1. Worker(k) /\ k[1] = j[1]
      BY <1>2, JobFacts DEF Workers, Worker
    <2>2. ~Worker(j)
      BY <1>1, Known DEF JobFits, Bulking
    <2>3. Boss(k) = j
      BY <2>1, <2>2, JobFacts DEF Boss
    <2>4. pc[k] = "new"
      BY <1>1, <2>1, <2>3, Known DEF WorkerFits
    <2> QED
      BY <1>2, <2>4 DEF FansOut
  <1>3. ASSUME NEW k \in Jobs, k # j, k \notin Workers(j) PROVE pc'[k] = pc[k] /\ ask'[k] = ask[k]
    BY <1>3 DEF FansOut
  <1>4. pc'[j] = "fan"
    BY DEF FansOut
  <1>5. ASSUME NEW k \in Jobs PROVE Order'[k] = Order[k] /\ Told'[k] = Told[k]
    <2>1. CASE k = j \/ k \in Workers(j)
      <3>1. /\ pc[k] \in {"gate", "new"} /\ pc'[k] \in {"fan", "wait"}
        BY <1>1, <1>2, <1>4, <2>1
      <3> QED
        BY <3>1, OrderOf, ToldOf DEF Admitted
    <2>2. CASE k # j /\ k \notin Workers(j)
      BY <1>0, <1>1, <1>3, <2>2 DEF Order, Told, Admitted, AuditRow
    <2> QED
      BY <2>1, <2>2
  <1>6. Order' = Order /\ Told' = Told
    BY <1>0, <1>5 DEF Order, Told
  <1>7. Present' = Present
    BY <1>1 DEF Present
  <1> QED
    BY <1>1, <1>6, <1>7 DEF Log!vars

LEMMA EditImplements ==
    ASSUME IInv, Edit
    PROVE  Log!Next \/ UNCHANGED Log!vars
  <1>0. StoreTypeOK /\ Jobs' = Jobs
    BY DEF IInv, TypeOK, Jobs, Reqs
  <1>1. UNCHANGED <<pc, ask, got, ran, result>>
    BY DEF Edit, Deletes, Learns, Forgets, Updates, Removes, Creates, Edits
  <1>2. Order' = Order /\ Told' = Told
    BY <1>0, <1>1 DEF Order, Told, Admitted, AuditRow
  <1>3. ASSUME NEW m \in Machines, Deletes(m) PROVE Log!Next
    <2>1. /\ machine[m] # None /\ machine' = [machine EXCEPT ![m] = None]
          /\ runs' = [k \in Jobs |-> IF runs[k] # None /\ runs[k].machine = m
                                     THEN [runs[k] EXCEPT !.machine = None] ELSE runs[k]]
      BY <1>3 DEF Deletes
    <2>2. m \in Present /\ Present' = Present \ {m}
      BY <1>0, <2>1 DEF Present, StoreTypeOK
    <2>3. Log!Delete(m)
      BY <1>1, <1>2, <2>1, <2>2 DEF Log!Delete
    <2> QED
      BY <2>3 DEF Log!Next
  <1>4. ASSUME NEW m \in Machines, NEW row \in Forms, Updates(m, row)
        PROVE  Present' = Present /\ runs' = runs
    <2>1. row # None
      BY EngineAssumption
    <2> QED
      BY <1>0, <1>4, <2>1 DEF Updates, Present, StoreTypeOK
  <1>5. CASE Present' = Present /\ runs' = runs
    BY <1>1, <1>2, <1>5 DEF Log!vars
  <1>6. \/ \E m \in Machines : Deletes(m)
        \/ \E m \in Machines, row \in Forms : Updates(m, row)
        \/ machine' = machine /\ runs' = runs
    BY DEF Edit, Learns, Forgets, Removes, Creates
  <1> QED
    BY <1>3, <1>4, <1>5, <1>6 DEF Present

LEMMA LifecycleImplements ==
    ASSUME IInv, CallerFits, Lifecycle
    PROVE  Log!Next \/ UNCHANGED Log!vars
  <1>0. JobTypeOK /\ Jobs' = Jobs
    BY DEF IInv, TypeOK, Jobs, Reqs
  <1>1. runs' = runs /\ machine' = machine /\ ran' = ran
    BY DEF Lifecycle, Signal, Drains, GraceExpires, Exits, Crash, Restarts, stored
  <1>2. Present' = Present
    BY <1>1 DEF Present
  <1>3. CASE Signal \/ Drains \/ GraceExpires
    <2>1. UNCHANGED <<pc, ask, got, result>>
      BY <1>3 DEF Signal, Drains, GraceExpires
    <2>2. Order' = Order /\ Told' = Told
      BY <1>0, <2>1 DEF Order, Told, Admitted, AuditRow
    <2> QED
      BY <1>1, <1>2, <2>2 DEF Log!vars
  <1>4. CASE Restarts
    <2> DEFINE lost == {k \in Jobs : InFlight(k)}
    <2>1. ASSUME NEW k \in Jobs
          PROVE  /\ pc'[k] = IF InFlight(k) THEN "done" ELSE pc[k]
                 /\ result'[k] = IF InFlight(k) THEN "lost" ELSE result[k]
      BY <1>4 DEF Restarts
    <2>2. Order' = [k \in Jobs |-> None]
      <3>1. ASSUME NEW k \in Jobs PROVE Order'[k] = None
        BY <2>1, ToldOf DEF InFlight, Admitted
      <3> QED
        BY <1>0, <3>1 DEF Order
    <2>3. lost \in SUBSET {k \in Jobs : Told[k] \in {"nothing", "session"}}
      BY ToldOf DEF InFlight
    <2>4. \A k \in Jobs : Order[k] # None => k \in lost
      BY OrderOf DEF InFlight, Admitted
    <2>5. Told' = [k \in Jobs |-> IF k \in lost THEN "lost" ELSE Told[k]]
      <3>1. ASSUME NEW k \in Jobs PROVE Told'[k] = IF k \in lost THEN "lost" ELSE Told[k]
        <4>1. CASE InFlight(k)
          BY <2>1, <4>1, ToldOf
        <4>2. CASE ~InFlight(k)
          BY <1>0, <2>1, <4>2 DEF Told
        <4> QED
          BY <4>1, <4>2
      <3>2. Told' = [k \in Jobs |-> Told'[k]]
        BY <1>0 DEF Told
      <3> HIDE DEF lost, Told
      <3> QED
        BY <3>1, <3>2
    <2> HIDE DEF lost
    <2>6. Log!Die
      BY <1>1, <1>2, <2>2, <2>3, <2>4, <2>5 DEF Log!Die
    <2> QED
      BY <2>6 DEF Log!Next
  <1> QED
    BY <1>3, <1>4 DEF Lifecycle, Exits, Crash

-----------------------------------------------------------------------------
\* The result of a job is its answer, a terminal is recorded when it is open.
LEMMA CallerStep ==
    ASSUME IInv, CallerFits, [Next]_vars
    PROVE  CallerFits'
  <1>0. JobTypeOK /\ Jobs' = Jobs
    BY DEF IInv, TypeOK, Jobs, Reqs
  <1> DEFINE Fit(k) == /\ pc'[k] # "done" => result'[k] \in Untold
                       /\ pc'[k] = "log" /\ kind'[k] = "terminal" => k \in ran'
  <1> SUFFICES ASSUME NEW k \in Jobs PROVE Fit(k)
    BY <1>0 DEF CallerFits
  <1>1. ASSUME pc'[k] = pc[k], kind'[k] = kind[k], result'[k] = result[k], k \in ran => k \in ran'
        PROVE  Fit(k)
    BY <1>1 DEF CallerFits
  <1>2. ASSUME pc'[k] \notin {"done", "log"}, pc[k] # "done", result'[k] = result[k]
        PROVE  Fit(k)
    BY <1>2 DEF CallerFits
  <1>3. ASSUME NEW j \in Jobs, NEW what, Answer(j, what) PROVE Fit(k)
    <2>1. CASE k = j
      BY <1>0, <1>3, <2>1 DEF Answer, Goto, JobTypeOK
    <2>2. CASE k # j
      BY <1>0, <1>1, <1>3, <2>2 DEF Answer, Goto, JobTypeOK
    <2> QED
      BY <2>1, <2>2
  <1>4. ASSUME NEW j \in Jobs, Start(j) PROVE Fit(k)
    <2>1. CASE k = j
      <3>1. pc[j] = "new" /\ pc'[j] \in {"lookup", "machine"} /\ result' = result
        BY <1>0, <1>4 DEF Start, StartRun, StartStream, StartTerminal, StartPower, StartBulk, Comes,
                          Goto, JobTypeOK
      <3> QED
        BY <1>2, <2>1, <3>1
    <2>2. CASE k # j
      <3>1. pc'[k] = pc[k] /\ kind'[k] = kind[k] /\ result' = result /\ ran' = ran
        BY <1>0, <1>4, <2>2 DEF Start, StartRun, StartStream, StartTerminal, StartPower, StartBulk,
                                Comes, Goto, JobTypeOK
      <3> QED
        BY <1>1, <3>1
    <2> QED
      BY <2>1, <2>2
  <1>5. ASSUME NEW j \in Jobs,
               \/ Looks(j) \/ ReadsMachine(j) \/ ReadsFacts(j) \/ ReadsGroup(j)
               \/ ReadsListed(j) \/ Acquires(j)
        PROVE  Fit(k)
    <2>1. kind' = kind /\ result' = result /\ ran' = ran /\ pc[j] # "done"
      BY <1>5 DEF Looks, ReadsMachine, ReadsFacts, ReadsGroup, ReadsListed, Acquires, Keep
    <2>2. /\ k # j => pc'[k] = pc[k]
          /\ pc'[j] \notin {"done", "log"}
      BY <1>0, <1>5 DEF Looks, ReadsMachine, ReadsFacts, ReadsGroup, ReadsListed, Acquires, Goto,
                        AfterLookup, AfterMachine, JobTypeOK
    <2> QED
      BY <1>1, <1>2, <2>1, <2>2
  <1>6. ASSUME NEW j \in Jobs, Upgrades(j) \/ Ends(j) \/ Reaches(j) PROVE Fit(k)
    <2>1. CASE k # j
      <3>1. pc'[k] = pc[k] /\ kind'[k] = kind[k] /\ result'[k] = result[k] /\ (k \in ran => k \in ran')
        BY <1>0, <1>6, <2>1 DEF Upgrades, Ends, Reaches, Goto, Keep, JobTypeOK
      <3> QED
        BY <1>1, <3>1
    <2>2. CASE k = j
      <3>1. pc[j] # "done" /\ result'[j] \in Untold /\ kind' = kind
        BY <1>0, <1>6 DEF Upgrades, Ends, Reaches, Keep, JobTypeOK, CallerFits, Untold
      <3>2. pc'[j] = "log" /\ kind[j] = "terminal" => j \in ran'
        BY <1>0, <1>6, Known DEF Upgrades, Ends, Reaches, Goto, JobTypeOK, JobFits
      <3> QED
        BY <2>2, <3>1, <3>2
    <2> QED
      BY <2>1, <2>2
  <1>7. ASSUME NEW j \in Jobs, ReachesNot(j), kind[j] \notin {"stream", "terminal"} PROVE Fit(k)
    <2>1. /\ pc' = [pc EXCEPT ![j] = "log"] /\ result' = [result EXCEPT ![j] = "failed"]
          /\ UNCHANGED <<kind, ran>>
      BY <1>7 DEF ReachesNot, Goto
    <2> QED
      BY <1>0, <1>1, <1>7, <2>1 DEF JobTypeOK, Untold
  <1>8. ASSUME NEW j \in Jobs, Logs(j), kind[j] \in {"stream", "terminal"} PROVE Fit(k)
    <2>1. /\ pc' = [pc EXCEPT ![j] = IF kind[j] = "stream" THEN "exec" ELSE "session"]
          /\ UNCHANGED <<kind, ran, result>> /\ pc[j] = "log"
      BY <1>8 DEF Logs, Logged, Goto, Keep
    <2> QED
      BY <1>0, <1>1, <1>2, <2>1 DEF JobTypeOK
  <1>9. ASSUME NEW j \in Jobs, FansOut(j) PROVE Fit(k)
    <2>1. result' = result /\ ran' = ran /\ pc[j] = "gate"
      BY <1>9 DEF FansOut
    <2>2. CASE k # j /\ k \notin Workers(j)
      BY <1>1, <1>9, <2>1, <2>2 DEF FansOut
    <2>3. CASE k = j
      BY <1>2, <1>9, <2>1, <2>3 DEF FansOut
    <2>4. CASE k # j /\ k \in Workers(j)
      <3>1. Worker(k) /\ k[1] = j[1]
        BY <2>4, JobFacts DEF Workers, Worker
      <3>2. ~Worker(j)
        BY <2>1, Known DEF JobFits, Bulking
      <3>3. Boss(k) = j
        BY <3>1, <3>2, JobFacts DEF Boss
      <3>4. pc[k] = "new"
        BY <2>1, <3>1, <3>3, Known DEF WorkerFits
      <3>5. pc'[k] = "wait"
        BY <1>9, <2>4 DEF FansOut
      <3> QED
        BY <1>2, <2>1, <3>4, <3>5
    <2> QED
      BY <2>2, <2>3, <2>4
  <1>10. CASE Edit \/ UNCHANGED vars \/ Signal \/ Drains \/ GraceExpires
    <2>1. UNCHANGED <<pc, kind, ran, result>>
      BY <1>10 DEF Edit, Deletes, Learns, Forgets, Updates, Removes, Creates, Edits, vars, Signal,
                   Drains, GraceExpires
    <2> QED
      BY <1>1, <2>1
  <1>11. CASE Restarts
    <2>1. kind' = kind /\ ran' = ran /\ result'[k] = (IF InFlight(k) THEN "lost" ELSE result[k])
          /\ pc'[k] = IF InFlight(k) THEN "done" ELSE pc[k]
      BY <1>11 DEF Restarts
    <2> QED
      BY <1>1, <2>1
  <1>12. ASSUME NEW j \in Jobs,
                LooksInVain(j) \/ MachineRefused(j) \/ NotAvailable(j) \/ LogFails(j)
                \/ BulkRefused(j) \/ BulkEnds(j) \/ SessionEnds(j)
         PROVE  Fit(k)
    <2>1. \E what \in Results : Answer(j, what)
      BY <1>12 DEF LooksInVain, MachineRefused, NotAvailable, LogFails, BulkRefused, BulkEnds,
                   SessionEnds, Refuse, Results
    <2> QED
      BY <1>3, <2>1
  <1>13. ASSUME NEW j \in Jobs, ReachesNot(j) \/ Logs(j) PROVE Fit(k)
    <2>1. CASE ReachesNot(j) /\ kind[j] \in {"stream", "terminal"}
      BY <1>3, <2>1 DEF ReachesNot
    <2>2. CASE Logs(j) /\ kind[j] \notin {"stream", "terminal"}
      BY <1>3, <2>2 DEF Logs, Logged
    <2> QED
      BY <1>7, <1>8, <1>13, <2>1, <2>2
  <1> QED
    BY <1>4, <1>5, <1>6, <1>9, <1>10, <1>11, <1>12, <1>13
    DEF Next, JobStep, Lifecycle, Exits, Crash

\* Each step of the engine is a step of AuditLog or none.
LEMMA LogStep ==
    ASSUME IInv, CallerFits, [Next]_vars
    PROVE  [Log!Next]_(Log!vars)
  <1>1. ASSUME NEW j \in Jobs, Start(j) \/ JobStep(j) \/ SessionEnds(j)
        PROVE  Log!Next \/ UNCHANGED Log!vars
    BY <1>1, StartImplements, EndImplements, AdmitImplements, ReachImplements, LogsImplements,
       MoveImplements, ReachesNotImplements, FanImplements DEF JobStep
  <1>2. CASE UNCHANGED vars
    <2>1. Jobs' = Jobs
      BY DEF Jobs, Reqs
    <2> QED
      BY <1>2, <2>1 DEF vars, world, stored, Log!vars, Order, Told, Present, Admitted, AuditRow
  <1> QED
    BY <1>1, <1>2, EditImplements, LifecycleImplements DEF Next

LEMMA LogInit == Init => Log!Init
  <1> SUFFICES ASSUME Init PROVE Log!Init
    OBVIOUS
  <1>1. Present = Machines
    BY EngineAssumption DEF Init, Present
  <1>2. Order = [j \in Jobs |-> None] /\ Told = [j \in Jobs |-> "nothing"]
    BY DEF Init, Order, Told, Admitted
  <1> QED
    BY <1>1, <1>2 DEF Init, Log!Init

\* The engine keeps the audit log as AuditLog promises it: what a command did
\* is found there as it was confirmed, or whoever asked for it knows better.
THEOREM EngineImplementsAuditLog == Spec => ImplementsAuditLog
  <1>1. Init => CallerFits
    BY DEF Init, CallerFits, Untold
  <1>2. IInv /\ CallerFits /\ [Next]_vars => CallerFits'
    BY CallerStep
  <1>3. IInv /\ CallerFits /\ [Next]_vars => [Log!Next]_(Log!vars)
    BY LogStep
  <1> QED
    BY <1>1, <1>2, <1>3, LogInit, Invariance, PTL DEF Spec, Log!Spec, ImplementsAuditLog
=============================================================================

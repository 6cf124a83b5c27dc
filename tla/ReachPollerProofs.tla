-------------------------- MODULE ReachPollerProofs --------------------------
(***************************************************************************)
(* For any number of machines and any fan-out: the entries of sched belong *)
(* to the loop alone between two sweeps, and to one goroutine during one.  *)
(* SchedHasOneOwner needs, beside the types, that a machine with an entry  *)
(* keeps it for as long as its goroutine runs, which is what wg.Wait before*)
(* the pruning is for.                                                     *)
(*                                                                         *)
(* The backoff is reasoned about as bits: three doublings lose none of them*)
(* and stay below the cap, and from the fourth on some bit is above the cap,*)
(* is the sign, or none is left.                                           *)
(***************************************************************************)
EXTENDS ReachPoller, TLAPS

\* The bound of the model leaves room for a stop that is under way.
StopCounts == proc = "stopping" => stops < MaxStops

IInv == TypeOK /\ StopCounts /\ SchedHasOneOwner

LEMMA FailsIsCounted ==
    ASSUME NEW n \in 0..MaxFails
    PROVE  Min({n + 1, MaxFails}) \in 0..MaxFails
<1>1. \E x \in {n + 1, MaxFails} : \A y \in {n + 1, MaxFails} : x =< y
  BY ReachAssumption
<1>2. Min({n + 1, MaxFails}) \in {n + 1, MaxFails}
  BY <1>1 DEF Min
<1>3. Min({n + 1, MaxFails}) =< MaxFails
  BY <1>1 DEF Min
<1>4. QED
  BY <1>2, <1>3, ReachAssumption

LEMMA LaterIsAnEntry ==
    ASSUME NEW n \in 0..MaxFails
    PROVE  Later(n) \in [fails : 0..MaxFails, due : BOOLEAN]
  BY DEF Later, Negative

LEMMA InitInv == Init => IInv
<1> SUFFICES ASSUME Init PROVE IInv
  OBVIOUS
<1> USE DEF Init, Answers, Failures
<1>1. row \in [Machines -> {"new", "skipped", "bare", "checked", "gone"}]
  OBVIOUS
<1>2. TypeOK
  <2>1. stops \in 0..MaxStops /\ seen \in SUBSET Machines
    BY ReachAssumption
  <2>2. sched \in [Machines -> {NoSched} \cup [fails : 0..MaxFails, due : BOOLEAN]]
    OBVIOUS
  <2>3. QED
    BY <1>1, <2>1, <2>2 DEF TypeOK
<1>3. StopCounts /\ SchedHasOneOwner
  BY DEF StopCounts, SchedHasOneOwner
<1>4. QED
  BY <1>2, <1>3 DEF IInv

LEMMA SweepStartsInv == IInv /\ SweepStarts => IInv'
<1> SUFFICES ASSUME IInv, SweepStarts PROVE IInv'
  OBVIOUS
<1> USE DEF IInv, TypeOK, StopCounts, Answers, Failures, SweepStarts, world
<1>1. Entries \in [Machines -> {NoSched} \cup [fails : 0..MaxFails, due : BOOLEAN]]
  BY ReachAssumption DEF Entries, Fresh
<1>2. TypeOK'
  <2>1. seen' \in SUBSET Machines
    BY DEF Listed
  <2>2. check' \in [Machines -> {"none", "queued", "bare", "running"} \cup Answers]
    OBVIOUS
  <2>3. QED
    BY <1>1, <2>1, <2>2
<1>3. SchedHasOneOwner'
  <2> SUFFICES ASSUME NEW m \in Machines, check'[m] # "none"
               PROVE  sweeping' /\ m \in seen' /\ sched'[m] # NoSched
    BY DEF SchedHasOneOwner
  <2>1. check[m] = "none"
    BY DEF SchedHasOneOwner
  <2>2. row[m] \in {"bare", "checked"} /\ Entries[m].due
    BY <2>1
  <2>3. m \in Listed
    BY <2>2 DEF Listed
  <2>4. Entries[m] # NoSched
    BY <2>2 DEF NoSched
  <2>5. QED
    BY <2>3, <2>4
<1>4. QED
  BY <1>2, <1>3

LEMMA SweepEndsInv == IInv /\ SweepEnds => IInv'
<1> SUFFICES ASSUME IInv, SweepEnds PROVE IInv'
  OBVIOUS
<1> USE DEF IInv, TypeOK, StopCounts, Answers, Failures, SweepEnds, world
<1>1. TypeOK'
  OBVIOUS
<1>2. SchedHasOneOwner'
  BY DEF SchedHasOneOwner
<1>3. QED
  BY <1>1, <1>2

\* A goroutine that goes on keeps its entry; one that ends gives it up.
LEMMA CheckStepInv ==
    ASSUME IInv, NEW m \in Machines, CheckStep(m)
    PROVE  IInv'
<1> USE DEF IInv, TypeOK, StopCounts, Answers, Failures, At, world
<1>1. check[m] # "none"
  BY DEF CheckStep, CheckStarts, CheckUnresolved, CheckAnswers, CheckEnds
<1>2. sched[m] \in [fails : 0..MaxFails, due : BOOLEAN]
  BY <1>1 DEF SchedHasOneOwner
<1>3. ASSUME NEW ok \in BOOLEAN, ScheduleNext(m, ok)
      PROVE  sched' \in [Machines -> {NoSched} \cup [fails : 0..MaxFails, due : BOOLEAN]]
  <2>1. 0 \in 0..MaxFails /\ sched[m].fails \in 0..MaxFails
    BY <1>2, ReachAssumption
  <2>2. /\ Later(0) \in [fails : 0..MaxFails, due : BOOLEAN]
        /\ Later(Min({sched[m].fails + 1, MaxFails})) \in [fails : 0..MaxFails, due : BOOLEAN]
    BY <2>1, FailsIsCounted, LaterIsAnEntry
  <2>3. QED
    BY <1>3, <2>2 DEF ScheduleNext
<1>4. ASSUME NEW ok \in BOOLEAN, ScheduleNext(m, ok), check' = [check EXCEPT ![m] = "none"],
             UNCHANGED <<sweeping, seen>>
      PROVE  SchedHasOneOwner'
  BY <1>4 DEF SchedHasOneOwner, ScheduleNext
<1>5. CASE CheckStarts(m)
  BY <1>1, <1>5 DEF CheckStarts, SchedHasOneOwner
<1>6. CASE CheckUnresolved(m)
  <2>1. ScheduleNext(m, FALSE) /\ check' = [check EXCEPT ![m] = "none"]
    BY <1>6 DEF CheckUnresolved
  <2>2. TypeOK'
    BY <1>3, <1>6, <2>1 DEF CheckUnresolved
  <2>3. SchedHasOneOwner'
    BY <1>4, <1>6, <2>1 DEF CheckUnresolved
  <2>4. StopCounts'
    BY <1>6 DEF CheckUnresolved
  <2>5. QED
    BY <2>2, <2>3, <2>4
<1>7. CASE CheckAnswers(m)
  BY <1>1, <1>7 DEF CheckAnswers, SchedHasOneOwner
<1>8. CASE CheckEnds(m)
  <2>1. PICK ok \in BOOLEAN : ScheduleNext(m, ok)
    BY <1>8 DEF CheckEnds
  <2>2. check' = [check EXCEPT ![m] = "none"] /\ UNCHANGED <<row, box, proc, sweeping, seen, stops>>
    BY <1>8 DEF CheckEnds
  <2>3. reach' \in [Machines -> Answers]
    BY <1>8 DEF CheckEnds, SetReach
  <2>4. TypeOK'
    BY <1>3, <2>1, <2>2, <2>3
  <2>5. SchedHasOneOwner'
    BY <1>4, <2>1, <2>2
  <2>6. StopCounts'
    BY <2>2
  <2>7. QED
    BY <2>4, <2>5, <2>6
<1>9. QED
  BY <1>5, <1>6, <1>7, <1>8 DEF CheckStep

LEMMA DueInv ==
    ASSUME IInv, NEW m \in Machines, Due(m)
    PROVE  IInv'
<1> USE DEF IInv, TypeOK, StopCounts, Answers, Failures, Due, world
<1>1. sched[m] \in [fails : 0..MaxFails, due : BOOLEAN]
  OBVIOUS
<1>2. [sched[m] EXCEPT !.due = TRUE] \in [fails : 0..MaxFails, due : BOOLEAN]
  BY <1>1
<1>3. sched' = [sched EXCEPT ![m] = [sched[m] EXCEPT !.due = TRUE]]
  OBVIOUS
<1>4. TypeOK'
  BY <1>2, <1>3
<1>5. SchedHasOneOwner'
  BY <1>3 DEF SchedHasOneOwner
<1>6. QED
  BY <1>4, <1>5

LEMMA ProcessInv == IInv /\ (Stops \/ Exits \/ Restarts) => IInv'
<1> SUFFICES ASSUME IInv, Stops \/ Exits \/ Restarts PROVE IInv'
  OBVIOUS
<1> USE DEF IInv, TypeOK, StopCounts, Answers, Failures, SchedHasOneOwner, world
<1>1. CASE Stops
  BY <1>1 DEF Stops
<1>2. CASE Exits
  <2>1. stops' \in 0..MaxStops
    BY <1>2, ReachAssumption DEF Exits
  <2>2. /\ sched' = [m \in Machines |-> NoSched]
        /\ check' = [m \in Machines |-> "none"]
        /\ proc' = "down" /\ sweeping' = FALSE /\ seen' = {}
        /\ UNCHANGED <<row, box, reach>>
    BY <1>2 DEF Exits
  <2>3. sched' \in [Machines -> {NoSched} \cup [fails : 0..MaxFails, due : BOOLEAN]]
    BY <2>2
  <2>4. TypeOK'
    BY <2>1, <2>2, <2>3
  <2>5. StopCounts' /\ SchedHasOneOwner'
    BY <2>2
  <2>6. QED
    BY <2>4, <2>5
<1>3. CASE Restarts
  BY <1>3 DEF Restarts
<1>4. QED
  BY <1>1, <1>2, <1>3

LEMMA WorldInv ==
    ASSUME IInv, NEW m \in Machines,
           \/ Created(m) \/ Deleted(m) \/ RowChanges(m) \/ HostEdited(m)
           \/ BoxChanges(m) \/ Meddles(m)
    PROVE  IInv'
<1> USE DEF IInv, TypeOK, StopCounts, Answers, Failures, SchedHasOneOwner, Elsewhere
<1>1. CASE Created(m)
  BY <1>1 DEF Created
<1>2. CASE Deleted(m)
  BY <1>2 DEF Deleted
<1>3. CASE RowChanges(m)
  BY <1>3 DEF RowChanges
<1>4. CASE HostEdited(m)
  BY <1>4 DEF HostEdited
<1>5. CASE BoxChanges(m)
  BY <1>5 DEF BoxChanges
<1>6. CASE Meddles(m)
  BY <1>6 DEF Meddles, At, world
<1>7. QED
  BY <1>1, <1>2, <1>3, <1>4, <1>5, <1>6

LEMMA NextInv == IInv /\ [Next]_vars => IInv'
<1> SUFFICES ASSUME IInv, [Next]_vars PROVE IInv'
  OBVIOUS
<1>1. CASE UNCHANGED vars
  BY <1>1 DEF vars, IInv, TypeOK, StopCounts, SchedHasOneOwner
<1>2. CASE Next
  BY <1>2, SweepStartsInv, SweepEndsInv, CheckStepInv, DueInv, ProcessInv, WorldInv,
     ReachAssumption DEF Next
<1>3. QED
  BY <1>1, <1>2

LEMMA Invariance == Spec => []IInv
  BY InitInv, NextInv, PTL DEF Spec

\* The poller's local state keeps its types, however long machines fail.
THEOREM TypeCorrect == Spec => []TypeOK
<1>1. IInv => TypeOK
  BY DEF IInv
<1>2. QED
  BY Invariance, <1>1, PTL

\* No two sweeps overlap, and no goroutine of one writes an entry that has
\* been pruned (reachSweep's wg.Wait).
THEOREM SchedIsOwned == Spec => []SchedHasOneOwner
<1>1. IInv => SchedHasOneOwner
  BY DEF IInv
<1>2. QED
  BY Invariance, <1>1, PTL
-----------------------------------------------------------------------------
(* The backoff, as an int64.                                               *)

LEMMA BitNumbers ==
    \A b \in 0..30 :
       b = 0 \/ b = 1 \/ b = 2 \/ b = 3 \/ b = 4 \/ b = 5 \/ b = 6 \/ b = 7 \/
       b = 8 \/ b = 9 \/ b = 10 \/ b = 11 \/ b = 12 \/ b = 13 \/ b = 14 \/
       b = 15 \/ b = 16 \/ b = 17 \/ b = 18 \/ b = 19 \/ b = 20 \/ b = 21 \/
       b = 22 \/ b = 23 \/ b = 24 \/ b = 25 \/ b = 26 \/ b = 27 \/ b = 28 \/
       b = 29 \/ b = 30
  BY SMT

\* 60 s, in units of 2^11 ns.
LEMMA Word60 == Word(29296875) = {0, 1, 3, 5, 6, 7, 11, 16, 17, 18, 19, 20, 21, 23, 24}
<1>1. Bit(29296875, 0) /\ Bit(29296875, 1) /\ ~Bit(29296875, 2) /\
      Bit(29296875, 3) /\ ~Bit(29296875, 4) /\ Bit(29296875, 5) /\
      Bit(29296875, 6) /\ Bit(29296875, 7) /\ ~Bit(29296875, 8) /\
      ~Bit(29296875, 9) /\ ~Bit(29296875, 10) /\ Bit(29296875, 11) /\
      ~Bit(29296875, 12) /\ ~Bit(29296875, 13) /\ ~Bit(29296875, 14) /\
      ~Bit(29296875, 15) /\ Bit(29296875, 16) /\ Bit(29296875, 17) /\
      Bit(29296875, 18) /\ Bit(29296875, 19) /\ Bit(29296875, 20) /\
      Bit(29296875, 21) /\ ~Bit(29296875, 22) /\ Bit(29296875, 23) /\
      Bit(29296875, 24) /\ ~Bit(29296875, 25) /\ ~Bit(29296875, 26) /\
      ~Bit(29296875, 27) /\ ~Bit(29296875, 28) /\ ~Bit(29296875, 29) /\
      ~Bit(29296875, 30)
  BY SMT DEF Bit
<1>2. ASSUME NEW b \in Word(29296875) PROVE b \in {0, 1, 3, 5, 6, 7, 11, 16, 17, 18, 19, 20, 21, 23, 24}
  BY <1>1, BitNumbers, SMT DEF Word
<1>3. ASSUME NEW b \in {0, 1, 3, 5, 6, 7, 11, 16, 17, 18, 19, 20, 21, 23, 24} PROVE b \in Word(29296875)
  BY <1>1, SMT DEF Word
<1>4. QED
  BY <1>2, <1>3, SMT

\* 120 s, in units of 2^11 ns.
LEMMA Word120 == Word(58593750) = {1, 2, 4, 6, 7, 8, 12, 17, 18, 19, 20, 21, 22, 24, 25}
<1>1. ~Bit(58593750, 0) /\ Bit(58593750, 1) /\ Bit(58593750, 2) /\
      ~Bit(58593750, 3) /\ Bit(58593750, 4) /\ ~Bit(58593750, 5) /\
      Bit(58593750, 6) /\ Bit(58593750, 7) /\ Bit(58593750, 8) /\
      ~Bit(58593750, 9) /\ ~Bit(58593750, 10) /\ ~Bit(58593750, 11) /\
      Bit(58593750, 12) /\ ~Bit(58593750, 13) /\ ~Bit(58593750, 14) /\
      ~Bit(58593750, 15) /\ ~Bit(58593750, 16) /\ Bit(58593750, 17) /\
      Bit(58593750, 18) /\ Bit(58593750, 19) /\ Bit(58593750, 20) /\
      Bit(58593750, 21) /\ Bit(58593750, 22) /\ ~Bit(58593750, 23) /\
      Bit(58593750, 24) /\ Bit(58593750, 25) /\ ~Bit(58593750, 26) /\
      ~Bit(58593750, 27) /\ ~Bit(58593750, 28) /\ ~Bit(58593750, 29) /\
      ~Bit(58593750, 30)
  BY SMT DEF Bit
<1>2. ASSUME NEW b \in Word(58593750) PROVE b \in {1, 2, 4, 6, 7, 8, 12, 17, 18, 19, 20, 21, 22, 24, 25}
  BY <1>1, BitNumbers, SMT DEF Word
<1>3. ASSUME NEW b \in {1, 2, 4, 6, 7, 8, 12, 17, 18, 19, 20, 21, 22, 24, 25} PROVE b \in Word(58593750)
  BY <1>1, SMT DEF Word
<1>4. QED
  BY <1>2, <1>3, SMT

\* 240 s, in units of 2^11 ns.
LEMMA Word240 == Word(117187500) = {2, 3, 5, 7, 8, 9, 13, 18, 19, 20, 21, 22, 23, 25, 26}
<1>1. ~Bit(117187500, 0) /\ ~Bit(117187500, 1) /\ Bit(117187500, 2) /\
      Bit(117187500, 3) /\ ~Bit(117187500, 4) /\ Bit(117187500, 5) /\
      ~Bit(117187500, 6) /\ Bit(117187500, 7) /\ Bit(117187500, 8) /\
      Bit(117187500, 9) /\ ~Bit(117187500, 10) /\ ~Bit(117187500, 11) /\
      ~Bit(117187500, 12) /\ Bit(117187500, 13) /\ ~Bit(117187500, 14) /\
      ~Bit(117187500, 15) /\ ~Bit(117187500, 16) /\ ~Bit(117187500, 17) /\
      Bit(117187500, 18) /\ Bit(117187500, 19) /\ Bit(117187500, 20) /\
      Bit(117187500, 21) /\ Bit(117187500, 22) /\ Bit(117187500, 23) /\
      ~Bit(117187500, 24) /\ Bit(117187500, 25) /\ Bit(117187500, 26) /\
      ~Bit(117187500, 27) /\ ~Bit(117187500, 28) /\ ~Bit(117187500, 29) /\
      ~Bit(117187500, 30)
  BY SMT DEF Bit
<1>2. ASSUME NEW b \in Word(117187500) PROVE b \in {2, 3, 5, 7, 8, 9, 13, 18, 19, 20, 21, 22, 23, 25, 26}
  BY <1>1, BitNumbers, SMT DEF Word
<1>3. ASSUME NEW b \in {2, 3, 5, 7, 8, 9, 13, 18, 19, 20, 21, 22, 23, 25, 26} PROVE b \in Word(117187500)
  BY <1>1, SMT DEF Word
<1>4. QED
  BY <1>2, <1>3, SMT

\* 480 s, in units of 2^11 ns.
LEMMA Word480 == Word(234375000) = {3, 4, 6, 8, 9, 10, 14, 19, 20, 21, 22, 23, 24, 26, 27}
<1>1. ~Bit(234375000, 0) /\ ~Bit(234375000, 1) /\ ~Bit(234375000, 2) /\
      Bit(234375000, 3) /\ Bit(234375000, 4) /\ ~Bit(234375000, 5) /\
      Bit(234375000, 6) /\ ~Bit(234375000, 7) /\ Bit(234375000, 8) /\
      Bit(234375000, 9) /\ Bit(234375000, 10) /\ ~Bit(234375000, 11) /\
      ~Bit(234375000, 12) /\ ~Bit(234375000, 13) /\ Bit(234375000, 14) /\
      ~Bit(234375000, 15) /\ ~Bit(234375000, 16) /\ ~Bit(234375000, 17) /\
      ~Bit(234375000, 18) /\ Bit(234375000, 19) /\ Bit(234375000, 20) /\
      Bit(234375000, 21) /\ Bit(234375000, 22) /\ Bit(234375000, 23) /\
      Bit(234375000, 24) /\ ~Bit(234375000, 25) /\ Bit(234375000, 26) /\
      Bit(234375000, 27) /\ ~Bit(234375000, 28) /\ ~Bit(234375000, 29) /\
      ~Bit(234375000, 30)
  BY SMT DEF Bit
<1>2. ASSUME NEW b \in Word(234375000) PROVE b \in {3, 4, 6, 8, 9, 10, 14, 19, 20, 21, 22, 23, 24, 26, 27}
  BY <1>1, BitNumbers, SMT DEF Word
<1>3. ASSUME NEW b \in {3, 4, 6, 8, 9, 10, 14, 19, 20, 21, 22, 23, 24, 26, 27} PROVE b \in Word(234375000)
  BY <1>1, SMT DEF Word
<1>4. QED
  BY <1>2, <1>3, SMT

\* 900 s, in units of 2^11 ns.
LEMMA Word900 == Word(439453125) = {0, 2, 6, 7, 8, 10, 15, 16, 20, 21, 25, 27, 28}
<1>1. Bit(439453125, 0) /\ ~Bit(439453125, 1) /\ Bit(439453125, 2) /\
      ~Bit(439453125, 3) /\ ~Bit(439453125, 4) /\ ~Bit(439453125, 5) /\
      Bit(439453125, 6) /\ Bit(439453125, 7) /\ Bit(439453125, 8) /\
      ~Bit(439453125, 9) /\ Bit(439453125, 10) /\ ~Bit(439453125, 11) /\
      ~Bit(439453125, 12) /\ ~Bit(439453125, 13) /\ ~Bit(439453125, 14) /\
      Bit(439453125, 15) /\ Bit(439453125, 16) /\ ~Bit(439453125, 17) /\
      ~Bit(439453125, 18) /\ ~Bit(439453125, 19) /\ Bit(439453125, 20) /\
      Bit(439453125, 21) /\ ~Bit(439453125, 22) /\ ~Bit(439453125, 23) /\
      ~Bit(439453125, 24) /\ Bit(439453125, 25) /\ ~Bit(439453125, 26) /\
      Bit(439453125, 27) /\ Bit(439453125, 28) /\ ~Bit(439453125, 29) /\
      ~Bit(439453125, 30)
  BY SMT DEF Bit
<1>2. ASSUME NEW b \in Word(439453125) PROVE b \in {0, 2, 6, 7, 8, 10, 15, 16, 20, 21, 25, 27, 28}
  BY <1>1, BitNumbers, SMT DEF Word
<1>3. ASSUME NEW b \in {0, 2, 6, 7, 8, 10, 15, 16, 20, 21, 25, 27, 28} PROVE b \in Word(439453125)
  BY <1>1, SMT DEF Word
<1>4. QED
  BY <1>2, <1>3, SMT

LEMMA Delays ==
    /\ ReachHealthy = {11, 12, 14, 16, 17, 18, 22, 27, 28, 29, 30, 31, 32, 34, 35}
    /\ ReachBackoff = {11, 13, 17, 18, 19, 21, 26, 27, 31, 32, 36, 38, 39}
<1>1. ReachHealthy = {11, 12, 14, 16, 17, 18, 22, 27, 28, 29, 30, 31, 32, 34, 35}
  BY Word60, SMT DEF ReachHealthy, ShiftLeft
<1>2. ReachBackoff = {11, 13, 17, 18, 19, 21, 26, 27, 31, 32, 36, 38, 39}
  BY Word900, SMT DEF ReachBackoff, ShiftLeft
<1>3. QED
  BY <1>1, <1>2
\* The first three delays are short of the cap.
LEMMA BackoffDoubles ==
    ASSUME NEW n \in 1..3
    PROVE  Backoff(n) = Doubled(n)
<1> DEFINE d == ShiftLeft(ReachHealthy, n)
<1>1. ASSUME 39 \notin d, \A c \in d : c < 39, d # {}, d \subseteq 0..62 PROVE Backoff(n) = d
  <2>1. ~Negative(d) /\ ~Negative(ReachBackoff)
    BY <1>1, Delays, SMT DEF Negative
  <2>2. 39 \in ReachBackoff \ d
    BY <1>1, Delays, SMT
  <2>3. ~Exceeds(d, ReachBackoff)
    BY <1>1, <2>1, <2>2, SMT DEF Exceeds
  <2>4. QED
    BY <1>1, <2>1, <2>3, SMT DEF Backoff
<1>2. CASE n = 1
  <2>1. d = {12, 13, 15, 17, 18, 19, 23, 28, 29, 30, 31, 32, 33, 35, 36}
    BY <1>2, Delays, SMT DEF ShiftLeft
  <2>2. Backoff(n) = d
    BY <1>1, <2>1, SMT
  <2>3. 29296875 * 2^n = 58593750
    BY <1>2, SMT
  <2>4. ShiftLeft(Word(58593750), 11) = {12, 13, 15, 17, 18, 19, 23, 28, 29, 30, 31, 32, 33, 35, 36}
    BY Word120, SMT DEF ShiftLeft
  <2>5. QED
    BY <2>1, <2>2, <2>3, <2>4, SMT DEF Doubled
<1>3. CASE n = 2
  <2>1. d = {13, 14, 16, 18, 19, 20, 24, 29, 30, 31, 32, 33, 34, 36, 37}
    BY <1>3, Delays, SMT DEF ShiftLeft
  <2>2. Backoff(n) = d
    BY <1>1, <2>1, SMT
  <2>3. 29296875 * 2^n = 117187500
    BY <1>3, SMT
  <2>4. ShiftLeft(Word(117187500), 11) = {13, 14, 16, 18, 19, 20, 24, 29, 30, 31, 32, 33, 34, 36, 37}
    BY Word240, SMT DEF ShiftLeft
  <2>5. QED
    BY <2>1, <2>2, <2>3, <2>4, SMT DEF Doubled
<1>4. CASE n = 3
  <2>1. d = {14, 15, 17, 19, 20, 21, 25, 30, 31, 32, 33, 34, 35, 37, 38}
    BY <1>4, Delays, SMT DEF ShiftLeft
  <2>2. Backoff(n) = d
    BY <1>1, <2>1, SMT
  <2>3. 29296875 * 2^n = 234375000
    BY <1>4, SMT
  <2>4. ShiftLeft(Word(234375000), 11) = {14, 15, 17, 19, 20, 21, 25, 30, 31, 32, 33, 34, 35, 37, 38}
    BY Word480, SMT DEF ShiftLeft
  <2>5. QED
    BY <2>1, <2>2, <2>3, <2>4, SMT DEF Doubled
<1>5. QED
  BY <1>2, <1>3, <1>4, SMT

\* The next exceed it, turn negative or run out of bits: the lowest and the
\* highest bit of ReachHealthy, 24 places apart, are enough to see it.
LEMMA BackoffIsCapped ==
    ASSUME NEW n \in Nat, n >= 4
    PROVE  Backoff(n) = ReachBackoff
<1> DEFINE d == ShiftLeft(ReachHealthy, n)
<1>1. SUFFICES ASSUME ~Negative(d), d # {} PROVE Exceeds(d, ReachBackoff)
  BY Zenon DEF Backoff
<1>2. ASSUME NEW b \in d \ ReachBackoff, \A c \in ReachBackoff \ d : c < b
      PROVE  Exceeds(d, ReachBackoff)
  <2>1. Negative(d) = Negative(ReachBackoff)
    BY <1>1, Delays, SMT DEF Negative
  <2>2. QED
    BY <1>2, <2>1, Zenon DEF Exceeds
<1>3. CASE n = 4
  <2>1. d = {15, 16, 18, 20, 21, 22, 26, 31, 32, 33, 34, 35, 36, 38, 39}
    BY <1>3, Delays, SMT DEF ShiftLeft
  <2>2. 35 \in d \ ReachBackoff /\ \A c \in ReachBackoff \ d : c < 35
    BY <2>1, Delays, SMT
  <2>3. QED
    BY <1>2, <2>2
<1>4. CASE n > 4
  <2>1. \A c \in ReachBackoff : c \in Nat /\ c < 40
    BY Delays, SMT
  <2>2. \A b \in ReachHealthy : b + n \in 0..63 => b + n \in d
    BY SMT DEF ShiftLeft
  <2>3. n < 53
    <3>1. SUFFICES ASSUME n >= 53 PROVE d = {}
      BY <1>1, SMT
    <3>2. \A b \in ReachHealthy : b \in Nat /\ b > 10
      BY Delays, SMT
    <3>3. QED
      BY <3>1, <3>2, SMT DEF ShiftLeft
  <2>4. PICK c \in d : c \in 40..63
    <3>1. 11 \in ReachHealthy /\ 35 \in ReachHealthy
      BY Delays, SMT
    <3>2. 11 + n \in 40..63 \/ 35 + n \in 40..63
      BY <1>4, <2>3, SMT
    <3>3. QED
      BY <2>2, <3>1, <3>2, SMT
  <2>5. c \in d \ ReachBackoff /\ \A x \in ReachBackoff \ d : x < c
    BY <2>1, <2>4, SMT
  <2>6. QED
    BY <1>2, <2>5
<1>5. QED
  BY <1>3, <1>4, SMT

\* reachBackoff's cap (scheduleNext), for every number of failures there can
\* be, not only up to where the shift has no bits left.
THEOREM BackoffIsAlwaysCapped == Spec => []BackoffIsCappedDoubling
<1>1. ASSUME TypeOK PROVE BackoffIsCappedDoubling
  <2> SUFFICES ASSUME NEW m \in Machines, sched[m].fails > 0, NEW n \in sched[m].fails..64
               PROVE  Backoff(n) = IF n < 4 THEN Doubled(n) ELSE ReachBackoff
    BY DEF BackoffIsCappedDoubling
  <2>1. sched[m].fails \in Int
    BY <1>1, ReachAssumption DEF TypeOK, NoSched
  <2>2. n \in Nat /\ n > 0
    BY <2>1
  <2>3. CASE n < 4
    <3>1. n \in 1..3
      BY <2>2, <2>3
    <3>2. QED
      BY <2>3, <3>1, BackoffDoubles
  <2>4. CASE ~(n < 4)
    BY <2>2, <2>4, BackoffIsCapped
  <2>5. QED
    BY <2>3, <2>4
<1>2. IInv => TypeOK
  BY DEF IInv
<1>3. QED
  BY Invariance, <1>1, <1>2, PTL
-----------------------------------------------------------------------------
Forgotten(m) == row[m] = "gone" /\ sched[m] = NoSched

\* "Forget machines that no longer exist": what the pruning has forgotten is
\* never scheduled again, neither by a sweep that listed the machine before it
\* was deleted nor by a check that ends late. (That it is forgotten in the end
\* is SchedulesArePruned.)
THEOREM ForgottenForGood ==
    ASSUME NEW m \in Machines
    PROVE  Spec => [](Forgotten(m) => []Forgotten(m))
<1>1. ASSUME IInv, Forgotten(m), [Next]_vars PROVE Forgotten(m)'
  <2> USE <1>1 DEF Forgotten, IInv, TypeOK
  <2>1. check[m] = "none"
    BY DEF SchedHasOneOwner
  <2>2. CASE SweepStarts
    BY <2>2 DEF SweepStarts, Entries, world
  <2>3. CASE SweepEnds
    BY <2>3 DEF SweepEnds, world
  <2>4. CASE Stops \/ Exits \/ Restarts
    BY <2>4 DEF Stops, Exits, Restarts, world
  <2>5. ASSUME NEW n \in Machines, CheckStep(n) PROVE Forgotten(m)'
    <3>1. n # m /\ row' = row
      BY <2>1, <2>5
         DEF CheckStep, CheckStarts, CheckUnresolved, CheckAnswers, CheckEnds, Answers, Failures,
             world
    <3>2. sched'[m] = sched[m]
      BY <2>5, <3>1
         DEF CheckStep, CheckStarts, CheckUnresolved, CheckAnswers, CheckEnds, ScheduleNext
    <3>3. QED
      BY <3>1, <3>2
  <2>6. ASSUME NEW n \in Machines, Due(n) PROVE Forgotten(m)'
    BY <2>6 DEF Due, world
  <2>7. ASSUME NEW n \in Machines,
               \/ Created(n) \/ Deleted(n) \/ RowChanges(n) \/ HostEdited(n)
               \/ BoxChanges(n) \/ Meddles(n)
        PROVE  Forgotten(m)'
    BY <2>7 DEF Created, Deleted, RowChanges, HostEdited, BoxChanges, Meddles, Elsewhere,
                Listed, world
  <2>8. CASE UNCHANGED vars
    BY <2>8 DEF vars, world
  <2>9. QED
    BY <2>2, <2>3, <2>4, <2>5, <2>6, <2>7, <2>8, ReachAssumption DEF Next
<1>2. QED
  BY Invariance, <1>1, PTL DEF Spec
=============================================================================

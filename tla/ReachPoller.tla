----------------------------- MODULE ReachPoller -----------------------------
(***************************************************************************)
(* internal/api/reach.go: the loop that keeps reach_state honest. Every     *)
(* tick it lists the machines and checks those that are due, each in a      *)
(* goroutine, reachFanout at a time; it waits for all of them before it     *)
(* forgets machines that are gone and looks at the next tick. The goroutine *)
(* of a machine writes the machine's entry of sched without a lock.         *)
(*                                                                          *)
(* A check uses the machine's pooled connection, which other requests use   *)
(* and drop, and writes reach_state, which other requests write: what they  *)
(* do is Meddles here, and step by step in the modules Broker, Identity and *)
(* CloudSync. There is no clock: a delay, once computed, ends at some time. *)
(***************************************************************************)
EXTENDS Integers, FiniteSets, FiniteSetsExt

CONSTANTS Machines,   \* the machines there ever are
          Flaky,      \* those that others edit and use, and whose box may go down
          Fanout,     \* reachFanout
          MaxFails,   \* fails counts no further here
          MaxStops    \* how often the process is stopped or dies

\* From four failures on the delay is reachBackoff (BackoffIsCappedDoubling),
\* so counting on changes nothing.
ASSUME ReachAssumption ==
    /\ Flaky \subseteq Machines
    /\ Fanout \in Nat \ {0}
    /\ MaxFails \in Nat /\ MaxFails > 3
    /\ MaxStops \in Nat

VARIABLES
    row,      \* row[m]: "new" (not there yet), "skipped" (no host, or stopped),
              \* "bare" (no credential that resolves), "checked", "gone"
    box,      \* box[m]: "up" or "down"
    reach,    \* row[m].reach_state
    proc,     \* the process: "up", "stopping" (ctx cancelled), "down"
    sweeping, \* reachSweep is running
    seen,     \* its local seen
    sched,    \* sched[m]: m's entry, or NoSched; due once its time has come
    check,    \* check[m]: what m's goroutine is at, then what Exec returned
    stops     \* the times the process has gone down

world == <<row, box>>
vars == <<row, box, reach, proc, sweeping, seen, sched, check, stops>>

-----------------------------------------------------------------------------
(* time.Duration is an int64: a word is the set of its one bits, bit 63 the *)
(* sign.                                                                    *)

Bit(x, b) == (x \div 2^b) % 2 = 1
Word(x) == {b \in 0..30 : Bit(x, b)}
ShiftLeft(w, n) == {b + n : b \in w} \cap 0..63
Negative(w) == 63 \in w
Exceeds(v, w) ==
    \/ ~Negative(v) /\ Negative(w)
    \/ /\ Negative(v) = Negative(w)
       /\ \E b \in v \ w : \A c \in w \ v : c < b

ReachHealthy == ShiftLeft(Word(29296875), 11)    \* 60 * 10^9 ns
ReachBackoff == ShiftLeft(Word(439453125), 11)   \* 900 * 10^9 ns

\* Bug: a product that has wrapped around is taken for a delay.
BackoffWraps(fails) ==
    LET d == ShiftLeft(ReachHealthy, fails)
    IN  IF Exceeds(d, ReachBackoff) THEN ReachBackoff ELSE d

Backoff(fails) ==
    LET d == ShiftLeft(ReachHealthy, fails)
    IN  IF Exceeds(d, ReachBackoff) \/ Negative(d) \/ d = {} THEN ReachBackoff ELSE d

-----------------------------------------------------------------------------
NoSched == [fails |-> -1, due |-> FALSE]
Fresh == [fails |-> 0, due |-> TRUE]

\* A delay that is not positive is over at once.
Later(fails) ==
    LET d == IF fails = 0 THEN ReachHealthy ELSE Backoff(fails)
    IN  [fails |-> fails, due |-> Negative(d) \/ d = {}]

\* What Exec's error, or its absence, becomes: classifyReach names some of the
\* failures (auth_failed, timeout, refused, ...: "bad") and calls every other
\* one "unknown".
Failures == {"bad", "unknown"}
Answers == {"ok"} \cup Failures

TypeOK ==
    /\ row \in [Machines -> {"new", "skipped", "bare", "checked", "gone"}]
    /\ box \in [Machines -> {"up", "down"}]
    /\ reach \in [Machines -> Answers]
    /\ proc \in {"up", "stopping", "down"}
    /\ sweeping \in BOOLEAN
    /\ seen \in SUBSET Machines
    /\ sched \in [Machines -> {NoSched} \cup [fails : 0..MaxFails, due : BOOLEAN]]
    /\ check \in [Machines -> {"none", "queued", "bare", "running"} \cup Answers]
    /\ stops \in 0..MaxStops

Init ==
    /\ row \in [Machines -> {"new", "checked"}]
    /\ \A m \in Machines \ Flaky : row[m] = "checked"
    /\ box = [m \in Machines |-> "up"]
    /\ reach = [m \in Machines |-> "unknown"]
    /\ proc = "up"
    /\ sweeping = FALSE
    /\ seen = {}
    /\ sched = [m \in Machines |-> NoSched]
    /\ check = [m \in Machines |-> "none"]
    /\ stops = 0

-----------------------------------------------------------------------------
(* The loop.                                                                *)

Listed == {m \in Machines : row[m] \in {"skipped", "bare", "checked"}}

\* The entries there are once the loop has gone through the list.
Entries == [m \in Machines |->
               IF row[m] \in {"bare", "checked"} /\ sched[m] = NoSched
               THEN Fresh ELSE sched[m]]

\* A tick: the list is taken and a goroutine started for every machine that
\* is due, with its row as it is now. (A list that fails is a tick without effect.)
SweepStarts ==
    /\ proc # "down"
    /\ ~sweeping
    /\ sweeping' = TRUE
    /\ seen' = Listed
    /\ sched' = Entries
    /\ check' = [m \in Machines |->
                    IF row[m] \in {"bare", "checked"} /\ Entries[m].due
                    THEN IF row[m] = "bare" THEN "bare" ELSE "queued"
                    ELSE check[m]]
    /\ UNCHANGED <<world, reach, proc, stops>>

\* Bug: machines that are gone keep their schedules.
SweepEndsForgetful ==
    /\ sweeping
    /\ \A m \in Machines : check[m] = "none"
    /\ sweeping' = FALSE
    /\ seen' = {}
    /\ UNCHANGED <<world, reach, proc, sched, check, stops>>

\* Bug: the loop does not wait for its goroutines.
SweepEndsAtOnce ==
    /\ sweeping
    /\ sweeping' = FALSE
    /\ seen' = {}
    /\ sched' = [m \in Machines |-> IF m \in seen THEN sched[m] ELSE NoSched]
    /\ UNCHANGED <<world, reach, proc, check, stops>>

\* wg.Wait, then the machines that are gone are forgotten.
SweepEnds ==
    /\ sweeping
    /\ \A m \in Machines : check[m] = "none"
    /\ sweeping' = FALSE
    /\ seen' = {}
    /\ sched' = [m \in Machines |-> IF m \in seen THEN sched[m] ELSE NoSched]
    /\ UNCHANGED <<world, reach, proc, check, stops>>

-----------------------------------------------------------------------------
(* reachCheck, in its goroutine.                                            *)

At(m, where) == check' = [check EXCEPT ![m] = where]

HoldsSlot(m) == check[m] \in {"running"} \cup Answers
SlotFree == Cardinality({m \in Machines : HoldsSlot(m)}) < Fanout

CheckStarts(m) ==
    /\ check[m] = "queued"
    /\ SlotFree
    /\ At(m, "running")
    /\ UNCHANGED <<world, reach, proc, sweeping, seen, sched, stops>>

ScheduleNext(m, ok) ==
    sched' = [sched EXCEPT ![m] = IF ok THEN Later(0)
                                  ELSE Later(Min({@.fails + 1, MaxFails}))]

\* resolveTarget fails: the check counts as failed, reach_state stays.
CheckUnresolved(m) ==
    /\ \/ check[m] = "bare" /\ SlotFree
       \/ check[m] = "running" /\ row[m] = "bare"
    /\ ScheduleNext(m, FALSE)
    /\ At(m, "none")
    /\ UNCHANGED <<world, reach, proc, sweeping, seen, stops>>

\* Exec: what the box says, or nothing once ctx is cancelled. Which failure it
\* is, is the network's choice: a box that is down may not resolve, refuse,
\* hang up or stay silent.
CheckAnswers(m) ==
    /\ check[m] = "running"
    /\ \/ box[m] = "up" /\ At(m, "ok")
       \/ (box[m] = "down" \/ proc = "stopping") /\ \E e \in Failures : At(m, e)
    /\ UNCHANGED <<world, reach, proc, sweeping, seen, sched, stops>>

\* SetReach: a row that is gone takes nothing.
SetReach(m, state) ==
    reach' = IF row[m] = "gone" THEN reach ELSE [reach EXCEPT ![m] = state]

\* Bug: the state is written only when the outcome differs from the last one.
CheckEndsOnChange(m) ==
    /\ check[m] \in Answers
    /\ IF (check[m] = "ok") = (sched[m].fails = 0) THEN UNCHANGED reach
       ELSE SetReach(m, check[m])
    /\ ScheduleNext(m, check[m] = "ok")
    /\ At(m, "none")
    /\ UNCHANGED <<world, proc, sweeping, seen, stops>>

CheckEnds(m) ==
    /\ check[m] \in Answers
    /\ SetReach(m, check[m])
    /\ ScheduleNext(m, check[m] = "ok")
    /\ At(m, "none")
    /\ UNCHANGED <<world, proc, sweeping, seen, stops>>

\* The time of sc.next has come; a goroutine under way is not affected.
Due(m) ==
    /\ sched[m] # NoSched
    /\ ~sched[m].due
    /\ check[m] = "none"
    /\ sched' = [sched EXCEPT ![m].due = TRUE]
    /\ UNCHANGED <<world, reach, proc, sweeping, seen, check, stops>>

-----------------------------------------------------------------------------
(* The process.                                                             *)

\* SIGTERM cancels ctx, and with it the checks under way.
Stops ==
    /\ proc = "up"
    /\ stops < MaxStops
    /\ proc' = "stopping"
    /\ UNCHANGED <<world, reach, sweeping, seen, sched, check, stops>>

\* run returns, without waiting for the poller; or the process dies.
Exits ==
    /\ proc = "stopping" \/ (proc = "up" /\ stops < MaxStops)
    /\ stops' = stops + 1
    /\ proc' = "down"
    /\ sweeping' = FALSE
    /\ seen' = {}
    /\ sched' = [m \in Machines |-> NoSched]
    /\ check' = [m \in Machines |-> "none"]
    /\ UNCHANGED <<world, reach>>

Restarts ==
    /\ proc = "down"
    /\ proc' = "up"
    /\ UNCHANGED <<world, reach, sweeping, seen, sched, check, stops>>

-----------------------------------------------------------------------------
(* What users, syncs and the boxes do meanwhile.                            *)

Elsewhere == UNCHANGED <<proc, sweeping, seen, sched, check, stops>>

Created(m) ==
    /\ row[m] = "new"
    /\ row' = [row EXCEPT ![m] = "checked"]
    /\ Elsewhere /\ UNCHANGED <<box, reach>>

Deleted(m) ==
    /\ m \in Listed
    /\ row' = [row EXCEPT ![m] = "gone"]
    /\ Elsewhere /\ UNCHANGED <<box, reach>>

\* powerMachine or a sync stops or starts the machine; its credential goes, or
\* it is given one.
RowChanges(m) ==
    /\ m \in Listed
    /\ \E r \in {"skipped", "bare", "checked"} \ {row[m]} : row' = [row EXCEPT ![m] = r]
    /\ Elsewhere /\ UNCHANGED <<box, reach>>

\* updateMachine takes its host away or gives it one.
HostEdited(m) ==
    /\ m \in Listed
    /\ row' = [row EXCEPT ![m] = IF @ = "skipped" THEN "checked" ELSE "skipped"]
    /\ reach' = [reach EXCEPT ![m] = "unknown"]
    /\ Elsewhere /\ UNCHANGED box

BoxChanges(m) ==
    /\ m \in Listed
    /\ box' = [box EXCEPT ![m] = IF @ = "up" THEN "down" ELSE "up"]
    /\ Elsewhere /\ UNCHANGED <<row, reach>>

\* Whoever else uses the machine: a probe, trust, an action, a bulk run, a
\* stream, a power action or a sync writes what it found, which may be old by
\* now; one that drops the connection fails the check that is using it (of a box
\* that is down it fails anyway).
Meddles(m) ==
    /\ m \in Listed
    /\ proc # "down"
    /\ \/ /\ \E r \in Answers \ {reach[m]} : reach' = [reach EXCEPT ![m] = r]
          /\ UNCHANGED check
       \/ /\ check[m] = "running" /\ box[m] = "up"
          /\ \E e \in Failures : At(m, e)
          /\ UNCHANGED reach
    /\ UNCHANGED <<world, proc, sweeping, seen, sched, stops>>

-----------------------------------------------------------------------------
CheckStep(m) == CheckStarts(m) \/ CheckUnresolved(m) \/ CheckAnswers(m) \/ CheckEnds(m)

Next ==
    \/ SweepStarts \/ SweepEnds
    \/ Stops \/ Exits \/ Restarts
    \/ \E m \in Machines : CheckStep(m) \/ Due(m)
    \/ \E m \in Flaky :
          \/ Created(m) \/ Deleted(m) \/ RowChanges(m) \/ HostEdited(m)
          \/ BoxChanges(m) \/ Meddles(m)

Spec == Init /\ [][Next]_vars

\* The ticker ticks, delays end, goroutines run and Exec has a timeout; the
\* list of machines does not fail for ever.
Fairness ==
    /\ WF_vars(SweepStarts)
    /\ WF_vars(SweepEnds)
    /\ \A m \in Machines : WF_vars(CheckStep(m)) /\ WF_vars(Due(m))

FairSpec == Spec /\ Fairness

-----------------------------------------------------------------------------
(* What must hold.                                                          *)

\* sched has no lock: between sweeps no goroutine may hold one of its
\* entries (wg.Wait), and one that does finds its entry in the map, so that
\* what it writes there is not lost to the pruning.
SchedHasOneOwner ==
    \A m \in Machines : check[m] # "none" => sweeping /\ m \in seen /\ sched[m] # NoSched

\* 60 s, doubled n times.
Doubled(n) == ShiftLeft(Word(29296875 * 2^n), 11)

\* "failing ones back off so a dead box is not hammered": however long a
\* machine that fails goes on failing, and whatever an int64 makes of the
\* shift, the next delay is 60 s doubled, and reachBackoff from the fourth
\* failure on. (Go shifts by 64 and more as by 64.)
BackoffIsCappedDoubling ==
    \A m \in Machines : sched[m].fails > 0 =>
        \A n \in sched[m].fails..64 :
            Backoff(n) = IF n < 4 THEN Doubled(n) ELSE ReachBackoff

\* "Forget machines that no longer exist so the map can't grow without bound."
SchedulesArePruned == \A m \in Machines : row[m] = "gone" ~> [](sched[m] = NoSched)

Watched(m) == row[m] = "checked" /\ proc = "up"

\* The poller's goroutine is the last to have a say on m.
LeftAlone(m) == <>[][~Meddles(m)]_vars

\* "keeps the second status dot honest": once a box stays as it is, the machine
\* stays watched and nobody else writes what they found or drops the check's
\* connection, reach_state comes to be ok if the box is up and to be anything
\* but ok if it is down (not always a failure: classifyReach has no name for a
\* host name that does not resolve or a reset, and "unknown" stays), through
\* backoff, slow neighbours, failing sweeps, checks that began before an edit
\* or a power-off, what others wrote before, and checks that a shutdown cut off.
ReachTracksBox ==
    \A m \in Machines : LeftAlone(m) =>
        /\ <>[](Watched(m) /\ box[m] = "up") => <>[](reach[m] = "ok")
        /\ <>[](Watched(m) /\ box[m] = "down") => <>[](reach[m] # "ok")
=============================================================================

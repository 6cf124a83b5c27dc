--------------------------- MODULE IdentityProofs ---------------------------
(***************************************************************************)
(* What holds of host keys, and what edits forget, however many requests   *)
(* overlap, for any number of boxes, logins, requests and key changes.     *)
(*                                                                         *)
(* Neither is inductive: hostKeyPolicy decides on a row it read earlier,   *)
(* trustHostKey writes a key it compared earlier, so IInv says what may    *)
(* have changed under them since. An edit is several statements; the       *)
(* second half shows, statement by statement, that whatever it makes old   *)
(* is forgotten, owed by the edit, or was out of place when written.       *)
(***************************************************************************)
EXTENDS Identity, TLAPS

\* Where a request stands tells what it holds.
StackInv ==
    \A p \in Procs :
        /\ pc[p] = "idle" => op[p] = "none"
        /\ pc[p] \in {"forget", "resolve", "get", "dial", "policy", "first", "refuse", "clear",
                      "insert", "use", "facts", "reachOK", "dropBad", "reachBad"} =>
              op[p] \in Calls /\ tgt[p] \in [box : Boxes, login : Logins]
        /\ pc[p] \in {"policy", "first", "refuse", "clear", "insert"} => fp[p] \in shown
        /\ pc[p] \in {"use", "facts", "reachOK"} => link[p] \in Links
        /\ pc[p] = "write" => op[p] \in {"update", "repoint", "trust", "credential"}
        /\ pc[p] = "drop" => op[p] \in Edits \cup {"repoint"}
        /\ pc[p] = "reset" => op[p] \in {"update", "repoint", "trust"}
        /\ pc[p] \in {"unpin", "unlearn"} => op[p] = "repoint"
        /\ pc[p] = "remove" => op[p] = "delete"
        /\ pc[p] = "write" /\ op[p] \in {"update", "repoint"} =>
              /\ arg[p] \in Rows /\ tgt[p] \in Rows
              /\ op[p] = "repoint" <=> tgt[p].box # arg[p].box
        /\ pc[p] = "write" /\ op[p] = "trust" => arg[p] \in Keys \cap shown

\* The pin a handshake began under is still the pin, unless the machine is
\* gone, in which case no key is accepted any more.
PinInv ==
    \A p \in Procs : ref[p] # None =>
        /\ row # None => pin = ref[p]
        /\ pc[p] = "first" => row = None
        /\ pc[p] = "clear" => fp[p] = ref[p]

IInv == TypeOK /\ StackInv /\ OnlyPresentedKeys /\ PinInv /\ BlocksChangedKey

-----------------------------------------------------------------------------
LEMMA InitInv == Init => IInv
  BY IdentityAssumption
  DEF Init, IInv, TypeOK, StoreTypeOK, RequestTypeOK, StackInv, OnlyPresentedKeys, PinInv,
      BlocksChangedKey, Rows, Keys, Things

\* A handler that returns has nothing on its stack that could be wrong.
LEMMA FinishStep ==
    ASSUME IInv, NEW p \in Procs, Finish(p),
           \/ row' = None
           \/ pin' = pin /\ (row = None => row' = None)
    PROVE  RequestTypeOK' /\ StackInv' /\ PinInv' /\ BlocksChangedKey'
<1> USE DEF IInv, TypeOK, Finish, Hangup, Goto
<1>1. RequestTypeOK'
  BY DEF RequestTypeOK
<1>2. StackInv'
  BY DEF RequestTypeOK, StackInv
<1>3. PinInv'
  BY DEF RequestTypeOK, PinInv
<1>4. BlocksChangedKey'
  BY DEF RequestTypeOK, BlocksChangedKey
<1>5. QED
  BY <1>1, <1>2, <1>3, <1>4

\* A request that goes on without touching its stack, the pin or the row.
LEMMA GotoStep ==
    ASSUME IInv, NEW p \in Procs, NEW w, Goto(p, w), Keep, pin' = pin, row = None => row' = None,
           \/ pc[p] \in {"forget", "resolve", "get"} /\ w \in {"resolve", "get", "dial"}
           \/ pc[p] = "use" /\ w \in {"facts", "reachOK"}
           \/ pc[p] = "facts" /\ w = "reachOK"
           \/ pc[p] = "dropBad" /\ w = "reachBad"
           \/ pc[p] = "reachBad" /\ w = "dropBad"
           \/ pc[p] = "drop" /\ w = "reset" /\ op[p] \in {"update", "repoint", "trust"}
           \/ pc[p] = "drop" /\ w = "remove" /\ op[p] = "delete"
           \/ pc[p] = "reset" /\ w = "unpin" /\ op[p] = "repoint"
    PROVE  RequestTypeOK' /\ StackInv' /\ PinInv' /\ BlocksChangedKey'
<1> USE DEF IInv, TypeOK, Goto, Keep
<1>1. RequestTypeOK'
  BY DEF RequestTypeOK
<1>2. StackInv'
  BY DEF RequestTypeOK, StackInv
<1>3. PinInv'
  BY DEF RequestTypeOK, PinInv
<1>4. BlocksChangedKey'
  BY DEF RequestTypeOK, BlocksChangedKey
<1>5. QED
  BY <1>1, <1>2, <1>3, <1>4

\* A call that failed, on its way to record it.
LEMMA FailedStep ==
    ASSUME IInv, NEW p \in Procs, NEW e \in Failures, Failed(p, e), UNCHANGED <<row, pin>>,
           pc[p] \in {"dial", "first", "refuse", "insert", "use"}
    PROVE  RequestTypeOK' /\ StackInv' /\ PinInv' /\ BlocksChangedKey' /\ shown' = shown
<1>1. CASE Finish(p)
  BY <1>1, FinishStep DEF Finish, Hangup
<1>2. CASE ~Finish(p)
  <2> USE <1>2 DEF Failed, Failures, Hangup, Goto, IInv, TypeOK
  <2>1. RequestTypeOK'
    BY DEF RequestTypeOK
  <2>2. StackInv'
    BY DEF RequestTypeOK, StackInv
  <2>3. PinInv' /\ BlocksChangedKey'
    BY DEF RequestTypeOK, PinInv, BlocksChangedKey
  <2>4. QED
    BY <2>1, <2>2, <2>3
<1>3. QED
  BY <1>1, <1>2

\* An edit whose statement is made, the pin being as it was or excused.
LEMMA DropsStep ==
    ASSUME IInv, NEW p \in Procs, Drops(p), pc[p] = "write", row = None => row' = None,
           \/ ref' = [q \in Procs |-> None]
           \/ pin' = pin /\ UNCHANGED ref
    PROVE  RequestTypeOK' /\ StackInv' /\ PinInv' /\ BlocksChangedKey' /\ shown' = shown
<1> USE DEF Drops, Goto, IInv, TypeOK
<1>1. RequestTypeOK'
  BY DEF RequestTypeOK
<1>2. StackInv'
  BY DEF RequestTypeOK, StackInv, Edits
<1>3. PinInv' /\ BlocksChangedKey'
  BY DEF RequestTypeOK, PinInv, BlocksChangedKey
<1>4. QED
  BY <1>1, <1>2, <1>3

LEMMA InductiveStep == IInv /\ [Next]_vars => IInv'
<1> SUFFICES ASSUME IInv, [Next]_vars PROVE IInv'
  OBVIOUS
<1> USE DEF tables, Writes, When, Unpool
\* A request begins.
<1>1. ASSUME NEW p \in Procs, NEW o \in Calls \cap Kinds, StartCall(p, o)
      PROVE  IInv'
  BY <1>1, IdentityAssumption
  DEF StartCall, Calls, Rows, IInv, TypeOK, StoreTypeOK, RequestTypeOK, StackInv,
      OnlyPresentedKeys, PinInv, BlocksChangedKey, stored, Goto, Keep
<1>2. ASSUME NEW p \in Procs, "update" \in Kinds, NEW r \in Rows, StartUpdate(p, r)
      PROVE  IInv'
  BY <1>2, IdentityAssumption
  DEF StartUpdate, Calls, Edits, IInv, TypeOK, StoreTypeOK, RequestTypeOK, StackInv,
      OnlyPresentedKeys, PinInv, BlocksChangedKey, stored, Goto, Keep
<1>3. ASSUME NEW p \in Procs, "trust" \in Kinds, NEW k \in Keys, StartTrust(p, k)
      PROVE  IInv'
  BY <1>3, IdentityAssumption
  DEF StartTrust, Calls, IInv, TypeOK, StoreTypeOK, RequestTypeOK, StackInv,
      OnlyPresentedKeys, PinInv, BlocksChangedKey, stored, Goto, Keep
<1>4. ASSUME NEW p \in Procs, "delete" \in Kinds, StartDelete(p)
      PROVE  IInv'
  BY <1>4, IdentityAssumption
  DEF StartDelete, Calls, Edits, IInv, TypeOK, StoreTypeOK, RequestTypeOK, StackInv,
      OnlyPresentedKeys, PinInv, BlocksChangedKey, stored, Goto, Keep
<1>5. ASSUME NEW p \in Procs, "credential" \in Kinds, NEW l \in Logins, StartCredential(p, l)
      PROVE  IInv'
  BY <1>5, IdentityAssumption
  DEF StartCredential, Calls, Edits, IInv, TypeOK, StoreTypeOK, RequestTypeOK, StackInv,
      OnlyPresentedKeys, PinInv, BlocksChangedKey, stored, Goto, Keep
\* Looking up, dialing, using.
<1>6. ASSUME NEW p \in Procs, ProbeForgets(p)
      PROVE  IInv'
  BY <1>6, IdentityAssumption
  DEF ProbeForgets, IInv, TypeOK, StoreTypeOK, RequestTypeOK, StackInv, OnlyPresentedKeys,
      PinInv, BlocksChangedKey, stored, Goto, Keep
<1>7. ASSUME NEW p \in Procs, GetHit(p)
      PROVE  IInv'
  BY <1>7, IdentityAssumption
  DEF GetHit, IInv, TypeOK, StoreTypeOK, RequestTypeOK, StackInv, OnlyPresentedKeys,
      PinInv, BlocksChangedKey, stored, Goto, Keep
<1>8. ASSUME NEW p \in Procs, GetMiss(p)
      PROVE  IInv'
  BY <1>8, IdentityAssumption
  DEF GetMiss, IInv, TypeOK, StoreTypeOK, RequestTypeOK, StackInv, OnlyPresentedKeys,
      PinInv, BlocksChangedKey, stored, Goto, Keep
<1>9. ASSUME NEW p \in Procs, DialFails(p)
      PROVE  IInv'
  BY <1>9, FailedStep
  DEF DialFails, IInv, TypeOK, StoreTypeOK, OnlyPresentedKeys, stored
<1>10. ASSUME NEW p \in Procs, AuthFails(p)
       PROVE  IInv'
  BY <1>10, FailedStep
  DEF AuthFails, IInv, TypeOK, StoreTypeOK, OnlyPresentedKeys, stored
<1>11. ASSUME NEW p \in Procs, Insert(p)
       PROVE  IInv'
  <2>1. pool' \in Links \cup {None} /\ link'[p] \in Links
    BY <1>11, IdentityAssumption
       DEF Insert, IInv, TypeOK, StoreTypeOK, RequestTypeOK, StackInv, Links, Calls
  <2>2. RequestTypeOK'
    BY <1>11, <2>1 DEF Insert, IInv, TypeOK, RequestTypeOK, Goto
  <2>3. StackInv'
    BY <1>11, <2>1 DEF Insert, IInv, TypeOK, RequestTypeOK, StackInv, Goto
  <2>4. StoreTypeOK'
    BY <1>11, <2>1 DEF Insert, Things, IInv, TypeOK, StoreTypeOK
  <2>5. OnlyPresentedKeys' /\ PinInv' /\ BlocksChangedKey'
    BY <1>11
       DEF Insert, IInv, TypeOK, RequestTypeOK, OnlyPresentedKeys, PinInv, BlocksChangedKey, Goto
  <2>6. QED
    BY <2>2, <2>3, <2>4, <2>5 DEF IInv, TypeOK
<1>12. ASSUME NEW p \in Procs, UseWorks(p)
       PROVE  IInv'
  BY <1>12, FinishStep, GotoStep
  DEF UseWorks, Finish, Hangup, Keep, IInv, TypeOK, StoreTypeOK, OnlyPresentedKeys, stored
<1>13. ASSUME NEW p \in Procs, UseFails(p)
       PROVE  IInv'
  BY <1>13, FailedStep
  DEF UseFails, IInv, TypeOK, StoreTypeOK, OnlyPresentedKeys, Things
<1>14. ASSUME NEW p \in Procs, LearnsFacts(p)
       PROVE  IInv'
  <2>1. link[p].box \in Boxes
    BY <1>14 DEF LearnsFacts, IInv, StackInv, Links
  <2>2. RequestTypeOK' /\ StackInv' /\ PinInv' /\ BlocksChangedKey'
    BY <1>14, GotoStep DEF LearnsFacts
  <2>3. QED
    BY <1>14, <2>1, <2>2
       DEF LearnsFacts, Keep, Things, IInv, TypeOK, StoreTypeOK, OnlyPresentedKeys
<1>15. ASSUME NEW p \in Procs, LearnsNothing(p)
       PROVE  IInv'
  BY <1>15, FinishStep
  DEF LearnsNothing, Finish, Hangup, IInv, TypeOK, StoreTypeOK, OnlyPresentedKeys, stored
<1>16. ASSUME NEW p \in Procs, ReachOK(p)
       PROVE  IInv'
  <2>1. link[p].box \in Boxes
    BY <1>16 DEF ReachOK, IInv, StackInv, Links
  <2>2. QED
    BY <1>16, <2>1, FinishStep
       DEF ReachOK, SetReach, IInv, TypeOK, StoreTypeOK, OnlyPresentedKeys, Finish, Hangup, Things
<1>17. ASSUME NEW p \in Procs, DropBad(p)
       PROVE  IInv'
  BY <1>17, FinishStep, GotoStep
  DEF DropBad, Finish, Hangup, Keep, IInv, TypeOK, StoreTypeOK, OnlyPresentedKeys, stored
<1>18. ASSUME NEW p \in Procs, ReachBad(p)
       PROVE  IInv'
  <2>1. tgt[p].box \in Boxes
    BY <1>18 DEF ReachBad, IInv, StackInv
  <2>2. RequestTypeOK' /\ StackInv' /\ PinInv' /\ BlocksChangedKey' /\ shown' = shown
    BY <1>18, FinishStep, GotoStep DEF ReachBad, Finish, Hangup, Keep
  <2>3. QED
    BY <1>18, <2>1, <2>2
       DEF ReachBad, SetReach, Things, IInv, TypeOK, StoreTypeOK, OnlyPresentedKeys
\* The handshake.
<1>19. ASSUME NEW p \in Procs, Presents(p)
       PROVE  IInv'
  BY <1>19, IdentityAssumption
  DEF Presents, Keys, IInv, TypeOK, StoreTypeOK, RequestTypeOK, StackInv,
      OnlyPresentedKeys, PinInv, BlocksChangedKey, stored, Goto, Keep
<1>20. ASSUME NEW p \in Procs, PolicyReads(p)
       PROVE  IInv'
  BY <1>20, IdentityAssumption
  DEF PolicyReads, IInv, TypeOK, StoreTypeOK, RequestTypeOK, StackInv, OnlyPresentedKeys,
      PinInv, BlocksChangedKey, stored, Goto, Keep
<1>21. ASSUME NEW p \in Procs, FirstSight(p)
       PROVE  IInv'
  <2> USE <1>21 DEF FirstSight, IInv, TypeOK, RequestTypeOK, Goto, Keep
  <2>1. fp[p] \in Keys /\ fp[p] \in shown /\ fp[p] # None
    BY IdentityAssumption DEF StackInv
  <2>2. StoreTypeOK'
    BY <2>1 DEF StoreTypeOK, Things
  <2>3. StackInv' /\ OnlyPresentedKeys'
    BY <2>1 DEF StackInv, OnlyPresentedKeys
  <2>4. PinInv' /\ BlocksChangedKey'
    BY DEF PinInv, BlocksChangedKey
  <2>5. QED
    BY <2>2, <2>3, <2>4
<1>22. ASSUME NEW p \in Procs, FirstSightFails(p)
       PROVE  IInv'
  BY <1>22, FailedStep
  DEF FirstSightFails, Failures, IInv, TypeOK, StoreTypeOK, OnlyPresentedKeys, stored
<1>23. ASSUME NEW p \in Procs, Mismatch(p)
       PROVE  IInv'
  <2>1. fp[p] \in shown /\ fp[p] \in Keys
    BY <1>23 DEF Mismatch, IInv, StackInv, TypeOK, RequestTypeOK
  <2>2. RequestTypeOK' /\ StackInv' /\ PinInv' /\ BlocksChangedKey' /\ shown' = shown
    BY <1>23, FailedStep DEF Mismatch, Failures
  <2>3. QED
    BY <1>23, <2>1, <2>2
       DEF Mismatch, RecordSeen, Things, IInv, TypeOK, StoreTypeOK, OnlyPresentedKeys
<1>24. ASSUME NEW p \in Procs, Match(p)
       PROVE  IInv'
  BY <1>24, IdentityAssumption
  DEF Match, IInv, TypeOK, StoreTypeOK, RequestTypeOK, StackInv, OnlyPresentedKeys, PinInv,
      BlocksChangedKey, stored, Goto, Keep
\* The edits.
<1>25. ASSUME NEW p \in Procs, UpdateWrites(p)
       PROVE  IInv'
  <2>1. row' \in Rows \cup {None} /\ (row = None <=> row' = None) /\ strays' \subseteq Things
    BY <1>25, IdentityAssumption
       DEF UpdateWrites, Overlooks, IInv, StackInv, TypeOK, StoreTypeOK
  <2>2. RequestTypeOK' /\ StackInv' /\ PinInv' /\ BlocksChangedKey' /\ shown' = shown
    BY <1>25, <2>1, FinishStep, DropsStep DEF UpdateWrites, Finish, Hangup
  <2>3. QED
    BY <1>25, <2>1, <2>2
       DEF UpdateWrites, IInv, TypeOK, StoreTypeOK, OnlyPresentedKeys
<1>26. ASSUME NEW p \in Procs, UpdateFails(p)
       PROVE  IInv'
  BY <1>26, FinishStep
  DEF UpdateFails, Finish, Hangup, IInv, TypeOK, StoreTypeOK, OnlyPresentedKeys, stored
<1>27. ASSUME NEW p \in Procs, EditDrops(p)
       PROVE  IInv'
  <2>1. op[p] \in Edits \cup {"repoint"}
    BY <1>27 DEF EditDrops, IInv, StackInv
  <2>2. RequestTypeOK' /\ StackInv' /\ PinInv' /\ BlocksChangedKey' /\ shown' = shown
    BY <1>27, <2>1, FinishStep, GotoStep DEF EditDrops, Finish, Hangup, Keep, Edits
  <2>3. QED
    BY <1>27, <2>2
       DEF EditDrops, IInv, TypeOK, StoreTypeOK, OnlyPresentedKeys
<1>28. ASSUME NEW p \in Procs, ResetsReach(p)
       PROVE  IInv'
  <2>1. RequestTypeOK' /\ StackInv' /\ PinInv' /\ BlocksChangedKey' /\ shown' = shown
    BY <1>28, FinishStep, GotoStep DEF ResetsReach, BoxChanged, Finish, Hangup, Keep
  <2>2. QED
    BY <1>28, <2>1
       DEF ResetsReach, SetReach, IInv, TypeOK, StoreTypeOK, OnlyPresentedKeys
<1>29. ASSUME NEW p \in Procs, Unpins(p)
       PROVE  IInv'
  BY <1>29, IdentityAssumption
  DEF Unpins, Excuse, Things, IInv, TypeOK, StoreTypeOK, RequestTypeOK, StackInv,
      OnlyPresentedKeys, PinInv, BlocksChangedKey, stored, Goto, Keep
<1>30. ASSUME NEW p \in Procs, Unlearns(p)
       PROVE  IInv'
  BY <1>30, FinishStep
  DEF Unlearns, Finish, Hangup, IInv, TypeOK, StoreTypeOK, OnlyPresentedKeys, stored
<1>31. ASSUME NEW p \in Procs, TrustWrites(p)
       PROVE  IInv'
  <2>1. arg[p] \in Keys \cap shown
    BY <1>31 DEF TrustWrites, IInv, StackInv
  <2>2. RequestTypeOK' /\ StackInv' /\ PinInv' /\ BlocksChangedKey' /\ shown' = shown
    BY <1>31, DropsStep DEF TrustWrites, Excuse
  <2>3. QED
    BY <1>31, <2>1, <2>2
       DEF TrustWrites, Things, IInv, TypeOK, StoreTypeOK, OnlyPresentedKeys
<1>32. ASSUME NEW p \in Procs, TrustFails(p)
       PROVE  IInv'
  BY <1>32, FinishStep
  DEF TrustFails, Finish, Hangup, IInv, TypeOK, StoreTypeOK, OnlyPresentedKeys, stored
<1>33. ASSUME NEW p \in Procs, Removes(p)
       PROVE  IInv'
  BY <1>33, FinishStep
  DEF Removes, Finish, Hangup, IInv, TypeOK, StoreTypeOK, OnlyPresentedKeys, stored
<1>34. ASSUME NEW p \in Procs, CredentialGoes(p)
       PROVE  IInv'
  <2>1. row' \in Rows \cup {None} /\ (row = None <=> row' = None)
    BY <1>34, IdentityAssumption DEF CredentialGoes, IInv, TypeOK, StoreTypeOK, Rows
  <2>2. RequestTypeOK' /\ StackInv' /\ PinInv' /\ BlocksChangedKey' /\ shown' = shown
    BY <1>34, <2>1, FinishStep, DropsStep DEF CredentialGoes, Finish, Hangup
  <2>3. QED
    BY <1>34, <2>1, <2>2
       DEF CredentialGoes, Things, IInv, TypeOK, StoreTypeOK, OnlyPresentedKeys
\* The world.
<1>35. ASSUME NEW b \in Boxes, Rekey(b)
       PROVE  IInv'
  BY <1>35, IdentityAssumption
  DEF Rekey, procs, IInv, TypeOK, StoreTypeOK, RequestTypeOK, StackInv, OnlyPresentedKeys,
      PinInv, BlocksChangedKey, stored
<1>36. CASE LinkBreaks
  BY <1>36, IdentityAssumption
  DEF LinkBreaks, procs, IInv, TypeOK, StoreTypeOK, RequestTypeOK, StackInv,
      OnlyPresentedKeys, PinInv, BlocksChangedKey, stored
<1>37. CASE UNCHANGED vars
  BY <1>37, IdentityAssumption
  DEF vars, procs, IInv, TypeOK, StoreTypeOK, RequestTypeOK, StackInv, OnlyPresentedKeys,
      PinInv, BlocksChangedKey, stored
\* Resolving the target; a terminal refused by the audit log.
<1>39. ASSUME NEW p \in Procs, Resolves(p)
       PROVE  IInv'
  BY <1>39, GotoStep
  DEF Resolves, Keep, IInv, TypeOK, StoreTypeOK, OnlyPresentedKeys, stored
<1>40. ASSUME NEW p \in Procs, Unresolved(p)
       PROVE  IInv'
  <2>1. CASE Finish(p)
    BY <1>40, <2>1, FinishStep
       DEF Unresolved, Finish, Hangup, IInv, TypeOK, StoreTypeOK, OnlyPresentedKeys, stored
  <2>2. CASE ~Finish(p)
    BY <1>40, <2>2, IdentityAssumption
       DEF Unresolved, IInv, TypeOK, StoreTypeOK, RequestTypeOK, StackInv, OnlyPresentedKeys,
           PinInv, BlocksChangedKey, stored, Goto
  <2>3. QED
    BY <2>1, <2>2
<1>41. ASSUME NEW p \in Procs, Unrecorded(p)
       PROVE  IInv'
  BY <1>41, FinishStep
  DEF Unrecorded, Finish, Hangup, IInv, TypeOK, StoreTypeOK, OnlyPresentedKeys, stored
<1>38. QED
  BY <1>1, <1>2, <1>3, <1>4, <1>5, <1>6, <1>7, <1>8, <1>9, <1>10, <1>11, <1>12, <1>13,
     <1>14, <1>15, <1>16, <1>17, <1>18, <1>19, <1>20, <1>21, <1>22, <1>23, <1>24, <1>25,
     <1>26, <1>27, <1>28, <1>29, <1>30, <1>31, <1>32, <1>33, <1>34, <1>35, <1>36, <1>37,
     <1>39, <1>40, <1>41
     DEF Next, Start, CallStep, EditStep

-----------------------------------------------------------------------------
\* IInv holds of every reachable state; the theorems below rest on it.
THEOREM Invariance == Spec => []IInv
<1>1. QED
  BY InitInv, InductiveStep, PTL DEF Spec

\* The tables and the stacks keep their types; in particular a pending key
\* change exists only next to a pin, and a deleted machine has neither pin nor
\* facts, however a delete overlaps the statements of other requests.
THEOREM TypeCorrect == Spec => []TypeOK
<1>1. IInv => TypeOK
  BY DEF IInv
<1>2. QED
  BY Invariance, <1>1, PTL

\* Nothing can be pinned or offered for trust that no host ever presented
\* (trustHostKey), whatever overlaps.
THEOREM PinsWerePresented == Spec => []OnlyPresentedKeys
<1>1. IInv => OnlyPresentedKeys
  BY DEF IInv
<1>2. QED
  BY Invariance, <1>1, PTL

\* While a pin stands, no handshake that was shown another key gets through
\* (hostKeyPolicy), although it decides on a row it read earlier.
THEOREM ChangedKeysAreBlocked == Spec => []BlocksChangedKey
<1>1. IInv => BlocksChangedKey
  BY DEF IInv
<1>2. QED
  BY Invariance, <1>1, PTL

\* A standing pin is replaced by a trust request that echoes the new key and
\* by nothing else: handshakes only ever record and clear what they saw.
THEOREM PinsAreReplacedByEcho == Spec => ReplacedByEchoOnly
<1> DEFINE Replaced == pin # None /\ pin' \notin {pin, None} =>
                          \E p \in Procs : op[p] = "trust" /\ pc[p] = "write" /\ arg[p] = pin'
<1>1. IInv /\ [Next]_vars => Replaced
  <2> SUFFICES ASSUME IInv, [Next]_vars, pin # None, pin' \notin {pin, None}
               PROVE  \E p \in Procs : op[p] = "trust" /\ pc[p] = "write" /\ arg[p] = pin'
    OBVIOUS
  <2>1. PICK p \in Procs : TrustWrites(p)
    BY DEF Next, vars, Start, StartCall, StartUpdate, StartTrust, StartDelete,
           StartCredential, CallStep, ProbeForgets, Resolves, Unresolved, GetHit, GetMiss,
           DialFails, Presents, PolicyReads, FirstSight, FirstSightFails, Mismatch, Match,
           AuthFails, Insert, UseWorks, UseFails, LearnsFacts, LearnsNothing, ReachOK,
           Unrecorded, DropBad, ReachBad, EditStep, UpdateWrites, UpdateFails, EditDrops,
           ResetsReach, Unpins, Unlearns, TrustFails, Removes, CredentialGoes, Rekey,
           LinkBreaks, RecordSeen, stored, tables
  <2>2. QED
    BY <2>1 DEF TrustWrites, IInv, StackInv
<1>2. QED
  BY Invariance, <1>1, PTL DEF Spec, ReplacedByEchoOnly


-----------------------------------------------------------------------------
(* What edits forget.                                                      *)

ForgetInv == \A t \in Things : Forgotten(t)

LEMMA InitForget == Init => ForgetInv
  BY IdentityAssumption DEF Init, ForgetInv, Forgotten, Fits, Things

\* A step of p keeps it when, of each thing, it leaves it fitting, marks it or
\* owes it, or changes none of the three for the worse.
LEMMA ForgetStep ==
    ASSUME ForgetInv, NEW p \in Procs, row = None => row' = None,
           \A q \in Procs \ {p} : op'[q] = op[q] /\ pc'[q] = pc[q],
           \A t \in Things : row' # None =>
              \/ Fits(t, row)' \/ t \in strays' \/ Owes(p, t)'
              \/ /\ Fits(t, row) => Fits(t, row)'
                 /\ t \in strays => t \in strays'
                 /\ Owes(p, t) => Owes(p, t)'
    PROVE  ForgetInv'
<1> SUFFICES ASSUME NEW t \in Things, row' # None PROVE Forgotten(t)'
  BY DEF ForgetInv, Things, Forgotten
<1>1. Fits(t, row) \/ t \in strays \/ \E q \in Procs : Owes(q, t)
  BY DEF ForgetInv, Forgotten
<1>2. ASSUME NEW q \in Procs \ {p}, Owes(q, t)
      PROVE  Owes(q, t)'
  BY <1>2 DEF Owes, BoxChanged
<1>3. QED
  BY <1>1, <1>2 DEF Forgotten

\* A step of p that writes nothing, p not being an edit in the middle.
LEMMA QuietStep ==
    ASSUME ForgetInv, NEW p \in Procs, UNCHANGED <<row, pin, seen, facts, reach, pool, strays>>,
           \A q \in Procs \ {p} : op'[q] = op[q] /\ pc'[q] = pc[q],
           pc[p] \notin {"drop", "reset", "unpin", "unlearn"}
    PROVE  ForgetInv'
<1>1. \A t \in Things : Fits(t, row) => Fits(t, row)'
  BY DEF Fits
<1>2. \A t \in Things : ~Owes(p, t)
  BY DEF Owes
<1>3. QED
  BY <1>1, <1>2, ForgetStep

LEMMA ForgetPreserved == IInv /\ ForgetInv /\ [Next]_vars => ForgetInv'
<1> SUFFICES ASSUME IInv, ForgetInv, [Next]_vars PROVE ForgetInv'
  OBVIOUS
<1> USE DEF stored, tables, Writes, When, Goto, Keep, Finish, Hangup
<1>0. pc = [q \in Procs |-> pc[q]] /\ op = [q \in Procs |-> op[q]]
  BY DEF IInv, TypeOK, RequestTypeOK
<1> USE <1>0
\* A request begins.
<1>1. ASSUME NEW p \in Procs, NEW o \in Calls \cap Kinds, StartCall(p, o)
      PROVE  ForgetInv'
  BY <1>1, QuietStep DEF StartCall
<1>2. ASSUME NEW p \in Procs, NEW r \in Rows, StartUpdate(p, r)
      PROVE  ForgetInv'
  BY <1>2, QuietStep DEF StartUpdate
<1>3. ASSUME NEW p \in Procs, NEW k \in Keys, StartTrust(p, k)
      PROVE  ForgetInv'
  BY <1>3, QuietStep DEF StartTrust
<1>4. ASSUME NEW p \in Procs, StartDelete(p)
      PROVE  ForgetInv'
  <2>1. \A t \in Things : ~Owes(p, t) /\ (Fits(t, row) => Fits(t, row)')
    BY <1>4 DEF StartDelete, Owes, BoxChanged, Fits
  <2>2. QED
    BY <1>4, <2>1, ForgetStep DEF StartDelete
<1>5. ASSUME NEW p \in Procs, NEW l \in Logins, StartCredential(p, l)
      PROVE  ForgetInv'
  BY <1>5, QuietStep DEF StartCredential
\* A call that writes nothing.
<1>6. ASSUME NEW p \in Procs, Resolves(p)
      PROVE  ForgetInv'
  BY <1>6, QuietStep DEF Resolves
<1>7. ASSUME NEW p \in Procs, GetHit(p)
      PROVE  ForgetInv'
  BY <1>7, QuietStep DEF GetHit
<1>8. ASSUME NEW p \in Procs, GetMiss(p)
      PROVE  ForgetInv'
  BY <1>8, QuietStep DEF GetMiss
<1>9. ASSUME NEW p \in Procs, Presents(p)
      PROVE  ForgetInv'
  BY <1>9, QuietStep DEF Presents
<1>10. ASSUME NEW p \in Procs, PolicyReads(p)
       PROVE  ForgetInv'
  BY <1>10, QuietStep DEF PolicyReads
<1>11. ASSUME NEW p \in Procs, UseWorks(p)
       PROVE  ForgetInv'
  BY <1>11, QuietStep DEF UseWorks
<1>12. ASSUME NEW p \in Procs, LearnsNothing(p)
       PROVE  ForgetInv'
  BY <1>12, QuietStep DEF LearnsNothing
<1>13. ASSUME NEW p \in Procs, Unrecorded(p)
       PROVE  ForgetInv'
  BY <1>13, QuietStep DEF Unrecorded
<1>14. ASSUME NEW p \in Procs, DialFails(p)
       PROVE  ForgetInv'
  BY <1>14, QuietStep DEF DialFails, Failed
<1>15. ASSUME NEW p \in Procs, FirstSightFails(p)
       PROVE  ForgetInv'
  BY <1>15, QuietStep DEF FirstSightFails, Failed
<1>16. ASSUME NEW p \in Procs, AuthFails(p)
       PROVE  ForgetInv'
  BY <1>16, QuietStep DEF AuthFails, Failed
\* A call that drops the connection.
<1>17. ASSUME NEW p \in Procs, ProbeForgets(p)
       PROVE  ForgetInv'
  <2>1. \A t \in Things : ~Owes(p, t) /\ (Fits(t, row) => Fits(t, row)')
    BY <1>17 DEF ProbeForgets, Unpool, Owes, BoxChanged, Fits, Things
  <2>2. \A t \in Things : t \in strays => (t \in strays' \/ Fits(t, row)')
    BY <1>17 DEF ProbeForgets, Unpool, Fits
  <2>3. QED
    BY <1>17, <2>1, <2>2, ForgetStep DEF ProbeForgets, Unpool
<1>18. ASSUME NEW p \in Procs, UseFails(p)
       PROVE  ForgetInv'
  <2>1. \A t \in Things : ~Owes(p, t) /\ (Fits(t, row) => Fits(t, row)')
    BY <1>18 DEF UseFails, Unpool, Owes, BoxChanged, Fits, Things, Failed
  <2>2. \A t \in Things : t \in strays => (t \in strays' \/ Fits(t, row)')
    BY <1>18 DEF UseFails, Unpool, Fits, Failed
  <2>3. QED
    BY <1>18, <2>1, <2>2, ForgetStep DEF UseFails, Unpool, Failed
<1>19. ASSUME NEW p \in Procs, DropBad(p)
       PROVE  ForgetInv'
  <2>1. \A t \in Things : ~Owes(p, t) /\ (Fits(t, row) => Fits(t, row)')
    BY <1>19 DEF DropBad, Unpool, Owes, BoxChanged, Fits, Things
  <2>2. \A t \in Things : t \in strays => (t \in strays' \/ Fits(t, row)')
    BY <1>19 DEF DropBad, Unpool, Fits
  <2>3. QED
    BY <1>19, <2>1, <2>2, ForgetStep DEF DropBad, Unpool
\* A call that writes a table or fills the pool.
<1>20. ASSUME NEW p \in Procs, FirstSight(p)
       PROVE  ForgetInv'
  <2>1. \A t \in Things : ~Owes(p, t)
    BY <1>20 DEF FirstSight, Owes, BoxChanged
  <2>2. \A t \in Things : row' # None =>
            \/ Fits(t, row)' \/ t \in strays'
            \/ /\ Fits(t, row) => Fits(t, row)'
               /\ t \in strays => t \in strays'
    <3> USE <1>20 DEF FirstSight, Fits
    <3>1. pool # None => pool.key # None
      BY IdentityAssumption DEF Links, IInv, TypeOK, StoreTypeOK
    <3>2. ASSUME NEW t \in {"pool", "seen", "facts", "reach"}
          PROVE  (Fits(t, row) => Fits(t, row)') /\ (t \in strays => t \in strays')
      OBVIOUS
    <3>3. Fits("key", row) => Fits("key", row)'
      BY <3>1
    <3>4. "key" \in strays => "key" \in strays'
      OBVIOUS
    <3>5. pin = None => Fits("pin", row)' \/ "pin" \in strays'
      OBVIOUS
    <3>6. pin # None => (Fits("pin", row) => Fits("pin", row)')
                         /\ ("pin" \in strays => "pin" \in strays')
      OBVIOUS
    <3> HIDE <1>20 DEF FirstSight, Fits
    <3>7. QED
      BY <3>2, <3>3, <3>4, <3>5, <3>6 DEF Things
  <2>3. QED
    BY <1>20, <2>1, <2>2, ForgetStep
       DEF FirstSight, Keys, Links, IInv, TypeOK, StoreTypeOK, RequestTypeOK, StackInv
<1>21. ASSUME NEW p \in Procs, Mismatch(p)
       PROVE  ForgetInv'
  <2>1. \A t \in Things : ~Owes(p, t)
    BY <1>21 DEF Mismatch, Owes, BoxChanged
  <2>2. \A t \in Things : row' # None =>
            \/ Fits(t, row)' \/ t \in strays'
            \/ /\ Fits(t, row) => Fits(t, row)'
               /\ t \in strays => t \in strays'
    BY <1>21, IdentityAssumption DEF Mismatch, Fits, Things, RecordSeen, Failed, Failures
  <2>3. QED
    BY <1>21, <2>1, <2>2, ForgetStep DEF Mismatch, RecordSeen, Failed, Failures
<1>22. ASSUME NEW p \in Procs, Match(p)
       PROVE  ForgetInv'
  <2>1. \A t \in Things : ~Owes(p, t)
    BY <1>22 DEF Match, Owes, BoxChanged
  <2>2. \A t \in Things : row' # None =>
            \/ Fits(t, row)' \/ t \in strays'
            \/ /\ Fits(t, row) => Fits(t, row)'
               /\ t \in strays => t \in strays'
    BY <1>22, IdentityAssumption DEF Match, Fits, Things
  <2>3. QED
    BY <1>22, <2>1, <2>2, ForgetStep DEF Match
<1>23. ASSUME NEW p \in Procs, Insert(p)
       PROVE  ForgetInv'
  <2>1. \A t \in Things : ~Owes(p, t)
    BY <1>23 DEF Insert, Owes, BoxChanged
  <2>2. \A t \in Things : row' # None =>
            \/ Fits(t, row)' \/ t \in strays'
            \/ /\ Fits(t, row) => Fits(t, row)'
               /\ t \in strays => t \in strays'
    <3> USE <1>23 DEF Insert, Fits
    <3>1. ASSUME NEW t \in {"pin", "seen", "facts", "reach"}
          PROVE  (Fits(t, row) => Fits(t, row)') /\ (t \in strays => t \in strays')
      OBVIOUS
    <3>2. pool = None => Fits("pool", row)' \/ "pool" \in strays'
      OBVIOUS
    <3>3. pool = None => Fits("key", row)' \/ "key" \in strays'
      OBVIOUS
    <3>4. ASSUME NEW t \in {"pool", "key"}, pool # None
          PROVE  (Fits(t, row) => Fits(t, row)') /\ (t \in strays => t \in strays')
      BY <3>4
    <3> HIDE <1>23 DEF Insert, Fits
    <3>5. QED
      BY <3>1, <3>2, <3>3, <3>4 DEF Things
  <2>3. QED
    BY <1>23, <2>1, <2>2, ForgetStep DEF Insert, IInv, TypeOK, StoreTypeOK, RequestTypeOK, StackInv
<1>24. ASSUME NEW p \in Procs, LearnsFacts(p)
       PROVE  ForgetInv'
  <2>1. \A t \in Things : ~Owes(p, t)
    BY <1>24 DEF LearnsFacts, Owes, BoxChanged
  <2>2. \A t \in Things : row' # None =>
            \/ Fits(t, row)' \/ t \in strays'
            \/ /\ Fits(t, row) => Fits(t, row)'
               /\ t \in strays => t \in strays'
    BY <1>24, IdentityAssumption DEF LearnsFacts, Fits, Things
  <2>3. QED
    BY <1>24, <2>1, <2>2, ForgetStep DEF LearnsFacts
<1>25. ASSUME NEW p \in Procs, ReachOK(p)
       PROVE  ForgetInv'
  <2>1. \A t \in Things : ~Owes(p, t)
    BY <1>25 DEF ReachOK, Owes, BoxChanged
  <2>2. \A t \in Things : row' # None =>
            \/ Fits(t, row)' \/ t \in strays'
            \/ /\ Fits(t, row) => Fits(t, row)'
               /\ t \in strays => t \in strays'
    BY <1>25, IdentityAssumption DEF ReachOK, Fits, Things, SetReach
  <2>3. QED
    BY <1>25, <2>1, <2>2, ForgetStep DEF ReachOK, SetReach
<1>26. ASSUME NEW p \in Procs, ReachBad(p)
       PROVE  ForgetInv'
  <2>1. \A t \in Things : ~Owes(p, t)
    BY <1>26 DEF ReachBad, Owes, BoxChanged
  <2>2. \A t \in Things : row' # None =>
            \/ Fits(t, row)' \/ t \in strays'
            \/ /\ Fits(t, row) => Fits(t, row)'
               /\ t \in strays => t \in strays'
    BY <1>26, IdentityAssumption DEF ReachBad, Fits, Things, SetReach
  <2>3. QED
    BY <1>26, <2>1, <2>2, ForgetStep DEF ReachBad, SetReach
<1>27. ASSUME NEW p \in Procs, Unresolved(p)
       PROVE  ForgetInv'
  <2>1. CASE op[p] = "probe"
    BY <1>27, <2>1, QuietStep DEF Unresolved
  <2>2. CASE op[p] # "probe"
    BY <1>27, <2>2, QuietStep DEF Unresolved
  <2>3. QED
    BY <2>1, <2>2
\* The edits.
<1>28. ASSUME NEW p \in Procs, UpdateWrites(p)
       PROVE  ForgetInv'
  <2>1. \A t \in Things : row' # None =>
            \/ Fits(t, row)' \/ t \in strays' \/ Owes(p, t)'
            \/ /\ Fits(t, row) => Fits(t, row)'
               /\ t \in strays => t \in strays'
    <3> SUFFICES ASSUME NEW t \in Things, row' # None, ~Fits(t, row)', t \notin strays'
                 PROVE  \/ Owes(p, t)'
                        \/ (Fits(t, row) => Fits(t, row)') /\ (t \in strays => t \in strays')
      OBVIOUS
    <3>1. row # None /\ row' = arg[p] /\ UNCHANGED <<pin, seen, facts, reach, pool>>
      BY <1>28 DEF UpdateWrites
    <3>2. Fits(t, row)' <=> Fits(t, arg[p])
      BY <3>1 DEF Fits, Things
    <3>3. strays' = (strays \ {u \in Things : Fits(u, arg[p])}) \cup Overlooks(p)
      BY <1>28, <3>1 DEF UpdateWrites
    <3>4. t \notin strays /\ t \notin Overlooks(p)
      BY <3>2, <3>3
    <3>5. SessionChanged(p) => pc'[p] = "drop" /\ op' = op
      BY <1>28 DEF UpdateWrites, Drops, IInv, TypeOK, RequestTypeOK
    <3>6. arg[p] \in Rows /\ tgt[p] \in Rows /\ op[p] \in {"update", "repoint"}
          /\ (op[p] = "repoint" <=> tgt[p].box # arg[p].box)
      BY <1>28 DEF UpdateWrites, IInv, StackInv
    <3>7. CASE t = "key"
      BY <3>1, <3>4, <3>7 DEF Fits
    <3>8. CASE t \in {"pool", "reach"}
      BY <3>1, <3>2, <3>4, <3>5, <3>6, <3>8 DEF Overlooks, SessionChanged, Owes
    <3>9. CASE t \in {"pin", "seen", "facts"} /\ row.box # arg[p].box
      BY <3>1, <3>2, <3>4, <3>5, <3>6, <3>9 DEF Overlooks, SessionChanged, BoxChanged, Owes
    <3>10. CASE t \in {"pin", "seen", "facts"} /\ row.box = arg[p].box
      BY <3>1, <3>2, <3>4, <3>10 DEF Fits
    <3>11. QED
      BY <3>7, <3>8, <3>9, <3>10 DEF Things
  <2>2. \A t \in Things : ~Owes(p, t)
    BY <1>28 DEF UpdateWrites, Owes
  <2>3. QED
    BY <1>28, <2>1, <2>2, ForgetStep DEF UpdateWrites, Drops
<1>29. ASSUME NEW p \in Procs, UpdateFails(p)
       PROVE  ForgetInv'
  BY <1>29, QuietStep DEF UpdateFails
<1>30. ASSUME NEW p \in Procs, TrustFails(p)
       PROVE  ForgetInv'
  BY <1>30, QuietStep DEF TrustFails
<1>31. ASSUME NEW p \in Procs, EditDrops(p)
       PROVE  ForgetInv'
  <2>1. \A t \in Things :
            \/ Fits(t, row)'
            \/ /\ Fits(t, row) => Fits(t, row)'
               /\ t \in strays => t \in strays'
               /\ Owes(p, t) => Owes(p, t)'
    BY <1>31
       DEF EditDrops, Unpool, BoxChanged, Owes, Fits, Things, IInv, TypeOK, StoreTypeOK,
           RequestTypeOK, StackInv
  <2>2. \A q \in Procs \ {p} : op'[q] = op[q] /\ pc'[q] = pc[q]
    <3>1. CASE Finish(p)
      BY <3>1
    <3>2. CASE ~Finish(p)
      BY <1>31, <3>2 DEF EditDrops, IInv, StackInv, Edits
    <3>3. QED
      BY <3>1, <3>2
  <2>3. UNCHANGED row
    BY <1>31 DEF EditDrops
  <2>4. QED
    BY <2>1, <2>2, <2>3, ForgetStep
<1>32. ASSUME NEW p \in Procs, ResetsReach(p)
       PROVE  ForgetInv'
  <2>1. \A t \in Things : row' # None =>
            \/ Fits(t, row)'
            \/ /\ Fits(t, row) => Fits(t, row)'
               /\ t \in strays => t \in strays'
               /\ Owes(p, t) => Owes(p, t)'
    BY <1>32
       DEF ResetsReach, SetReach, BoxChanged, Owes, Fits, Things, IInv, TypeOK, StoreTypeOK,
           RequestTypeOK, StackInv
  <2>2. QED
    BY <1>32, <2>1, ForgetStep DEF ResetsReach
<1>33. ASSUME NEW p \in Procs, Unpins(p)
       PROVE  ForgetInv'
  <2>1. \A t \in Things :
            \/ Fits(t, row)' \/ t \in strays'
            \/ /\ Fits(t, row) => Fits(t, row)'
               /\ t \in strays => t \in strays'
               /\ Owes(p, t) => Owes(p, t)'
    BY <1>33
       DEF Unpins, BoxChanged, Owes, Fits, Things, IInv, TypeOK, StoreTypeOK, RequestTypeOK,
           StackInv
  <2>2. QED
    BY <1>33, <2>1, ForgetStep DEF Unpins
<1>34. ASSUME NEW p \in Procs, Unlearns(p)
       PROVE  ForgetInv'
  <2>1. \A t \in Things :
            \/ Fits(t, row)' \/ t \in strays'
            \/ /\ Fits(t, row) => Fits(t, row)'
               /\ t \in strays => t \in strays'
               /\ Owes(p, t) => Owes(p, t)'
    BY <1>34
       DEF Unlearns, BoxChanged, Owes, Fits, Things, IInv, TypeOK, StoreTypeOK, RequestTypeOK,
           StackInv
  <2>2. QED
    BY <1>34, <2>1, ForgetStep DEF Unlearns
<1>35. ASSUME NEW p \in Procs, TrustWrites(p)
       PROVE  ForgetInv'
  <2>1. \A t \in Things :
            \/ Fits(t, row)' \/ t \in strays' \/ Owes(p, t)'
            \/ /\ Fits(t, row) => Fits(t, row)'
               /\ t \in strays => t \in strays'
    BY <1>35
       DEF TrustWrites, Drops, Owes, BoxChanged, Fits, Things, IInv, TypeOK, StoreTypeOK,
           RequestTypeOK, StackInv
  <2>2. \A t \in Things : ~Owes(p, t)
    BY <1>35 DEF TrustWrites, Owes
  <2>3. QED
    BY <1>35, <2>1, <2>2, ForgetStep DEF TrustWrites, Drops
<1>36. ASSUME NEW p \in Procs, Removes(p)
       PROVE  ForgetInv'
  BY <1>36 DEF Removes, ForgetInv, Forgotten
<1>37. ASSUME NEW p \in Procs, CredentialGoes(p)
       PROVE  ForgetInv'
  <2>1. \A t \in Things : row' # None =>
            \/ Fits(t, row)' \/ t \in strays' \/ Owes(p, t)'
            \/ /\ Fits(t, row) => Fits(t, row)'
               /\ t \in strays => t \in strays'
    BY <1>37
       DEF CredentialGoes, Listed, Drops, Owes, BoxChanged, Fits, Things, Rows, IInv, TypeOK,
           StoreTypeOK, RequestTypeOK, StackInv
  <2>2. \A t \in Things : ~Owes(p, t)
    BY <1>37 DEF CredentialGoes, Owes
  <2>3. QED
    BY <1>37, <2>1, <2>2, ForgetStep DEF CredentialGoes, Drops
\* The world.
<1>38. ASSUME NEW b \in Boxes, Rekey(b)
       PROVE  ForgetInv'
  BY <1>38 DEF Rekey, procs, ForgetInv, Forgotten, Fits, Owes, BoxChanged
<1>39. CASE LinkBreaks
  BY <1>39 DEF LinkBreaks, Unpool, procs, ForgetInv, Forgotten, Fits, Owes, BoxChanged, Things
<1>40. CASE UNCHANGED vars
  BY <1>40 DEF vars, procs, ForgetInv, Forgotten, Fits, Owes, BoxChanged
<1>41. QED
  BY <1>1, <1>2, <1>3, <1>4, <1>5, <1>6, <1>7, <1>8, <1>9, <1>10, <1>11, <1>12, <1>13,
     <1>14, <1>15, <1>16, <1>17, <1>18, <1>19, <1>20, <1>21, <1>22, <1>23, <1>24, <1>25,
     <1>26, <1>27, <1>28, <1>29, <1>30, <1>31, <1>32, <1>33, <1>34, <1>35, <1>36, <1>37,
     <1>38, <1>39, <1>40
     DEF Next, Start, CallStep, EditStep

\* Every step of every request keeps it, whatever overlaps.
THEOREM ForgetInvariance == Spec => []ForgetInv
<1>1. QED
  BY InitForget, ForgetPreserved, Invariance, PTL DEF Spec

\* "Just drop the pooled connection so nothing keeps running under the old
\* identity" (handlers.go:167), for requests of every kind that overlap in any
\* way: a pooled connection is of the row's box, login and pinned key, or the
\* edit that made it old has yet to drop it, or an edit had overtaken the
\* request that pooled it (what the run identity_stale_pool shows).
THEOREM OldConnectionsGo == Spec => []OldConnectionsAreDropped
<1>1. ForgetInv => OldConnectionsAreDropped
  BY DEF ForgetInv, OldConnectionsAreDropped, Things
<1>2. QED
  BY ForgetInvariance, <1>1, PTL

\* Everything learned from the old host is forgotten (queries.go:284), whatever
\* overlaps: pin, pending change, facts and reach state are of the box the row
\* points at, or an edit has yet to forget them, or they were of another box
\* when they were written.
THEOREM OldBoxGoes == Spec => []OldBoxIsForgotten
<1>1. ForgetInv => OldBoxIsForgotten
  BY DEF ForgetInv, OldBoxIsForgotten, Things
<1>2. QED
  BY ForgetInvariance, <1>1, PTL
=============================================================================

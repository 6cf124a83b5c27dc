--------------------------- MODULE SessionsProofs ---------------------------
(***************************************************************************)
(* For any number of tabs on one connection: what a handler that has        *)
(* returned leaves behind. OverIsClosed is inductive beside the types: only *)
(* OpenWorks opens a session, at a step that comes before "over", and what  *)
(* the world does to sessions touches those alone that are open.            *)
(***************************************************************************)
EXTENDS Sessions, TLAPS

IInv == TypeOK /\ OverIsClosed

LEMMA InitInv == Init => IInv
  BY DEF Init, IInv, TypeOK, OverIsClosed

\* The handler's own steps.
LEMMA HandlerStepInv ==
    ASSUME IInv, NEW s \in Sids, Upgrade(s) \/ HandlerStep(s)
    PROVE  IInv'
<1> USE DEF IInv, TypeOK, OverIsClosed, Goto, routines
<1>1. CASE Upgrade(s)
  BY <1>1 DEF Upgrade
<1>2. CASE RecordWorks(s)
  <2>1. TypeOK'
    BY <1>2 DEF RecordWorks, Starts
  <2>2. OverIsClosed'
    BY <1>2 DEF RecordWorks
  <2>3. QED
    BY <2>1, <2>2
<1>3. CASE RecordFails(s)
  BY <1>3 DEF RecordFails
<1>4. CASE OpenWorks(s)
  <2>1. TypeOK'
    BY <1>4 DEF OpenWorks, Starts
  <2>2. OverIsClosed'
    BY <1>4 DEF OpenWorks
  <2>3. QED
    BY <2>1, <2>2
<1>5. CASE OpenFails(s)
  BY <1>5 DEF OpenFails
<1>6. CASE Leave(s)
  <2>1. TypeOK'
    BY <1>6 DEF Leave
  <2>2. OverIsClosed'
    BY <1>6 DEF Leave
  <2>3. QED
    BY <2>1, <2>2
<1>7. CASE ScanLine(s)
  BY <1>7 DEF ScanLine, Takes
<1>8. CASE ScanTooLong(s)
  BY <1>8 DEF ScanTooLong
<1>9. CASE ScanEnds(s)
  BY <1>9 DEF ScanEnds
<1>10. CASE WriteWorks(s)
  BY <1>10 DEF WriteWorks
<1>11. CASE WriteFails(s)
  BY <1>11 DEF WriteFails
<1>12. CASE HangUp(s)
  BY <1>12 DEF HangUp
<1>13. QED
  BY <1>1, <1>2, <1>3, <1>4, <1>5, <1>6, <1>7, <1>8, <1>9, <1>10, <1>11, <1>12 DEF HandlerStep

\* The goroutines beside it.
LEMMA RoutineStepInv ==
    ASSUME IInv, NEW s \in Sids,
           ReaderStep(s) \/ CopierStep(s) \/ WaiterEnds(s) \/ Input(s) \/ Output(s)
    PROVE  IInv'
<1> USE DEF IInv, TypeOK, OverIsClosed, Cancels
<1>1. CASE ReaderEnds(s)
  BY <1>1 DEF ReaderEnds
<1>2. CASE InputSent(s)
  BY <1>2 DEF InputSent
<1>3. CASE CopierEnds(s)
  BY <1>3 DEF CopierEnds
<1>4. CASE OutputSent(s)
  BY <1>4 DEF OutputSent
<1>5. CASE WaiterEnds(s)
  BY <1>5 DEF WaiterEnds
<1>6. CASE Input(s)
  BY <1>6 DEF Input
<1>7. CASE Output(s)
  BY <1>7 DEF Output
<1>8. QED
  BY <1>1, <1>2, <1>3, <1>4, <1>5, <1>6, <1>7 DEF ReaderStep, CopierStep

\* What happens to a tab, a command or the connection.
LEMMA WorldStepInv ==
    ASSUME IInv, Drop \/ \E s \in Sids : BrowserLeaves(s) \/ CommandEnds(s)
    PROVE  IInv'
<1> USE DEF IInv, TypeOK, OverIsClosed, routines
<1>1. CASE Drop
  BY <1>1 DEF Drop
<1>2. CASE \E s \in Sids : BrowserLeaves(s)
  BY <1>2 DEF BrowserLeaves
<1>3. CASE \E s \in Sids : CommandEnds(s)
  BY <1>3 DEF CommandEnds
<1>4. QED
  BY <1>1, <1>2, <1>3

LEMMA NextInv == IInv /\ [Next]_vars => IInv'
<1> SUFFICES ASSUME IInv, [Next]_vars PROVE IInv'
  OBVIOUS
<1>1. CASE UNCHANGED vars
  BY <1>1 DEF vars, routines, IInv, TypeOK, OverIsClosed
<1>2. CASE Next
  BY <1>2, HandlerStepInv, RoutineStepInv, WorldStepInv DEF Next
<1>3. QED
  BY <1>1, <1>2

LEMMA Invariance == Spec => []IInv
  BY InitInv, NextInv, PTL DEF Spec

\* A handler, its goroutines and its session keep to their states.
THEOREM TypeCorrect == Spec => []TypeOK
<1>1. IInv => TypeOK
  BY DEF IInv
<1>2. QED
  BY Invariance, <1>1, PTL

\* No way out of streamAction or terminal leaves the session or the websocket
\* open, however many of them share the connection and whatever drops it.
THEOREM HandlersCleanUp == Spec => []OverIsClosed
<1>1. IInv => OverIsClosed
  BY DEF IInv
<1>2. QED
  BY Invariance, <1>1, PTL
=============================================================================

-------------------------- MODULE CloudSyncProofs --------------------------
(***************************************************************************)
(* What a sync is worth for any number of accounts, instances, machines and*)
(* requests, however they overlap.                                         *)
(*                                                                         *)
(* IInv adds to the types what a request still knows of what it read: a    *)
(* sync holds syncMu to its end, its complete list stands for every        *)
(* instance there was, and the element it is writing is on the list.       *)
(*                                                                         *)
(* The later sections ask what a row keeps while others write it           *)
(* (RowEffects). TableInv (an ID is given once, an instance has one row),  *)
(* ReadInv (what a sync's SELECT returned is still so, or it is noted that *)
(* it is not) and ForgetInv (what is still to be forgotten of an old       *)
(* address) hold whatever overlaps and whenever the process dies; ShowInv  *)
(* (how far a sync has come) needs that users keep off the table.          *)
(***************************************************************************)
EXTENDS CloudSync, TLAPS

AtRow == {"drop", "reset", "edit", "remove", "power", "ask", "store", "exec", "ok", "bad",
          "dropBad"}
AtList == {"account", "list", "item", "write", "result"}

\* Which operation comes to which step.
OpFits(op, at) ==
    /\ at = "idle" => op = "none"
    /\ at \in AtList => op = "sync"
    /\ at = "edit" => op = "update"
    /\ at = "remove" => op = "delete"
    /\ at \in {"power", "ask", "store"} => op = "power"
    /\ at \in {"exec", "ok", "bad", "dropBad"} => op = "check"
    /\ at = "drop" => op \in {"sync", "update", "delete", "power"}
    /\ at = "reset" => op \in {"sync", "update"}

\* Where a request stands tells what it holds.
JobFit(j) ==
    /\ OpFits(j.op, j.at)
    /\ j.op = "sync" => j.acct \in Accounts
    /\ j.at = "write" => j.inst \in Instances /\ \E e \in j.todo : e.inst = j.inst
    /\ j.at \in AtRow => j.id \in Machines
    /\ j.at = "edit" => j.form \in Forms
    /\ j.op = "power" => j.inst \in Instances
    /\ Complete /\ j.op = "sync" /\ j.at \notin {"account", "list"} =>
          \A i \in j.was : \E e \in j.list : e.inst = i

\* syncMu is held from the first statement of a sync to its last.
JobsOK ==
    /\ job \in [Procs -> Jobs]
    /\ \A p \in Procs : JobFit(job[p])
    /\ \A p \in Procs : job[p].op = "sync" => mu = p

LinkOK(r, accts) == r.acct \in accts \cup {None} /\ (r.acct = None <=> r.inst = None)

RowsOK ==
    /\ row \in [Machines -> Rows \cup {None}]
    /\ \A m \in Machines : row[m] # None => LinkOK(row[m], accounts)

RestOK ==
    /\ cloud \in [Instances -> Clouds \cup {None}]
    /\ changes \in 0..MaxChanges
    /\ accounts \subseteq acctIds /\ acctIds \subseteq Accounts
    /\ ids \subseteq Machines
    /\ pool \in [Machines -> Addresses \cup {None}]
    /\ mu \in Procs \cup {None}

IInv == JobsOK /\ RowsOK /\ RestOK

-----------------------------------------------------------------------------
(* One request moves, or one row is written.                               *)

LEMMA IdleFits == Idle \in Jobs /\ JobFit(Idle) /\ Idle.op = "none"
  BY DEF Idle, Jobs, Powers, JobFit, OpFits, AtList, AtRow

\* A request that keeps syncMu as it was: it does not become a sync.
LEMMA JobStep ==
    ASSUME JobsOK, NEW p \in Procs, NEW j \in Jobs, JobFit(j), job' = [job EXCEPT ![p] = j],
           mu' = mu, j.op = "sync" => job[p].op = "sync"
    PROVE  JobsOK'
  BY DEF JobsOK

LEMMA FinishStep ==
    ASSUME JobsOK, NEW p \in Procs, Finish(p), mu' = mu
    PROVE  JobsOK'
  BY JobStep, IdleFits DEF Finish

\* A sync that returns was the only one.
LEMMA UnlockStep ==
    ASSUME JobsOK, NEW p \in Procs, job[p].op = "sync", Unlock(p)
    PROVE  JobsOK' /\ mu' = None
  BY IdleFits DEF JobsOK, Unlock, Finish

LEMMA GotoStep ==
    ASSUME JobsOK, NEW p \in Procs, Goto(p, "list"), job[p].at = "account", mu' = mu
    PROVE  JobsOK'
<1> DEFINE j == [job[p] EXCEPT !.at = "list"]
<1>1. job[p] \in Jobs /\ JobFit(job[p])
  BY DEF JobsOK
<1>2. j \in Jobs /\ JobFit(j) /\ j.op = job[p].op
  BY <1>1 DEF Jobs, JobFit, OpFits, AtList, AtRow
<1>3. job' = [job EXCEPT ![p] = j]
  BY DEF Goto
<1>4. QED
  BY <1>2, <1>3, JobStep

\* The same for the places after the list was read.
LEMMA GotoOn ==
    ASSUME JobsOK, NEW p \in Procs,
           NEW w \in {"item", "drop", "reset", "result", "remove", "ask", "bad", "dropBad"},
           Goto(p, w), mu' = mu, job[p].at \notin {"account", "list"},
           OpFits(job[p].op, w), w \in AtRow => job[p].id \in Machines
    PROVE  JobsOK'
<1> DEFINE j == [job[p] EXCEPT !.at = w]
<1>1. job[p] \in Jobs /\ JobFit(job[p])
  BY DEF JobsOK
<1>2. j \in Jobs /\ j.op = job[p].op
  BY <1>1 DEF Jobs
<1>3. JobFit(j)
  BY <1>1 DEF Jobs, JobFit, OpFits, AtList, AtRow
<1>4. job' = [job EXCEPT ![p] = j]
  BY DEF Goto
<1>5. QED
  BY <1>2, <1>3, <1>4, JobStep

\* A request that goes on with its machine only.
LEMMA GoesOnStep ==
    ASSUME JobsOK, NEW p \in Procs, NEW w \in {"drop", "dropBad"}, GoesOn(p, w), mu' = mu,
           OpFits(job[p].op, w), job[p].op \in {"update", "check"}, job[p].id \in Machines
    PROVE  JobsOK' /\ job'[p] = [Idle EXCEPT !.op = job[p].op, !.at = w, !.id = job[p].id]
<1> DEFINE j == [Idle EXCEPT !.op = job[p].op, !.at = w, !.id = job[p].id]
<1>1. job[p] \in Jobs
  BY DEF JobsOK
<1>2. job[p].op \in Kinds \cup {"none"} /\ w \in {"drop", "dropBad"}
  BY <1>1 DEF Jobs
<1>3. j \in Jobs
  BY <1>2, IdleFits DEF Jobs
<1>4. j.op = job[p].op
  BY DEF Idle
<1>5. JobFit(j)
  BY <1>1, IdleFits DEF Idle, JobFit, OpFits, AtList, AtRow
<1>6. job' = [job EXCEPT ![p] = j]
  BY DEF GoesOn
<1>7. job'[p] = j
  BY <1>6 DEF JobsOK
<1>8. JobsOK'
  BY <1>3, <1>4, <1>5, <1>6, JobStep
<1>9. QED
  BY <1>7, <1>8

\* A check has its answer.
LEMMA CheckedStep ==
    ASSUME JobsOK, NEW p \in Procs, job[p].at = "exec", mu' = mu,
           NEW w \in {"ok", "bad"}, NEW a \in Addresses \cup {None},
           job' = [job EXCEPT ![p] = [@ EXCEPT !.at = w, !.host = None, !.pub = a]]
    PROVE  /\ JobsOK' /\ job'[p].at = w /\ job'[p].pub = a
           /\ job'[p].op = "check" /\ job'[p].id = job[p].id
<1> DEFINE j == [job[p] EXCEPT !.at = w, !.host = None, !.pub = a]
<1>1. job[p] \in Jobs /\ JobFit(job[p])
  BY DEF JobsOK
<1>2. job[p].op = "check"
  BY <1>1 DEF JobFit, OpFits
<1>3. j \in Jobs
  BY <1>1 DEF Jobs
<1>4. j.at = w /\ j.pub = a /\ j.op = "check" /\ j.id = job[p].id
  BY <1>1, <1>2 DEF Jobs
<1>5. JobFit(j)
  BY <1>1, <1>2 DEF Jobs, JobFit, OpFits, AtList, AtRow
<1>6. job' = [job EXCEPT ![p] = j]
  OBVIOUS
<1> HIDE DEF j
<1>7. job'[p] = j
  BY <1>6 DEF JobsOK
<1>8. JobsOK'
  BY <1>2, <1>3, <1>4, <1>5, <1>6, JobStep
<1>9. QED
  BY <1>4, <1>7, <1>8

LEMMA ReachedFits ==
    ASSUME JobsOK, RestOK, NEW p \in Procs, job[p].at = "exec"
    PROVE  Reached(p) \in Addresses \cup {None} /\ job[p].id \in Machines
BY DEF JobsOK, JobFit, AtRow, Jobs, RestOK, Reached

LEMMA ItemIsListed ==
    ASSUME JobsOK, NEW p \in Procs, job[p].at = "write"
    PROVE  Item(p) \in job[p].todo /\ Item(p) \in Listed
<1>1. job[p].todo \subseteq Listed
  BY DEF JobsOK, Jobs
<1>2. \E e \in job[p].todo : e.inst = job[p].inst
  BY DEF JobsOK, JobFit, OpFits
<1>3. QED
  BY <1>1, <1>2 DEF Item

LEMMA NextItemStep ==
    ASSUME JobsOK, NEW p \in Procs, job[p].at = "write", NEW w \in {"item", "drop"},
           NextItem(p, w), w = "drop" => job[p].id \in Machines, mu' = mu
    PROVE  JobsOK'
<1> DEFINE j == [job[p] EXCEPT !.at = w, !.todo = job[p].todo \ {Item(p)},
                               !.inst = None, !.host = None, !.pub = None]
<1>1. job[p] \in Jobs /\ JobFit(job[p])
  BY DEF JobsOK
<1>2. j \in Jobs /\ j.op = job[p].op
  BY <1>1 DEF Jobs
<1>3. JobFit(j)
  BY <1>1 DEF Jobs, JobFit, OpFits, AtList, AtRow
<1>4. job' = [job EXCEPT ![p] = j]
  BY DEF NextItem
<1>5. QED
  BY <1>2, <1>3, <1>4, JobStep

LEMMA SelectFits ==
    ASSUME NEW b \in Jobs, JobFit(b), b.at = "item", NEW j,
           j = [b EXCEPT !.at = "write", !.inst = j.inst, !.id = j.id, !.host = j.host,
                         !.pub = j.pub],
           \E e \in b.todo : e.inst = j.inst, j.inst \in Instances, j.id \in Machines \cup {None},
           j.host \in Addresses \cup {None}, j.pub \in Addresses \cup {None}
    PROVE  j \in Jobs /\ JobFit(j) /\ j.op = b.op
<1>1. /\ j.at = "write" /\ j.op = b.op /\ j.acct = b.acct
      /\ j.todo = b.todo /\ j.list = b.list /\ j.was = b.was
  BY DEF Jobs
<1>2. j \in Jobs
  BY DEF Jobs
<1>3. JobFit(j)
  <2>1. j.op = "sync" /\ j.acct \in Accounts
    BY <1>1 DEF JobFit, OpFits, AtList
  <2>2. Complete => \A i \in j.was : \E e \in j.list : e.inst = i
    BY <1>1, <2>1 DEF JobFit, OpFits
  <2>3. QED
    BY <1>1, <2>1, <2>2 DEF JobFit, OpFits, AtList, AtRow
<1>4. QED
  BY <1>1, <1>2, <1>3

\* A statement that writes one row, or none.
LEMMA RowStep ==
    ASSUME RowsOK, NEW m \in Machines, NEW r \in Rows \cup {None}, r # None => LinkOK(r, accounts),
           row' = [row EXCEPT ![m] = r], accounts' = accounts
    PROVE  RowsOK'
  BY DEF RowsOK

LEMMA RowsKept ==
    ASSUME RowsOK, row' = row, accounts' = accounts
    PROVE  RowsOK'
  BY DEF RowsOK

LEMMA RowOfMachine ==
    ASSUME RowsOK, NEW m \in Machines, Exists(m)
    PROVE  row[m] \in Rows /\ LinkOK(row[m], accounts) /\ row[m] # None
  BY DEF RowsOK, Exists

LEMMA SetReachStep ==
    ASSUME RowsOK, NEW m \in Machines, NEW s \in {"unknown", "ok", "bad"},
           NEW a \in Addresses \cup {None}, SetReach(m, s, a), accounts' = accounts
    PROVE  RowsOK'
<1>1. CASE ~Exists(m)
  BY <1>1, RowsKept DEF SetReach
<1>2. CASE Exists(m)
  <2> DEFINE r == [row[m] EXCEPT !.reach = s, !.of = a]
  <2>1. row[m] \in Rows /\ LinkOK(row[m], accounts)
    BY <1>2, RowOfMachine
  <2>2. r \in Rows /\ LinkOK(r, accounts)
    BY <2>1 DEF Rows, LinkOK
  <2>3. row' = [row EXCEPT ![m] = r]
    BY <1>2 DEF SetReach
  <2>4. QED
    BY <2>2, <2>3, RowStep
<1>3. QED
  BY <1>1, <1>2

-----------------------------------------------------------------------------
LEMMA InitInv == Init => IInv
<1> SUFFICES ASSUME Init PROVE IInv
  OBVIOUS
<1>1. JobsOK
  BY IdleFits DEF Init, JobsOK
<1>2. RowsOK
  BY DEF Init, RowsOK
<1>3. RestOK
  BY CloudSyncAssumption DEF Init, RestOK, Clouds, Powers
<1>4. QED
  BY <1>1, <1>2, <1>3 DEF IInv

LEMMA InductiveStep == IInv /\ [Next]_vars => IInv'
<1> SUFFICES ASSUME IInv, [Next]_vars PROVE IInv'
  OBVIOUS
<1>1. ASSUME NEW p \in Procs, "sync" \in Kinds, NEW a \in acctIds, StartSync(p, a)
      PROVE  IInv'
  <2> DEFINE j == [Idle EXCEPT !.op = "sync", !.at = "account", !.acct = a]
  <2>1. a \in Accounts
    BY <1>1, RowOfMachine, CloudSyncAssumption DEF StartSync, IInv, RestOK
  <2>2. j \in Jobs
    BY <1>1, <2>1, IdleFits DEF Jobs
  <2>3. JobFit(j)
    BY <1>1, <2>1, IdleFits DEF Idle, JobFit, OpFits, AtList, AtRow
  <2>4. JobsOK'
    BY <1>1, <2>2, <2>3, CloudSyncAssumption DEF StartSync, JobsOK, IInv
  <2>5. RowsOK' /\ RestOK'
    BY <1>1, RowsKept DEF StartSync, RestOK, IInv, db, tables
  <2>6. QED
    BY <2>4, <2>5 DEF IInv
<1>2. ASSUME NEW p \in Procs, FindsAccount(p)
      PROVE  IInv'
  <2>1. JobsOK'
    BY <1>2, GotoStep DEF FindsAccount, At, IInv
  <2>2. RowsOK'
    BY <1>2, RowsKept DEF FindsAccount, IInv, db, tables
  <2>3. RestOK'
    BY <1>2 DEF FindsAccount, RestOK, IInv, db, tables
  <2>4. QED
    BY <2>1, <2>2, <2>3 DEF IInv
<1>3. ASSUME NEW p \in Procs, NoProvider(p)
      PROVE  IInv'
  <2>1. job[p] \in Jobs /\ JobFit(job[p])
    BY <1>3 DEF IInv, JobsOK
  <2>2. JobsOK'
    BY <1>3, <2>1, UnlockStep DEF NoProvider, IInv, At, JobFit, OpFits, AtList
  <2>3. RowsOK'
    BY <1>3, RowsKept DEF NoProvider, IInv, db, tables
  <2>4. RestOK'
    BY <1>3 DEF NoProvider, RestOK, IInv, Unlock, db, tables
  <2>5. QED
    BY <2>2, <2>3, <2>4 DEF IInv
<1>4. ASSUME NEW p \in Procs, ListFails(p)
      PROVE  IInv'
  <2>1. job[p] \in Jobs /\ JobFit(job[p])
    BY <1>4 DEF IInv, JobsOK
  <2>2. JobsOK'
    BY <1>4, <2>1, UnlockStep DEF ListFails, IInv, At, JobFit, OpFits, AtList
  <2>3. RowsOK'
    BY <1>4, RowsKept DEF ListFails, IInv, db, tables
  <2>4. RestOK'
    BY <1>4 DEF ListFails, RestOK, IInv, Unlock, db, tables
  <2>5. QED
    BY <2>2, <2>3, <2>4 DEF IInv
<1>5. ASSUME NEW p \in Procs, ListWorks(p)
     PROVE  IInv'
  <2>1. job[p] \in Jobs /\ JobFit(job[p]) /\ job[p].at = "list"
    BY <1>5 DEF ListWorks, At, IInv, JobsOK
  <2>2. PICK some \in (IF Complete THEN {There} ELSE SUBSET There) :
           LET list == {[inst |-> i, power |-> cloud[i].power, ip |-> cloud[i].ip] : i \in some}
           IN  job' = [job EXCEPT ![p] =
                          [@ EXCEPT !.at = "item", !.list = list, !.todo = list, !.was = There]]
    BY <1>5 DEF ListWorks
  <2> DEFINE list == {[inst |-> i, power |-> cloud[i].power, ip |-> cloud[i].ip] : i \in some}
             j == [job[p] EXCEPT !.at = "item", !.list = list, !.todo = list, !.was = There]
  <2>3. some \subseteq There /\ (Complete => some = There)
    BY <2>2
  <2>4. \A i \in There : i \in Instances /\ cloud[i] \in Clouds
    BY DEF There, IInv, RestOK
  <2>5. list \in SUBSET Listed /\ There \in SUBSET Instances
    BY <2>3, <2>4 DEF Listed, Clouds
  <2>6. Complete => \A i \in There : \E e \in list : e.inst = i
    <3>1. SUFFICES ASSUME Complete, NEW i \in There PROVE \E e \in list : e.inst = i
      OBVIOUS
    <3> DEFINE e == [inst |-> i, power |-> cloud[i].power, ip |-> cloud[i].ip]
    <3>2. e \in list /\ e.inst = i
      BY <2>3, <3>1
    <3>3. QED
      BY <3>2
  <2> HIDE DEF list
  <2>7. j \in Jobs /\ j.op = job[p].op
    BY <2>1, <2>5 DEF Jobs
  <2>8. JobFit(j)
    BY <2>1, <2>6 DEF Jobs, JobFit, OpFits, AtList, AtRow
  <2>9. job' = [job EXCEPT ![p] = j]
    BY <2>2 DEF list
  <2>10. JobsOK'
    BY <1>5, <2>7, <2>8, <2>9, JobStep DEF ListWorks, IInv
  <2>11. RowsOK' /\ RestOK'
    BY <1>5, RowsKept DEF ListWorks, RestOK, IInv, db, tables
  <2>12. QED
    BY <2>10, <2>11 DEF IInv
<1>6. ASSUME NEW p \in Procs, NEW e \in job[p].todo, Selects(p, e)
     PROVE  IInv'
  <2> DEFINE found == Linked(job[p].acct, e.inst)
             m == CHOOSE x \in found : TRUE
             h == IF found = {} THEN None ELSE row[m].host
             u == IF found = {} THEN None ELSE row[m].pub
             d == IF found = {} THEN None ELSE m
             j == [job[p] EXCEPT !.at = "write", !.inst = e.inst, !.id = d, !.host = h, !.pub = u]
  <2>1. job[p] \in Jobs /\ JobFit(job[p]) /\ job[p].at = "item"
    BY <1>6 DEF Selects, At, IInv, JobsOK
  <2>2. e.inst \in Instances
    BY <2>1 DEF Jobs, Listed
  <2>3. found # {} => m \in Machines /\ Exists(m)
    BY DEF Linked
  <2>4. d \in Machines \cup {None}
    BY <2>3
  <2>5. found # {} => row[m] \in Rows
    BY <2>3, RowOfMachine DEF IInv
  <2>6. h \in Addresses \cup {None} /\ u \in Addresses \cup {None}
    BY <2>5 DEF Rows
  <2>7. job' = [job EXCEPT ![p] = j]
    BY <1>6 DEF Selects
  <2> HIDE DEF h, u, d
  <2>8. j \in Jobs /\ JobFit(j) /\ j.op = job[p].op
    <3>1. j.inst = e.inst /\ j.id = d /\ j.host = h /\ j.pub = u
      BY <2>1 DEF Jobs
    <3>2. j = [job[p] EXCEPT !.at = "write", !.inst = j.inst, !.id = j.id, !.host = j.host,
                             !.pub = j.pub]
      BY <3>1
    <3>3. \E x \in job[p].todo : x.inst = j.inst
      BY <3>1
    <3> HIDE DEF j
    <3>4. QED
      BY <2>1, <2>2, <2>4, <2>6, <3>1, <3>2, <3>3, SelectFits
  <2>9. JobsOK'
    BY <1>6, <2>7, <2>8, JobStep DEF Selects, IInv
  <2>10. RowsOK' /\ RestOK'
    BY <1>6, RowsKept DEF Selects, RestOK, IInv, db, tables
  <2>11. QED
    BY <2>9, <2>10 DEF IInv
<1>7. ASSUME NEW p \in Procs, NEW m \in Machines, Inserts(p, m)
     PROVE  IInv'
  <2> DEFINE r == [acct |-> job[p].acct, inst |-> job[p].inst, power |-> Item(p).power,
                   pub |-> Item(p).ip, host |-> Item(p).ip, missing |-> FALSE,
                   reach |-> "unknown", of |-> None]
  <2>1. JobsOK'
    BY <1>7, NextItemStep DEF Inserts, At, IInv
  <2>2. Item(p) \in Listed /\ job[p].inst \in Instances /\ job[p].acct \in accounts
    BY <1>7, ItemIsListed DEF Inserts, At, IInv, JobsOK, JobFit, OpFits
  <2>3. r \in Rows /\ LinkOK(r, accounts)
    BY <2>2, CloudSyncAssumption DEF Rows, Listed, LinkOK, IInv, RestOK
  <2>4. RowsOK'
    BY <1>7, <2>3, RowStep DEF Inserts, IInv
  <2>5. RestOK'
    BY <1>7 DEF Inserts, RestOK, IInv
  <2>6. QED
    BY <2>1, <2>4, <2>5 DEF IInv
<1>8. ASSUME NEW p \in Procs, InsertFails(p)
      PROVE  IInv'
  <2>1. job[p] \in Jobs /\ JobFit(job[p])
    BY <1>8 DEF IInv, JobsOK
  <2>2. JobsOK'
    BY <1>8, <2>1, UnlockStep DEF InsertFails, IInv, At, JobFit, OpFits, AtList
  <2>3. RowsOK'
    BY <1>8, RowsKept DEF InsertFails, IInv, db, tables
  <2>4. RestOK'
    BY <1>8 DEF InsertFails, RestOK, IInv, Unlock, db, tables
  <2>5. QED
    BY <2>2, <2>3, <2>4 DEF IInv
<1>9. ASSUME NEW p \in Procs, Refreshes(p)
     PROVE  IInv'
  <2> DEFINE m == job[p].id
             h == IF Follows(p) THEN Item(p).ip ELSE job[p].host
             r == [row[m] EXCEPT !.power = Item(p).power, !.pub = Item(p).ip, !.host = h,
                                 !.missing = FALSE]
  <2>1. job[p] \in Jobs /\ job[p].at = "write" /\ m \in Machines
    BY <1>9 DEF Refreshes, At, IInv, JobsOK, Jobs
  <2>2. JobsOK'
    BY <1>9, <2>1, NextItemStep DEF Refreshes, IInv
  <2>3. Item(p) \in Listed
    BY <2>1, ItemIsListed DEF IInv
  <2>4. h \in Addresses \cup {None} /\ Item(p).power \in Powers
                                   /\ Item(p).ip \in Addresses \cup {None}
    BY <2>1, <2>3 DEF Listed, Jobs
  <2>5. RowsOK'
    <3>1. CASE ~Exists(m)
      BY <1>9, <3>1, RowsKept DEF Refreshes, IInv
    <3>2. CASE Exists(m)
      <4>1. row[m] \in Rows /\ LinkOK(row[m], accounts)
        BY <2>1, <3>2, RowOfMachine DEF IInv
      <4>2. row' = [row EXCEPT ![m] = r]
        BY <1>9, <3>2 DEF Refreshes
      <4> HIDE DEF h
      <4>3. r \in Rows /\ LinkOK(r, accounts)
        BY <2>4, <4>1 DEF Rows, LinkOK
      <4>4. QED
        BY <1>9, <2>1, <4>2, <4>3, RowStep DEF Refreshes, IInv
    <3>3. QED
      BY <3>1, <3>2
  <2>6. RestOK'
    BY <1>9 DEF Refreshes, RestOK, IInv
  <2>7. QED
    BY <2>2, <2>5, <2>6 DEF IInv
<1>10. ASSUME NEW p \in Procs, Marks(p)
      PROVE  IInv'
  <2>1. JobsOK'
    BY <1>10, GotoOn DEF Marks, At, IInv, JobsOK, JobFit, OpFits, AtList, AtRow
  <2>2. ASSUME NEW m \in Machines
        PROVE  row'[m] \in Rows \cup {None} /\ (row'[m] # None => LinkOK(row'[m], accounts'))
    <3>1. row'[m] \in {row[m], [row[m] EXCEPT !.missing = TRUE]} /\ accounts' = accounts
      BY <1>10 DEF Marks
    <3>2. CASE Exists(m)
      <4>1. row[m] \in Rows /\ LinkOK(row[m], accounts)
        BY <3>2, RowOfMachine DEF IInv
      <4>2. [row[m] EXCEPT !.missing = TRUE] \in Rows
            /\ LinkOK([row[m] EXCEPT !.missing = TRUE], accounts)
        BY <4>1 DEF Rows, LinkOK
      <4>3. QED
        BY <3>1, <4>1, <4>2
    <3>3. CASE ~Exists(m)
      BY <1>10, <3>3 DEF Marks, Exists
    <3>4. QED
      BY <3>2, <3>3
  <2>3. RowsOK'
    BY <1>10, <2>2 DEF Marks, RowsOK
  <2>4. RestOK'
    BY <1>10 DEF Marks, RestOK, IInv
  <2>5. QED
    BY <2>1, <2>3, <2>4 DEF IInv
<1>11. ASSUME NEW p \in Procs, Records(p)
       PROVE  IInv'
  <2>1. job[p] \in Jobs /\ JobFit(job[p])
    BY <1>11 DEF IInv, JobsOK
  <2>2. JobsOK'
    BY <1>11, <2>1, UnlockStep DEF Records, IInv, At, JobFit, OpFits, AtList
  <2>3. RowsOK'
    BY <1>11, RowsKept DEF Records, IInv, db, tables
  <2>4. RestOK'
    BY <1>11 DEF Records, RestOK, IInv, Unlock, db, tables
  <2>5. QED
    BY <2>2, <2>3, <2>4 DEF IInv
<1>12. ASSUME NEW p \in Procs, Drops(p)
       PROVE  IInv'
  <2>1. job[p] \in Jobs /\ JobFit(job[p])
    BY <1>12 DEF IInv, JobsOK
  <2>2. JobsOK'
    BY <1>12, <2>1, GotoOn DEF JobFit, OpFits, AtList, At, Drops, IInv, AtRow
  <2>3. RowsOK'
    BY <1>12, RowsKept DEF Drops, IInv, tables
  <2>4. RestOK'
    BY <1>12 DEF Drops, Unpool, RestOK, IInv, tables
  <2>5. QED
    BY <2>2, <2>3, <2>4 DEF IInv
<1>13. ASSUME NEW p \in Procs, Resets(p)
      PROVE  IInv'
  <2>1. job[p] \in Jobs /\ JobFit(job[p]) /\ job[p].at = "reset" /\ job[p].id \in Machines
    BY <1>13 DEF Resets, At, IInv, JobsOK, JobFit, OpFits, AtRow
  <2>2. JobsOK'
    BY <1>13, <2>1, GotoOn, FinishStep DEF JobFit, OpFits, AtList, At, Resets, IInv, AtRow
  <2>3. RowsOK'
    BY <1>13, <2>1, SetReachStep DEF Resets, IInv
  <2>4. RestOK'
    BY <1>13 DEF Resets, RestOK, IInv
  <2>5. QED
    BY <2>2, <2>3, <2>4 DEF IInv
<1>14. ASSUME NEW p \in Procs, "update" \in Kinds, NEW m \in Machines, NEW f \in Forms,
              StartUpdate(p, m, f)
       PROVE  IInv'
  <2> DEFINE j == [Idle EXCEPT !.op = "update", !.at = "edit", !.id = m,
                                 !.host = row[m].host, !.form = f]
  <2>1. row[m].host \in Addresses \cup {None}
    BY <1>14, RowOfMachine, CloudSyncAssumption DEF StartUpdate, IInv, Rows
  <2>2. j \in Jobs
    BY <1>14, <2>1, IdleFits DEF Jobs
  <2>3. JobFit(j)
    BY <1>14, <2>1, IdleFits DEF Idle, JobFit, OpFits, AtList, AtRow
  <2>4. JobsOK'
    BY <1>14, <2>2, <2>3, JobStep DEF StartUpdate, Idle, IInv
  <2>5. RowsOK' /\ RestOK'
    BY <1>14, RowsKept DEF StartUpdate, RestOK, IInv, db, tables
  <2>6. QED
    BY <2>4, <2>5 DEF IInv
<1>15. ASSUME NEW p \in Procs, UpdateWrites(p)
      PROVE  IInv'
  <2> DEFINE m == job[p].id
             f == job[p].form
             r == [row[m] EXCEPT !.host = f.host, !.acct = f.link.acct, !.inst = f.link.inst]
  <2>1. job[p] \in Jobs /\ JobFit(job[p]) /\ job[p].at = "edit" /\ m \in Machines /\ f \in Forms
    BY <1>15 DEF UpdateWrites, At, IInv, JobsOK, JobFit, OpFits, AtRow
  <2>2. JobsOK'
    BY <1>15, <2>1, GoesOnStep, FinishStep DEF JobFit, OpFits, AtList, At, UpdateWrites, IInv, AtRow
  <2>3. f.host \in Addresses \cup {None} /\ f.link \in Links \cup {NoLink}
    BY <2>1 DEF Forms
  <2>4. /\ f.link.acct \in Accounts \cup {None} /\ f.link.inst \in Instances \cup {None}
        /\ f.link.acct = None <=> f.link.inst = None
    BY <2>3, CloudSyncAssumption DEF Links, NoLink
  <2>5. RowsOK'
    <3>1. CASE ~Exists(m)
      BY <1>15, <3>1, RowsKept DEF UpdateWrites, IInv
    <3>2. CASE Exists(m)
      <4>1. row[m] \in Rows
        BY <2>1, <3>2, RowOfMachine DEF IInv
      <4>2. row' = [row EXCEPT ![m] = r] /\ f.link.acct \in accounts \cup {None}
        BY <1>15, <3>2 DEF UpdateWrites, Refused
      <4>3. r \in Rows /\ LinkOK(r, accounts)
        BY <2>3, <2>4, <4>1, <4>2 DEF Rows, LinkOK
      <4>4. QED
        BY <1>15, <2>1, <4>2, <4>3, RowStep DEF UpdateWrites, IInv
    <3>3. QED
      BY <3>1, <3>2
  <2>6. RestOK'
    BY <1>15 DEF UpdateWrites, RestOK, IInv
  <2>7. QED
    BY <2>2, <2>5, <2>6 DEF IInv
<1>16. ASSUME NEW p \in Procs, UpdateFails(p)
       PROVE  IInv'
  <2>1. JobsOK'
    BY <1>16, FinishStep DEF UpdateFails, IInv
  <2>2. RowsOK'
    BY <1>16, RowsKept DEF UpdateFails, IInv, db, tables
  <2>3. RestOK'
    BY <1>16 DEF UpdateFails, RestOK, IInv, db, tables
  <2>4. QED
    BY <2>1, <2>2, <2>3 DEF IInv
<1>17. ASSUME NEW p \in Procs, NEW m \in Machines, NEW f \in Forms, Creates(p, m, f)
      PROVE  IInv'
  <2> DEFINE r == [acct |-> f.link.acct, inst |-> f.link.inst, power |-> "unknown", pub |-> None,
                   host |-> f.host, missing |-> FALSE, reach |-> "unknown", of |-> None]
  <2>1. f.host \in Addresses \cup {None} /\ f.link \in Links \cup {NoLink}
    BY DEF Forms
  <2>2. /\ f.link.acct \in Accounts \cup {None} /\ f.link.inst \in Instances \cup {None}
        /\ f.link.acct = None <=> f.link.inst = None
    BY <2>1, CloudSyncAssumption DEF Links, NoLink
  <2>3. r \in Rows /\ LinkOK(r, accounts)
    BY <1>17, <2>1, <2>2 DEF Creates, Rows, LinkOK
  <2>4. RowsOK'
    BY <1>17, <2>3, RowStep DEF Creates, IInv
  <2>5. JobsOK' /\ RestOK'
    BY <1>17 DEF Creates, JobsOK, RestOK, IInv
  <2>6. QED
    BY <2>4, <2>5 DEF IInv
<1>18. ASSUME NEW p \in Procs, "delete" \in Kinds, NEW m \in Machines, StartDelete(p, m)
       PROVE  IInv'
  <2> DEFINE j == [Idle EXCEPT !.op = "delete", !.at = "drop", !.id = m]
  <2>1. j \in Jobs
    BY <1>18, IdleFits DEF Jobs
  <2>2. JobFit(j)
    BY <1>18, IdleFits DEF Idle, JobFit, OpFits, AtList, AtRow
  <2>3. JobsOK'
    BY <1>18, <2>1, <2>2, JobStep DEF StartDelete, Idle, IInv
  <2>4. RowsOK' /\ RestOK'
    BY <1>18, RowsKept DEF StartDelete, RestOK, IInv, db, tables
  <2>5. QED
    BY <2>3, <2>4 DEF IInv
<1>19. ASSUME NEW p \in Procs, Removes(p)
      PROVE  IInv'
  <2>1. job[p].id \in Machines
    BY <1>19 DEF Removes, At, IInv, JobsOK, JobFit, OpFits, AtRow
  <2>2. JobsOK'
    BY <1>19, FinishStep DEF Removes, IInv
  <2>3. RowsOK'
    BY <1>19, <2>1, RowStep DEF Removes, IInv
  <2>4. RestOK'
    BY <1>19 DEF Removes, RestOK, IInv
  <2>5. QED
    BY <2>2, <2>3, <2>4 DEF IInv
<1>20. ASSUME NEW p \in Procs, NEW a \in Accounts, CreatesAccount(p, a)
      PROVE  IInv'
  <2>1. JobsOK' /\ RestOK'
    BY <1>20 DEF CreatesAccount, JobsOK, RestOK, IInv
  <2>2. RowsOK'
    BY <1>20 DEF CreatesAccount, RowsOK, LinkOK, IInv
  <2>3. QED
    BY <2>1, <2>2 DEF IInv
<1>21. ASSUME NEW p \in Procs, NEW a \in Accounts, DeletesAccount(p, a)
      PROVE  IInv'
  <2>1. JobsOK' /\ RestOK'
    BY <1>21 DEF DeletesAccount, JobsOK, RestOK, IInv
  <2>2. ASSUME NEW m \in Machines
        PROVE  row'[m] \in Rows \cup {None} /\ (row'[m] # None => LinkOK(row'[m], accounts'))
    <3>1. CASE ~Exists(m)
      BY <1>21, <3>1 DEF DeletesAccount, Exists
    <3>2. CASE Exists(m) /\ row[m].acct = a
      <4>1. row'[m] = Stripped(row[m]) /\ row[m] \in Rows
        BY <1>21, <3>2, RowOfMachine DEF DeletesAccount, IInv
      <4>2. Stripped(row[m]) \in Rows /\ LinkOK(Stripped(row[m]), accounts')
        BY <4>1 DEF Stripped, Rows, LinkOK
      <4>3. QED
        BY <4>1, <4>2
    <3>3. CASE Exists(m) /\ row[m].acct # a
      BY <1>21, <3>3, RowOfMachine DEF DeletesAccount, LinkOK, IInv
    <3>4. QED
      BY <3>1, <3>2, <3>3
  <2>3. RowsOK'
    BY <1>21, <2>2 DEF DeletesAccount, RowsOK
  <2>4. QED
    BY <2>1, <2>3 DEF IInv
<1>22. ASSUME NEW p \in Procs, "power" \in Kinds, NEW m \in Machines, StartPower(p, m)
       PROVE  IInv'
  <2> DEFINE j == [Idle EXCEPT !.op = "power", !.at = "power", !.id = m,
                                 !.acct = row[m].acct, !.inst = row[m].inst]
  <2>1. row[m].acct \in Accounts /\ row[m].inst \in Instances
    BY <1>22, RowOfMachine, CloudSyncAssumption DEF StartPower, LinkOK, IInv, Rows
  <2>2. j \in Jobs
    BY <1>22, <2>1, IdleFits DEF Jobs
  <2>3. JobFit(j)
    BY <1>22, <2>1, IdleFits DEF Idle, JobFit, OpFits, AtList, AtRow
  <2>4. JobsOK'
    BY <1>22, <2>2, <2>3, JobStep DEF StartPower, Idle, IInv
  <2>5. RowsOK' /\ RestOK'
    BY <1>22, RowsKept DEF StartPower, RestOK, IInv, db, tables
  <2>6. QED
    BY <2>4, <2>5 DEF IInv
<1>23. ASSUME NEW p \in Procs, PowerFails(p)
       PROVE  IInv'
  <2>1. JobsOK'
    BY <1>23, FinishStep DEF PowerFails, IInv
  <2>2. RowsOK'
    BY <1>23, RowsKept DEF PowerFails, IInv, db, tables
  <2>3. RestOK'
    BY <1>23 DEF PowerFails, RestOK, IInv, db, tables
  <2>4. QED
    BY <2>1, <2>2, <2>3 DEF IInv
<1>24. ASSUME NEW p \in Procs, PowerWorks(p)
       PROVE  IInv'
  <2>1. job[p] \in Jobs /\ JobFit(job[p]) /\ job[p].at = "power" /\ job[p].id \in Machines
                         /\ job[p].inst \in Instances
    BY <1>24 DEF PowerWorks, At, IInv, JobsOK, JobFit, OpFits, AtRow
  <2>2. cloud' \in [Instances -> Clouds \cup {None}] /\ changes' \in 0..MaxChanges
    BY <1>24, <2>1, CloudSyncAssumption
    DEF PowerWorks, Changes, Stopped, Started, Clouds, Powers, IInv, RestOK
  <2>3. JobsOK'
    BY <1>24, <2>1, GotoOn, FinishStep DEF JobFit, OpFits, AtList, At, PowerWorks, IInv, AtRow
  <2>4. RowsOK'
    BY <1>24, RowsKept DEF PowerWorks, IInv, db, tables
  <2>5. RestOK'
    BY <1>24, <2>2 DEF PowerWorks, RestOK, IInv, db, tables
  <2>6. QED
    BY <2>3, <2>4, <2>5 DEF IInv
<1>25. ASSUME NEW p \in Procs, PowerAsks(p)
      PROVE  IInv'
  <2> DEFINE i == job[p].inst
             j == [job[p] EXCEPT !.at = "store", !.power = cloud[i].power]
  <2>1. job[p] \in Jobs /\ JobFit(job[p]) /\ job[p].at = "ask" /\ job[p].id \in Machines
                         /\ i \in Instances /\ mu' = mu
    BY <1>25 DEF PowerAsks, At, IInv, JobsOK, JobFit, OpFits, AtRow
  <2>2. JobsOK'
    <3>1. CASE Finish(p)
      BY <1>25, <3>1, FinishStep DEF PowerAsks, IInv
    <3>2. CASE cloud[i] # None /\ job' = [job EXCEPT ![p] = j]
      <4>1. cloud[i].power \in Powers
        BY <2>1, <3>2 DEF IInv, RestOK, Clouds
      <4>2. j \in Jobs /\ j.op = job[p].op
        BY <2>1, <4>1 DEF Jobs
      <4>3. JobFit(j)
        BY <2>1 DEF Jobs, JobFit, OpFits, AtList, AtRow
      <4> HIDE DEF j
      <4>4. QED
        BY <2>1, <3>2, <4>2, <4>3, JobStep DEF IInv
    <3>3. QED
      BY <1>25, <3>1, <3>2 DEF PowerAsks
  <2>3. RowsOK' /\ RestOK'
    BY <1>25, RowsKept DEF PowerAsks, RestOK, IInv, db, tables
  <2>4. QED
    BY <2>2, <2>3 DEF IInv
<1>26. ASSUME NEW p \in Procs, PowerStores(p)
      PROVE  IInv'
  <2> DEFINE m == job[p].id
             r == [row[m] EXCEPT !.power = job[p].power]
  <2>1. job[p] \in Jobs /\ m \in Machines
    BY <1>26 DEF PowerStores, At, IInv, JobsOK, JobFit, OpFits, AtRow
  <2>2. JobsOK'
    BY <1>26, FinishStep DEF PowerStores, IInv
  <2>3. RowsOK'
    <3>1. CASE ~Exists(m)
      BY <1>26, <3>1, RowsKept DEF PowerStores, IInv
    <3>2. CASE Exists(m)
      <4>1. row[m] \in Rows /\ LinkOK(row[m], accounts)
        BY <2>1, <3>2, RowOfMachine DEF IInv
      <4>2. r \in Rows /\ LinkOK(r, accounts)
        BY <2>1, <4>1 DEF Rows, LinkOK, Jobs
      <4>3. QED
        BY <1>26, <2>1, <3>2, <4>2, RowStep DEF PowerStores, IInv
    <3>3. QED
      BY <3>1, <3>2
  <2>4. RestOK'
    BY <1>26 DEF PowerStores, RestOK, IInv
  <2>5. QED
    BY <2>2, <2>3, <2>4 DEF IInv
<1>27. ASSUME NEW p \in Procs, "check" \in Kinds, NEW m \in Machines, StartCheck(p, m)
       PROVE  IInv'
  <2> DEFINE j == [Idle EXCEPT !.op = "check", !.at = "exec", !.id = m, !.host = row[m].host]
  <2>1. row[m].host \in Addresses \cup {None}
    BY <1>27, RowOfMachine, CloudSyncAssumption DEF StartCheck, IInv, Rows
  <2>2. j \in Jobs
    BY <1>27, <2>1, IdleFits DEF Jobs
  <2>3. JobFit(j)
    BY <1>27, <2>1, IdleFits DEF Idle, JobFit, OpFits, AtList, AtRow
  <2>4. JobsOK'
    BY <1>27, <2>2, <2>3, JobStep DEF StartCheck, Idle, IInv
  <2>5. RowsOK' /\ RestOK'
    BY <1>27, RowsKept DEF StartCheck, RestOK, IInv, db, tables
  <2>6. QED
    BY <2>4, <2>5 DEF IInv
<1>28. ASSUME NEW p \in Procs, CheckWorks(p)
      PROVE  IInv'
  <2>1. Reached(p) \in Addresses \cup {None} /\ job[p].id \in Machines
    BY <1>28, ReachedFits DEF CheckWorks, At, IInv
  <2>2. JobsOK'
    BY <1>28, <2>1, CheckedStep DEF CheckWorks, At, IInv
  <2>3. RowsOK'
    BY <1>28, RowsKept DEF CheckWorks, IInv, tables
  <2>4. RestOK'
    BY <1>28, <2>1 DEF CheckWorks, RestOK, IInv, tables
  <2>5. QED
    BY <2>2, <2>3, <2>4 DEF IInv
<1>29. ASSUME NEW p \in Procs, CheckFails(p)
       PROVE  IInv'
  <2>1. Reached(p) \in Addresses \cup {None}
    BY <1>29, ReachedFits DEF CheckFails, At, IInv
  <2>2. JobsOK'
    BY <1>29, <2>1, CheckedStep DEF CheckFails, At, IInv
  <2>3. RowsOK'
    BY <1>29, RowsKept DEF CheckFails, IInv, db, tables
  <2>4. RestOK'
    BY <1>29 DEF CheckFails, RestOK, IInv, db, tables
  <2>5. QED
    BY <2>2, <2>3, <2>4 DEF IInv
<1>30. ASSUME NEW p \in Procs, ReachOK(p)
       PROVE  IInv'
  <2>1. job[p] \in Jobs /\ job[p].id \in Machines
    BY <1>30 DEF ReachOK, At, IInv, JobsOK, JobFit, OpFits, AtRow
  <2>2. JobsOK'
    BY <1>30, FinishStep DEF ReachOK, IInv
  <2>3. RowsOK'
    BY <1>30, <2>1, SetReachStep DEF ReachOK, IInv, Jobs
  <2>4. RestOK'
    BY <1>30 DEF ReachOK, RestOK, IInv
  <2>5. QED
    BY <2>2, <2>3, <2>4 DEF IInv
<1>31. ASSUME NEW p \in Procs, ReachBad(p)
       PROVE  IInv'
  <2>1. job[p] \in Jobs /\ job[p].id \in Machines /\ job[p].op = "check"
    BY <1>31 DEF ReachBad, At, IInv, JobsOK, JobFit, OpFits, AtRow
  <2>2. JobsOK'
    BY <1>31, <2>1, GoesOnStep DEF OpFits, AtList, At, ReachBad, IInv, AtRow
  <2>3. RowsOK'
    BY <1>31, <2>1, SetReachStep DEF ReachBad, IInv, Jobs
  <2>4. RestOK'
    BY <1>31 DEF ReachBad, RestOK, IInv
  <2>5. QED
    BY <2>2, <2>3, <2>4 DEF IInv
<1>32. ASSUME NEW p \in Procs, DropBad(p)
       PROVE  IInv'
  <2>1. JobsOK'
    BY <1>32, FinishStep DEF DropBad, IInv
  <2>2. RowsOK'
    BY <1>32, RowsKept DEF DropBad, IInv, tables
  <2>3. RestOK'
    BY <1>32 DEF DropBad, Unpool, RestOK, IInv, tables
  <2>4. QED
    BY <2>1, <2>2, <2>3 DEF IInv
<1>33. ASSUME NEW i \in Instances, CloudChanges(i)
       PROVE  IInv'
  <2>1. cloud' \in [Instances -> Clouds \cup {None}] /\ changes' \in 0..MaxChanges
    BY <1>33, CloudSyncAssumption DEF CloudChanges, Changes, Stopped, Clouds, Powers, IInv, RestOK
  <2>2. JobsOK' /\ RowsOK'
    BY <1>33, RowsKept DEF CloudChanges, JobsOK, IInv, db, tables
  <2>3. RestOK'
    BY <1>33, <2>1 DEF CloudChanges, RestOK, IInv, db, tables
  <2>4. QED
    BY <2>2, <2>3 DEF IInv
<1>34. CASE Crash
  <2>1. JobsOK'
    BY <1>34, IdleFits DEF Crash, JobsOK
  <2>2. RowsOK'
    BY <1>34, RowsKept DEF Crash, IInv, tables
  <2>3. changes' \in 0..MaxChanges
    BY <1>34, CloudSyncAssumption DEF Crash, RestOK, IInv
  <2>4. RestOK'
    BY <1>34, <2>3 DEF Crash, RestOK, IInv, tables
  <2>5. QED
    BY <2>1, <2>2, <2>4 DEF IInv
<1>35. CASE UNCHANGED vars
  BY <1>35, RowsKept DEF vars, db, tables, IInv, JobsOK, RestOK
<1>36. QED
  BY <1>1, <1>2, <1>3, <1>4, <1>5, <1>6, <1>7, <1>8, <1>9, <1>10, <1>11, <1>12, <1>13,
     <1>14, <1>15, <1>16, <1>17, <1>18, <1>19, <1>20, <1>21, <1>22, <1>23, <1>24, <1>25,
     <1>26, <1>27, <1>28, <1>29, <1>30, <1>31, <1>32, <1>33, <1>34, <1>35
     DEF Next, Start, SyncStep, Step

-----------------------------------------------------------------------------
\* IInv holds of every reachable state; the theorems below rest on it.
THEOREM Invariance == Spec => []IInv
<1>1. QED
  BY InitInv, InductiveStep, PTL DEF Spec

StraysOK == strays \in [Machines -> SUBSET Things]

LEMMA WritesStep ==
    ASSUME StraysOK, NEW m, NEW ts, NEW wrong \in SUBSET Things, Writes(m, ts, wrong)
    PROVE  StraysOK'
  BY DEF StraysOK, Writes

LEMMA StraysStep == IInv /\ StraysOK /\ [Next]_vars => StraysOK'
<1> SUFFICES ASSUME IInv, StraysOK, [Next]_vars PROVE StraysOK'
  OBVIOUS
<1>1. CASE strays' = strays
  BY <1>1 DEF StraysOK
<1>2. \A m, host : Overtaken(m, host) \in SUBSET Things
  BY DEF Overtaken, Things
<1>3. ASSUME NEW m, NEW s, NEW a, SetReach(m, s, a) PROVE StraysOK'
  BY <1>1, <1>3, WritesStep DEF SetReach, Things
<1>4. ASSUME NEW m, Unpool(m) PROVE StraysOK'
  BY <1>4, WritesStep DEF Unpool
<1>5. ASSUME NEW p \in Procs, Start(p) PROVE StraysOK'
  <2>1. CASE \E a \in Accounts : DeletesAccount(p, a)
    BY <2>1 DEF DeletesAccount, StraysOK, Things
  <2>2. QED
    BY <1>1, <1>5, <2>1
    DEF Start, StartSync, StartUpdate, StartDelete, Creates, CreatesAccount, StartPower, StartCheck,
        db
<1>6. ASSUME NEW p \in Procs, SyncStep(p) PROVE StraysOK'
  <2>1. CASE Refreshes(p)
    BY <1>2, <2>1, WritesStep DEF Refreshes
  <2>2. QED
    BY <1>1, <1>6, <2>1
    DEF SyncStep, FindsAccount, NoProvider, ListFails, ListWorks, Selects, Inserts, InsertFails,
        Marks, Records, db
<1>7. ASSUME NEW p \in Procs, Step(p) PROVE StraysOK'
  <2>1. CASE UpdateWrites(p)
    <3> DEFINE m == job[p].id
               f == job[p].form
               w == (IF f.host # job[p].host THEN {} ELSE Overtaken(m, f.host))
                       \cup (IF Found(m) /\ Exists(m) /\ ~Has(row[m], f.link)
                             THEN {"link"} ELSE {})
    <3>1. Writes(m, {}, w)
      BY <2>1 DEF UpdateWrites
    <3>2. w \in SUBSET Things
      BY <1>2 DEF Things
    <3> HIDE DEF w
    <3>3. QED
      BY <3>1, <3>2, WritesStep
  <2>2. CASE Removes(p)
    BY <2>2, WritesStep DEF Removes
  <2>3. CASE CheckWorks(p)
    BY <2>3, WritesStep DEF CheckWorks, Things
  <2>4. QED
    BY <1>1, <1>3, <1>4, <1>7, <2>1, <2>2, <2>3
    DEF Step, Drops, Resets, UpdateFails, PowerFails, PowerWorks, PowerAsks, PowerStores,
        CheckFails, ReachOK, ReachBad, DropBad, db
<1>8. CASE Crash
  BY <1>8 DEF Crash, StraysOK, Things
<1>9. CASE UNCHANGED vars \/ \E i \in Instances : CloudChanges(i)
  BY <1>1, <1>9 DEF vars, CloudChanges, db
<1>10. QED
  BY <1>5, <1>6, <1>7, <1>8, <1>9 DEF Next

\* The tables and the stacks keep their types; in particular a row never names
\* an account that is gone, and has an account if and only if it has an
\* instance, although deleteAccount runs beside a sync and beside the form.
THEOREM TypeCorrect == Spec => []TypeOK
<1>1. IInv /\ StraysOK => TypeOK
  BY DEF IInv, JobsOK, RowsOK, RestOK, StraysOK, LinkOK, TypeOK
<1>2. Init => StraysOK
  BY DEF Init, StraysOK
<1>3. QED
  BY Invariance, StraysStep, <1>1, <1>2, PTL DEF Spec

-----------------------------------------------------------------------------
(* What each step does to the rows, field by field. r are the rows before, *)
(* s the rows after.                                                       *)

KeepsRows(r, s) == \A x \in Machines : r[x] = None <=> s[x] = None
KeepsHosts(r, s) ==
    \A x \in Machines : r[x] # None /\ s[x] # None => s[x].host = r[x].host /\ s[x].pub = r[x].pub
KeepsLinks(r, s) ==
    \A x \in Machines : r[x] # None /\ s[x] # None => s[x].acct = r[x].acct /\ s[x].inst = r[x].inst
KeepsFlags(r, s) ==
    \A x \in Machines : r[x] # None /\ s[x] # None => s[x].missing = r[x].missing
KeepsReach(r, s) ==
    \A x \in Machines : r[x] # None /\ s[x] # None => s[x].reach = r[x].reach /\ s[x].of = r[x].of

Keeps(r, s) == KeepsRows(r, s) /\ KeepsHosts(r, s) /\ KeepsLinks(r, s) /\ KeepsFlags(r, s)

\* Row m is written, and no other.
OnlyRow(r, s, m) == \A x \in Machines : x # m => s[x] = r[x]

LEMMA SameKeeps == ASSUME row' = row PROVE Keeps(row, row') /\ KeepsReach(row, row')
  BY DEF Keeps, KeepsRows, KeepsHosts, KeepsLinks, KeepsFlags, KeepsReach

LEMMA WrittenRow ==
    ASSUME RowsOK, NEW m \in Machines, NEW r, row' = [row EXCEPT ![m] = r]
    PROVE  OnlyRow(row, row', m) /\ row'[m] = r
  BY DEF RowsOK, OnlyRow

LEMMA SetReachEffect ==
    ASSUME RowsOK, NEW m \in Machines, NEW s \in {"unknown", "ok", "bad"},
           NEW a \in Addresses \cup {None}, SetReach(m, s, a)
    PROVE  /\ Keeps(row, row') /\ OnlyRow(row, row', m)
           /\ Exists(m) => row'[m].reach = s /\ row'[m].of = a
<1>1. CASE ~Exists(m)
  BY <1>1, SameKeeps DEF SetReach, OnlyRow
<1>2. CASE Exists(m)
  <2> DEFINE r == [row[m] EXCEPT !.reach = s, !.of = a]
  <2>1. row[m] \in Rows /\ row[m] # None
    BY <1>2, RowOfMachine
  <2>2. /\ r.host = row[m].host /\ r.pub = row[m].pub /\ r.acct = row[m].acct
        /\ r.inst = row[m].inst /\ r.missing = row[m].missing /\ r.reach = s /\ r.of = a
    BY <2>1 DEF Rows
  <2>3. r \in Rows
    BY <2>1 DEF Rows
  <2>4. row' = [row EXCEPT ![m] = r]
    BY <1>2 DEF SetReach
  <2> HIDE DEF r
  <2>5. OnlyRow(row, row', m) /\ row'[m] = r /\ r # None
    BY <2>3, <2>4, WrittenRow, CloudSyncAssumption
  <2>6. QED
    BY <2>1, <2>2, <2>5 DEF OnlyRow, Keeps, KeepsRows, KeepsHosts, KeepsLinks, KeepsFlags
<1>3. QED
  BY <1>1, <1>2

LEMMA PowerStoresEffect ==
    ASSUME IInv, NEW p \in Procs, PowerStores(p)
    PROVE  Keeps(row, row') /\ KeepsReach(row, row')
<1> DEFINE m == job[p].id
           r == [row[m] EXCEPT !.power = job[p].power]
<1>1. CASE ~Exists(m)
  BY <1>1, SameKeeps DEF PowerStores
<1>2. CASE Exists(m)
  <2>1. m \in Machines
    BY DEF PowerStores, At, IInv, JobsOK, JobFit, AtRow
  <2>2. row[m] \in Rows /\ row[m] # None /\ job[p].power \in Powers \cup {"unknown"}
    BY <1>2, <2>1, RowOfMachine DEF IInv, JobsOK, Jobs
  <2>3. /\ r.host = row[m].host /\ r.pub = row[m].pub /\ r.acct = row[m].acct
        /\ r.inst = row[m].inst /\ r.missing = row[m].missing
        /\ r.reach = row[m].reach /\ r.of = row[m].of
    BY <2>2 DEF Rows
  <2>4. r \in Rows /\ r # None
    BY <2>2, CloudSyncAssumption DEF Rows
  <2>5. OnlyRow(row, row', m) /\ row'[m] = r
    BY <1>2, <2>1, WrittenRow DEF PowerStores, IInv
  <2> HIDE DEF r
  <2>6. QED
    BY <2>2, <2>3, <2>4, <2>5
    DEF OnlyRow, Keeps, KeepsRows, KeepsHosts, KeepsLinks, KeepsFlags, KeepsReach
<1>3. QED
  BY <1>1, <1>2

LEMMA RefreshesEffect ==
    ASSUME IInv, NEW p \in Procs, Refreshes(p)
    PROVE  /\ OnlyRow(row, row', job[p].id) /\ KeepsRows(row, row') /\ KeepsLinks(row, row')
           /\ KeepsReach(row, row')
           /\ Exists(job[p].id) =>
                 /\ row'[job[p].id].pub = Item(p).ip /\ row'[job[p].id].missing = FALSE
                 /\ row'[job[p].id].host = IF Follows(p) THEN Item(p).ip ELSE job[p].host
<1> DEFINE m == job[p].id
           h == IF Follows(p) THEN Item(p).ip ELSE job[p].host
           r == [row[m] EXCEPT !.power = Item(p).power, !.pub = Item(p).ip, !.host = h,
                               !.missing = FALSE]
<1>1. CASE ~Exists(m)
  BY <1>1, SameKeeps DEF Refreshes, OnlyRow, Keeps
<1>2. CASE Exists(m)
  <2>1. m \in Machines /\ job[p].at = "write" /\ job[p] \in Jobs
    BY DEF Refreshes, At, IInv, JobsOK, Jobs
  <2>2. row[m] \in Rows /\ row[m] # None
    BY <1>2, <2>1, RowOfMachine DEF IInv
  <2>3. Item(p) \in Listed
    BY <2>1, ItemIsListed DEF IInv
  <2>4. h \in Addresses \cup {None}
    BY <2>1, <2>3 DEF Listed, Jobs
  <2>5. /\ r.host = h /\ r.pub = Item(p).ip /\ r.acct = row[m].acct
        /\ r.inst = row[m].inst /\ r.missing = FALSE /\ r.reach = row[m].reach /\ r.of = row[m].of
    BY <2>2 DEF Rows
  <2>6. r \in Rows
    BY <2>2, <2>3, <2>4 DEF Rows, Listed
  <2>7. row' = [row EXCEPT ![m] = r]
    BY <1>2 DEF Refreshes
  <2> HIDE DEF r, h
  <2>8. OnlyRow(row, row', m) /\ row'[m] = r /\ r # None
    BY <2>1, <2>6, <2>7, WrittenRow, CloudSyncAssumption DEF IInv
  <2>9. OnlyRow(row, row', m) /\ KeepsRows(row, row') /\ KeepsLinks(row, row')
        /\ KeepsReach(row, row')
    BY <2>2, <2>5, <2>8 DEF OnlyRow, KeepsRows, KeepsLinks, KeepsReach
  <2>10. QED
    BY <2>5, <2>9, <2>8 DEF h
<1>3. QED
  BY <1>1, <1>2

LEMMA MarksEffect ==
    ASSUME IInv, NEW p \in Procs, Marks(p)
    PROVE  /\ KeepsRows(row, row') /\ KeepsHosts(row, row') /\ KeepsLinks(row, row')
           /\ KeepsReach(row, row')
           /\ \A m \in Machines : Exists(m) =>
                 (row'[m].missing <=>
                     \/ row[m].missing
                     \/ /\ row[m].acct = job[p].acct
                        /\ row[m].inst \notin {e.inst : e \in job[p].list} \cup {None})
<1> DEFINE f(m) == /\ Exists(m) /\ row[m].acct = job[p].acct
                   /\ row[m].inst \notin {e.inst : e \in job[p].list} \cup {None}
<1>1. ASSUME NEW m \in Machines
      PROVE  row'[m] = IF f(m) THEN [row[m] EXCEPT !.missing = TRUE] ELSE row[m]
  BY DEF Marks
<1>2. ASSUME NEW m \in Machines, Exists(m)
      PROVE  /\ row[m] # None /\ row'[m] # None
             /\ row'[m].host = row[m].host /\ row'[m].pub = row[m].pub
             /\ row'[m].acct = row[m].acct /\ row'[m].inst = row[m].inst
             /\ row'[m].reach = row[m].reach /\ row'[m].of = row[m].of
             /\ row'[m].missing <=> row[m].missing \/ f(m)
  <2> DEFINE r == [row[m] EXCEPT !.missing = TRUE]
  <2>1. row[m] \in Rows /\ row[m] # None
    BY <1>2, RowOfMachine DEF IInv
  <2>2. /\ r \in Rows /\ r.host = row[m].host /\ r.pub = row[m].pub /\ r.acct = row[m].acct
        /\ r.inst = row[m].inst /\ r.reach = row[m].reach /\ r.of = row[m].of /\ r.missing
    BY <2>1 DEF Rows
  <2>3. r # None
    BY <2>2, CloudSyncAssumption
  <2>4. row'[m] = IF f(m) THEN r ELSE row[m]
    BY <1>1
  <2> HIDE DEF r, f
  <2>5. QED
    BY <2>1, <2>2, <2>3, <2>4
<1>3. ASSUME NEW m \in Machines, ~Exists(m)
      PROVE  row'[m] = None
  BY <1>1, <1>3 DEF Exists
<1>4. QED
  BY <1>2, <1>3 DEF KeepsRows, KeepsHosts, KeepsLinks, KeepsReach, Exists

LEMMA DeletesAccountEffect ==
    ASSUME IInv, NEW p \in Procs, NEW a \in Accounts, DeletesAccount(p, a)
    PROVE  /\ KeepsRows(row, row') /\ KeepsHosts(row, row') /\ KeepsReach(row, row')
           /\ \A m \in Machines : Exists(m) =>
                 \/ row'[m].acct = None /\ row'[m].inst = None /\ ~row'[m].missing
                 \/ row'[m] = row[m]
<1>1. ASSUME NEW m \in Machines, Exists(m)
      PROVE  /\ row[m] # None /\ row'[m] # None
             /\ row'[m].host = row[m].host /\ row'[m].pub = row[m].pub
             /\ row'[m].reach = row[m].reach /\ row'[m].of = row[m].of
             /\ \/ row'[m].acct = None /\ row'[m].inst = None /\ ~row'[m].missing
                \/ row'[m] = row[m]
  <2>1. row[m] \in Rows /\ row[m] # None
    BY <1>1, RowOfMachine DEF IInv
  <2>2. /\ Stripped(row[m]) \in Rows /\ Stripped(row[m]).host = row[m].host
        /\ Stripped(row[m]).pub = row[m].pub /\ Stripped(row[m]).reach = row[m].reach
        /\ Stripped(row[m]).of = row[m].of /\ Stripped(row[m]).acct = None
        /\ Stripped(row[m]).inst = None /\ ~Stripped(row[m]).missing
    BY <2>1 DEF Stripped, Rows
  <2>3. Stripped(row[m]) # None
    BY <2>2, CloudSyncAssumption
  <2>4. row'[m] = Stripped(row[m]) \/ row'[m] = row[m]
    BY DEF DeletesAccount
  <2>5. QED
    BY <2>1, <2>2, <2>3, <2>4
<1>2. ASSUME NEW m \in Machines, ~Exists(m)
      PROVE  row'[m] = None
  BY <1>2 DEF DeletesAccount, Exists
<1>3. QED
  BY <1>1, <1>2 DEF KeepsRows, KeepsHosts, KeepsReach, Exists

LEMMA UpdateWritesEffect ==
    ASSUME IInv, NEW p \in Procs, UpdateWrites(p)
    PROVE  /\ OnlyRow(row, row', job[p].id) /\ KeepsRows(row, row') /\ KeepsReach(row, row')
           /\ KeepsFlags(row, row')
           /\ Exists(job[p].id) =>
                 /\ row'[job[p].id].host = job[p].form.host
                 /\ row'[job[p].id].acct = job[p].form.link.acct
                 /\ row'[job[p].id].inst = job[p].form.link.inst
                 /\ row'[job[p].id].pub = row[job[p].id].pub
<1> DEFINE m == job[p].id
           f == job[p].form
           r == [row[m] EXCEPT !.host = f.host, !.acct = f.link.acct, !.inst = f.link.inst]
<1>1. CASE ~Exists(m)
  BY <1>1, SameKeeps DEF UpdateWrites, OnlyRow, Keeps
<1>2. CASE Exists(m)
  <2>1. m \in Machines /\ f \in Forms
    BY DEF UpdateWrites, At, IInv, JobsOK, JobFit, AtRow
  <2>2. row[m] \in Rows /\ row[m] # None
    BY <1>2, <2>1, RowOfMachine DEF IInv
  <2>3. /\ f.host \in Addresses \cup {None} /\ f.link.acct \in Accounts \cup {None}
        /\ f.link.inst \in Instances \cup {None}
    BY <2>1 DEF Forms, Links, NoLink
  <2>4. /\ r.host = f.host /\ r.acct = f.link.acct /\ r.inst = f.link.inst /\ r.pub = row[m].pub
        /\ r.reach = row[m].reach /\ r.of = row[m].of /\ r.missing = row[m].missing
    BY <2>2 DEF Rows
  <2>5. r \in Rows
    BY <2>2, <2>3 DEF Rows
  <2>6. row' = [row EXCEPT ![m] = r]
    BY <1>2 DEF UpdateWrites
  <2> HIDE DEF r
  <2>7. OnlyRow(row, row', m) /\ row'[m] = r /\ r # None
    BY <2>1, <2>5, <2>6, WrittenRow, CloudSyncAssumption DEF IInv
  <2>8. QED
    BY <2>2, <2>4, <2>7 DEF OnlyRow, KeepsRows, KeepsReach, KeepsFlags
<1>3. QED
  BY <1>1, <1>2

\* A row that was not there.
LEMMA InsertsEffect ==
    ASSUME IInv, NEW p \in Procs, NEW m \in Machines, Inserts(p, m)
    PROVE  /\ OnlyRow(row, row', m) /\ row'[m] # None
           /\ row'[m].acct = job[p].acct /\ row'[m].inst = job[p].inst /\ row'[m].pub = Item(p).ip
           /\ row'[m].missing = FALSE /\ row'[m].reach = "unknown"
<1> DEFINE r == [acct |-> job[p].acct, inst |-> job[p].inst, power |-> Item(p).power,
                 pub |-> Item(p).ip, host |-> Item(p).ip, missing |-> FALSE,
                 reach |-> "unknown", of |-> None]
<1>1. OnlyRow(row, row', m) /\ row'[m] = r
  BY WrittenRow DEF Inserts, IInv
<1>2. Item(p) \in Listed /\ job[p].inst \in Instances /\ job[p].acct \in Accounts
  BY ItemIsListed DEF Inserts, At, IInv, JobsOK, JobFit, OpFits, AtList
<1>3. r \in Rows
  BY <1>2 DEF Rows, Listed
<1>4. r # None
  BY <1>3, CloudSyncAssumption
<1>5. QED
  BY <1>1, <1>4

LEMMA CreatesEffect ==
    ASSUME IInv, NEW p \in Procs, NEW m \in Machines, NEW f \in Forms, Creates(p, m, f)
    PROVE  /\ OnlyRow(row, row', m) /\ row'[m] # None
           /\ row'[m].acct = f.link.acct /\ row'[m].inst = f.link.inst
           /\ row'[m].missing = FALSE /\ row'[m].reach = "unknown"
<1> DEFINE r == [acct |-> f.link.acct, inst |-> f.link.inst, power |-> "unknown", pub |-> None,
                 host |-> f.host, missing |-> FALSE, reach |-> "unknown", of |-> None]
<1>1. OnlyRow(row, row', m) /\ row'[m] = r
  BY WrittenRow DEF Creates, IInv
<1>2. /\ f.host \in Addresses \cup {None} /\ f.link.acct \in Accounts \cup {None}
      /\ f.link.inst \in Instances \cup {None}
  BY DEF Forms, Links, NoLink
<1>3. r \in Rows
  BY <1>2 DEF Rows
<1>4. r # None
  BY <1>3, CloudSyncAssumption
<1>5. QED
  BY <1>1, <1>4

LEMMA RemovesEffect ==
    ASSUME IInv, NEW p \in Procs, Removes(p)
    PROVE  OnlyRow(row, row', job[p].id) /\ row'[job[p].id] = None /\ job[p].id \in Machines
<1>1. job[p].id \in Machines
  BY DEF Removes, At, IInv, JobsOK, JobFit, AtRow
<1>2. QED
  BY <1>1, WrittenRow DEF Removes, IInv

\* Every other step leaves what a sync reads and writes alone.
RowWriter ==
    \/ \E p \in Procs : Refreshes(p) \/ Marks(p) \/ UpdateWrites(p) \/ Removes(p)
    \/ \E p \in Procs, m \in Machines : Inserts(p, m)
    \/ \E p \in Procs, m \in Machines, f \in Forms : "create" \in Kinds /\ Creates(p, m, f)
    \/ \E p \in Procs, a \in Accounts : "account" \in Kinds /\ DeletesAccount(p, a)

LEMMA RowEffects ==
    ASSUME IInv, [Next]_vars
    PROVE  RowWriter \/ (Keeps(row, row') /\ ids' = ids)
<1>1. ASSUME NEW p \in Procs, Start(p)
      PROVE  RowWriter \/ (row' = row /\ ids' = ids)
  BY <1>1
  DEF Start, StartSync, StartUpdate, StartDelete, StartPower, StartCheck, CreatesAccount, db,
      tables, RowWriter
<1>2. ASSUME NEW p \in Procs, SyncStep(p)
      PROVE  RowWriter \/ (row' = row /\ ids' = ids)
  BY <1>2
  DEF SyncStep, FindsAccount, NoProvider, ListFails, ListWorks, Selects, InsertFails, Records, db,
      tables, RowWriter
<1>3. ASSUME NEW p \in Procs, Step(p)
      PROVE  RowWriter \/ (Keeps(row, row') /\ ids' = ids)
  <2>1. CASE Resets(p) \/ ReachOK(p) \/ ReachBad(p)
    <3>1. /\ job[p].id \in Machines /\ job[p].pub \in Addresses \cup {None}
          /\ job[p].host \in Addresses \cup {None}
      BY <2>1 DEF Resets, ReachOK, ReachBad, At, IInv, JobsOK, Jobs, JobFit, AtRow
    <3>2. QED
      BY <2>1, <3>1, SetReachEffect DEF Resets, ReachOK, ReachBad, IInv
  <2>2. CASE PowerStores(p)
    BY <2>2, PowerStoresEffect DEF PowerStores
  <2>3. QED
    BY <1>3, <2>1, <2>2, SameKeeps
    DEF Step, Drops, UpdateFails, PowerFails, PowerWorks, PowerAsks, CheckWorks, CheckFails,
        DropBad, db, tables, RowWriter
<1>4. CASE UNCHANGED vars \/ Crash \/ \E i \in Instances : CloudChanges(i)
  BY <1>4, SameKeeps DEF vars, db, tables, Crash, CloudChanges
<1>5. QED
  BY <1>1, <1>2, <1>3, <1>4, SameKeeps DEF Next

-----------------------------------------------------------------------------
(* Only Marks flags a row, only Inserts, Creates and UpdateWrites link one.*)

FlagsNone ==
    \A m \in Machines : Exists(m) /\ row'[m] # None /\ row'[m].missing => row[m].missing

LinksNone ==
    \A m \in Machines : row'[m] # None /\ row'[m].acct # None =>
        Exists(m) /\ row'[m].acct = row[m].acct /\ row'[m].inst = row[m].inst

LEMMA OnlyMarksFlags ==
    ASSUME IInv, [Next]_vars
    PROVE  FlagsNone \/ \E p \in Procs : Marks(p)
<1>1. ASSUME KeepsFlags(row, row') PROVE FlagsNone
  BY <1>1 DEF KeepsFlags, FlagsNone, Exists
<1>2. ASSUME NEW m \in Machines \cup {None}, OnlyRow(row, row', m),
             row'[m] = None \/ ~row'[m].missing
      PROVE  FlagsNone
  BY <1>2 DEF OnlyRow, FlagsNone
<1>3. ASSUME NEW p \in Procs, Refreshes(p) PROVE FlagsNone
  <2>1. job[p].id \in Machines
    BY <1>3 DEF Refreshes, IInv, JobsOK, Jobs
  <2>2. CASE Exists(job[p].id)
    BY <1>2, <1>3, <2>1, <2>2, RefreshesEffect
  <2>3. CASE ~Exists(job[p].id)
    BY <1>3, <2>3 DEF Refreshes, FlagsNone
  <2>4. QED
    BY <2>2, <2>3
<1>4. ASSUME NEW p \in Procs, NEW a \in Accounts, DeletesAccount(p, a) PROVE FlagsNone
  BY <1>4, DeletesAccountEffect DEF FlagsNone
<1>5. QED
  BY <1>1, <1>2, <1>3, <1>4, RowEffects, UpdateWritesEffect, RemovesEffect, InsertsEffect,
     CreatesEffect
  DEF RowWriter, Keeps

LEMMA OnlyThreeLink ==
    ASSUME IInv, [Next]_vars
    PROVE  \/ LinksNone
           \/ \E p \in Procs : UpdateWrites(p)
           \/ \E p \in Procs, m \in Machines : Inserts(p, m)
           \/ \E p \in Procs, m \in Machines, f \in Forms : "create" \in Kinds /\ Creates(p, m, f)
<1>1. ASSUME KeepsRows(row, row'), KeepsLinks(row, row') PROVE LinksNone
  BY <1>1 DEF KeepsRows, KeepsLinks, LinksNone, Exists
<1>2. ASSUME NEW p \in Procs, Removes(p) PROVE LinksNone
  BY <1>2, RemovesEffect DEF OnlyRow, LinksNone, Exists
<1>3. ASSUME NEW p \in Procs, NEW a \in Accounts, DeletesAccount(p, a) PROVE LinksNone
  BY <1>3, DeletesAccountEffect DEF KeepsRows, LinksNone, Exists
<1>4. QED
  BY <1>1, <1>2, <1>3, RowEffects, RefreshesEffect, MarksEffect DEF RowWriter, Keeps

-----------------------------------------------------------------------------
\* The step of MissingWasAbsent.
Earned ==
    \A m \in Machines :
        Exists(m) /\ ~row[m].missing /\ row'[m] # None /\ row'[m].missing =>
            \E p \in Procs : /\ job[p].op = "sync" /\ job[p].acct = row[m].acct
                             /\ job[p].todo = {} /\ row[m].inst \notin job[p].was

LEMMA MarksEarns ==
    ASSUME IInv, Complete, NEW p \in Procs, Marks(p)
    PROVE  Earned
<1>1. job[p].op = "sync" /\ job[p].todo = {} /\ job[p].at = "item"
  BY DEF Marks, At, IInv, JobsOK, JobFit, OpFits, AtList
<1>2. \A i \in job[p].was : i \in {e.inst : e \in job[p].list}
  BY <1>1 DEF IInv, JobsOK, JobFit, OpFits
<1>3. ASSUME NEW m \in Machines, row'[m] # row[m]
      PROVE  row[m].acct = job[p].acct /\ row[m].inst \notin {e.inst : e \in job[p].list}
  BY <1>3 DEF Marks
<1>4. QED
  BY <1>1, <1>2, <1>3 DEF Earned

\* A provider's answer never erases the fleet: when ListInstances returns
\* everything or an error, a machine is flagged missing only after its
\* provider has answered without it, whatever runs beside the sync.
THEOREM MissingIsEarned == ASSUME Complete PROVE Spec => MissingWasAbsent
<1>1. ASSUME IInv, [Next]_vars PROVE Earned
  <2>1. FlagsNone => Earned
    BY DEF FlagsNone, Earned
  <2>2. ASSUME NEW p \in Procs, Marks(p) PROVE Earned
    BY <1>1, <2>2, MarksEarns
  <2>3. QED
    BY <1>1, <2>1, <2>2, OnlyMarksFlags
<1>2. IInv /\ [Next]_vars => [Earned]_vars
  BY <1>1
<1>3. QED
  BY Invariance, <1>2, PTL DEF Spec, MissingWasAbsent, Earned

-----------------------------------------------------------------------------
\* A request comes to write an element only by looking it up.
LEMMA ComesToWrite ==
    ASSUME IInv, [Next]_vars, NEW p \in Procs, job'[p].at = "write"
    PROVE  job'[p] = job[p] \/ \E e \in job[p].todo : Selects(p, e)
<1> USE DEF JobsOK
<1>1. ASSUME NEW q \in Procs, NEW j, j.at # "write", job' = [job EXCEPT ![q] = j]
      PROVE  job'[p] = job[p]
  BY <1>1 DEF IInv
<1>2. ASSUME NEW q \in Procs, NEW w, w # "write", Goto(q, w)
      PROVE  job'[p] = job[p]
  <2> DEFINE j == [job[q] EXCEPT !.at = w]
  <2>1. job' = [job EXCEPT ![q] = j]
    BY <1>2 DEF Goto
  <2>2. j.at = w
    BY DEF IInv, Jobs
  <2> HIDE DEF j
  <2>3. QED
    BY <1>1, <1>2, <2>1, <2>2
<1>3. ASSUME NEW q \in Procs, Finish(q) PROVE job'[p] = job[p]
  <2>1. Idle.at # "write"
    BY DEF Idle
  <2>2. QED
    BY <1>1, <1>3, <2>1 DEF Finish
<1>4. ASSUME NEW q \in Procs, NEW w, w # "write", NextItem(q, w) PROVE job'[p] = job[p]
  <2> DEFINE j == [job[q] EXCEPT !.at = w, !.todo = job[q].todo \ {Item(q)},
                                 !.inst = None, !.host = None, !.pub = None]
  <2>1. job' = [job EXCEPT ![q] = j]
    BY <1>4 DEF NextItem
  <2>2. j.at = w
    BY DEF IInv, Jobs
  <2> HIDE DEF j
  <2>3. QED
    BY <1>1, <1>4, <2>1, <2>2
<1>5. ASSUME NEW q \in Procs, NEW w, w # "write", GoesOn(q, w) PROVE job'[p] = job[p]
  <2> DEFINE j == [Idle EXCEPT !.op = job[q].op, !.at = w, !.id = job[q].id]
  <2>1. job' = [job EXCEPT ![q] = j] /\ j.at = w
    BY <1>5 DEF GoesOn, Idle
  <2> HIDE DEF j
  <2>2. QED
    BY <1>1, <1>5, <2>1
<1>6. ASSUME NEW q \in Procs, Start(q) PROVE job'[p] = job[p]
  <2>1. CASE \E a \in acctIds : StartSync(q, a)
    <3>1. PICK a \in acctIds : StartSync(q, a)
      BY <2>1
    <3> DEFINE j == [Idle EXCEPT !.op = "sync", !.at = "account", !.acct = a]
    <3>2. job' = [job EXCEPT ![q] = j] /\ j.at # "write"
      BY <3>1 DEF StartSync, Idle
    <3> HIDE DEF j
    <3>3. QED
      BY <1>1, <3>2
  <2>2. CASE \E m \in Machines, f \in Forms : StartUpdate(q, m, f)
    <3>1. PICK m \in Machines, f \in Forms : StartUpdate(q, m, f)
      BY <2>2
    <3> DEFINE j == [Idle EXCEPT !.op = "update", !.at = "edit", !.id = m, !.host = row[m].host,
                                 !.form = f]
    <3>2. job' = [job EXCEPT ![q] = j] /\ j.at # "write"
      BY <3>1 DEF StartUpdate, Idle
    <3> HIDE DEF j
    <3>3. QED
      BY <1>1, <3>2
  <2>3. CASE \E m \in Machines : StartDelete(q, m)
    <3>1. PICK m \in Machines : StartDelete(q, m)
      BY <2>3
    <3> DEFINE j == [Idle EXCEPT !.op = "delete", !.at = "drop", !.id = m]
    <3>2. job' = [job EXCEPT ![q] = j] /\ j.at # "write"
      BY <3>1 DEF StartDelete, Idle
    <3> HIDE DEF j
    <3>3. QED
      BY <1>1, <3>2
  <2>4. CASE \E m \in Machines : StartPower(q, m)
    <3>1. PICK m \in Machines : StartPower(q, m)
      BY <2>4
    <3> DEFINE j == [Idle EXCEPT !.op = "power", !.at = "power", !.id = m,
                                 !.acct = row[m].acct, !.inst = row[m].inst]
    <3>2. job' = [job EXCEPT ![q] = j] /\ j.at # "write"
      BY <3>1 DEF StartPower, Idle
    <3> HIDE DEF j
    <3>3. QED
      BY <1>1, <3>2
  <2>5. CASE \E m \in Machines : StartCheck(q, m)
    <3>1. PICK m \in Machines : StartCheck(q, m)
      BY <2>5
    <3> DEFINE j == [Idle EXCEPT !.op = "check", !.at = "exec", !.id = m, !.host = row[m].host]
    <3>2. job' = [job EXCEPT ![q] = j] /\ j.at # "write"
      BY <3>1 DEF StartCheck, Idle
    <3> HIDE DEF j
    <3>3. QED
      BY <1>1, <3>2
  <2>6. QED
    BY <1>6, <2>1, <2>2, <2>3, <2>4, <2>5 DEF Start, Creates, CreatesAccount, DeletesAccount
<1>7. ASSUME NEW q \in Procs, SyncStep(q)
      PROVE  job'[p] = job[p] \/ \E e \in job[p].todo : Selects(p, e)
  <2>1. CASE \E e \in job[q].todo : Selects(q, e)
    <3>1. CASE q = p
      BY <2>1, <3>1
    <3>2. CASE q # p
      BY <2>1, <3>2 DEF Selects, IInv
    <3>3. QED
      BY <3>1, <3>2
  <2>2. CASE ListWorks(q)
    <3>1. PICK list : job' = [job EXCEPT ![q] = [job[q] EXCEPT !.at = "item", !.list = list,
                                                               !.todo = list, !.was = There]]
      BY <2>2 DEF ListWorks
    <3> DEFINE j == [job[q] EXCEPT !.at = "item", !.list = list, !.todo = list, !.was = There]
    <3>2. j.at # "write"
      BY DEF IInv, Jobs
    <3>3. job' = [job EXCEPT ![q] = j]
      BY <3>1
    <3> HIDE DEF j
    <3>4. QED
      BY <1>1, <3>2, <3>3
  <2>3. QED
    BY <1>2, <1>3, <1>4, <1>7, <2>1, <2>2
    DEF SyncStep, FindsAccount, NoProvider, ListFails, Inserts, InsertFails, Refreshes, Marks,
        Records, Unlock
<1>8. ASSUME NEW q \in Procs, Step(q) PROVE job'[p] = job[p]
  <2>1. CASE PowerAsks(q)
    <3> DEFINE j == [job[q] EXCEPT !.at = "store", !.power = cloud[job[q].inst].power]
    <3>1. Finish(q) \/ job' = [job EXCEPT ![q] = j]
      BY <2>1 DEF PowerAsks
    <3>2. j.at # "write"
      BY DEF IInv, Jobs
    <3> HIDE DEF j
    <3>3. QED
      BY <1>1, <1>3, <3>1, <3>2
  <2>2. CASE CheckWorks(q) \/ CheckFails(q)
    <3>1. PICK w \in {"ok", "bad"} :
             job' = [job EXCEPT ![q] = [job[q] EXCEPT !.at = w, !.host = None, !.pub = Reached(q)]]
      BY <2>2 DEF CheckWorks, CheckFails
    <3> DEFINE j == [job[q] EXCEPT !.at = w, !.host = None, !.pub = Reached(q)]
    <3>2. j.at = w
      BY DEF IInv, Jobs
    <3>3. job' = [job EXCEPT ![q] = j]
      BY <3>1
    <3> HIDE DEF j
    <3>4. QED
      BY <1>1, <3>2, <3>3
  <2>3. CASE Drops(q)
    BY <1>2, <2>3 DEF Drops
  <2>4. CASE Resets(q)
    BY <1>2, <1>3, <2>4 DEF Resets
  <2>5. CASE UpdateWrites(q)
    BY <1>3, <1>5, <2>5 DEF UpdateWrites
  <2>6. CASE PowerWorks(q)
    BY <1>2, <1>3, <2>6 DEF PowerWorks
  <2>7. CASE ReachBad(q)
    BY <1>5, <2>7 DEF ReachBad
  <2>8. QED
    BY <1>3, <1>8, <2>1, <2>2, <2>3, <2>4, <2>5, <2>6, <2>7
    DEF Step, UpdateFails, Removes, PowerFails, PowerStores, ReachOK, DropBad
<1>9. CASE Crash
  <2>1. Idle.at # "write"
    BY DEF Idle
  <2>2. QED
    BY <1>9, <2>1 DEF Crash
<1>10. CASE UNCHANGED vars \/ \E i \in Instances : CloudChanges(i)
  BY <1>10 DEF vars, CloudChanges
<1>11. QED
  BY <1>6, <1>7, <1>8, <1>9, <1>10 DEF Next

\* syncMu is enough: as long as nobody links machines by hand, a row that a
\* sync did not find is still absent when it inserts it, however many syncs,
\* deletions and account removals overlap.
THEOREM NoCollision ==
    ASSUME Kinds \cap {"update", "create"} = {}
    PROVE  Spec => []SyncsDoNotCollide
<1>1. Init => SyncsDoNotCollide
  BY DEF Init, SyncsDoNotCollide, At, Idle
<1>2. ASSUME IInv, SyncsDoNotCollide, [Next]_vars
      PROVE  SyncsDoNotCollide'
  <2> SUFFICES ASSUME NEW p \in Procs, job'[p].at = "write", job'[p].id = None
               PROVE  Linked(job[p].acct, job[p].inst)' = {}
    BY DEF SyncsDoNotCollide, At, Linked, Exists
  <2>1. CASE \E e \in job[p].todo : Selects(p, e)
    <3>1. PICK e \in job[p].todo : Selects(p, e)
      BY <2>1
    <3> DEFINE found == Linked(job[p].acct, e.inst)
               m == CHOOSE x \in found : TRUE
               h == IF found = {} THEN None ELSE row[m].host
               u == IF found = {} THEN None ELSE row[m].pub
               d == IF found = {} THEN None ELSE m
    <3>2. job'[p] = [job[p] EXCEPT !.at = "write", !.inst = e.inst, !.id = d, !.host = h, !.pub = u]
          /\ row' = row
      BY <1>2, <3>1 DEF Selects, IInv, JobsOK, db, tables
    <3> HIDE DEF h, u, d
    <3>3. job'[p].id = d /\ job'[p].acct = job[p].acct /\ job'[p].inst = e.inst
      BY <1>2, <3>2 DEF IInv, JobsOK, Jobs
    <3>4. found # {} => m \in Machines
      BY DEF Linked
    <3>5. found = {}
      BY <3>3, <3>4, CloudSyncAssumption DEF d
    <3>6. QED
      BY <3>2, <3>3, <3>5 DEF Linked, Exists
  <2>2. CASE job'[p] = job[p]
    <3>1. /\ job[p].op = "sync" /\ job[p].acct \in Accounts /\ mu = p /\ job[p].at = "write"
          /\ Linked(job[p].acct, job[p].inst) = {}
      BY <1>2, <2>2 DEF IInv, JobsOK, JobFit, OpFits, AtList, SyncsDoNotCollide, At
    <3>2. CASE LinksNone
      <4>1. job[p].acct # None
        BY <3>1, CloudSyncAssumption
      <4>2. QED
        BY <2>2, <3>1, <3>2, <4>1 DEF LinksNone, Linked, Exists
    <3>3. ASSUME NEW q \in Procs, NEW m \in Machines, Inserts(q, m) PROVE FALSE
      <4>1. job[q].at = "write" /\ job[q].op = "sync"
        BY <1>2, <3>3 DEF Inserts, At, IInv, JobsOK, JobFit, OpFits, AtList
      <4>2. q = p
        BY <1>2, <3>1, <4>1 DEF IInv, JobsOK
      <4>3. job'[q].at = "item"
        BY <1>2, <3>3 DEF Inserts, NextItem, IInv, JobsOK, Jobs
      <4>4. QED
        BY <2>2, <4>1, <4>2, <4>3
    <3>4. ASSUME NEW q \in Procs, UpdateWrites(q) PROVE FALSE
      <4>1. job[q].op = "update" /\ job[q] \in Jobs
        BY <1>2, <3>4 DEF UpdateWrites, At, IInv, JobsOK, JobFit, OpFits
      <4>2. QED
        BY <4>1 DEF Jobs
    <3>5. QED
      BY <1>2, <3>2, <3>3, <3>4, OnlyThreeLink
  <2>3. QED
    BY <1>2, <2>1, <2>2, ComesToWrite
<1>3. IInv /\ SyncsDoNotCollide /\ [Next]_vars => SyncsDoNotCollide'
  BY <1>2
<1>4. QED
  BY Invariance, <1>1, <1>3, PTL DEF Spec

-----------------------------------------------------------------------------
(* The table: IDs are handed out once, and of two rows one account links no*)
(* instance twice.                                                         *)

IdsGiven ==
    /\ \A m \in Machines : Exists(m) => m \in ids
    /\ \A p \in Procs : At(p, "write") /\ job[p].id # None => job[p].id \in ids

OneRowEach ==
    \A m, n \in Machines :
        /\ Exists(m) /\ Exists(n)
        /\ row[m].acct # None /\ row[m].acct = row[n].acct /\ row[m].inst = row[n].inst
        => m = n

TableInv == IInv /\ IdsGiven /\ OneRowEach

\* A step that adds a row adds it under a new ID.
LEMMA NewRowIsNew ==
    ASSUME IdsGiven, NEW m \in Machines, m \notin ids
    PROVE  ~Exists(m)
  BY DEF IdsGiven

LEMMA SelectedFits ==
    ASSUME IInv, NEW p \in Procs, NEW e \in job[p].todo, Selects(p, e)
    PROVE  /\ row' = row /\ ids' = ids
           /\ job'[p].op = job[p].op /\ job'[p].at = "write"
           /\ job'[p].acct = job[p].acct /\ job'[p].inst = e.inst
           /\ job'[p].list = job[p].list /\ job'[p].todo = job[p].todo
           /\ job'[p].id = None => Linked(job[p].acct, e.inst) = {}
           /\ job'[p].id # None =>
                 /\ job'[p].id \in Linked(job[p].acct, e.inst)
                 /\ job'[p].host = row[job'[p].id].host /\ job'[p].pub = row[job'[p].id].pub
<1> DEFINE found == Linked(job[p].acct, e.inst)
           m == CHOOSE x \in found : TRUE
           h == IF found = {} THEN None ELSE row[m].host
           u == IF found = {} THEN None ELSE row[m].pub
           d == IF found = {} THEN None ELSE m
<1>1. job' = [job EXCEPT ![p] = [job[p] EXCEPT !.at = "write", !.inst = e.inst, !.id = d,
                                               !.host = h, !.pub = u]]
      /\ row' = row /\ ids' = ids
  BY DEF Selects, db, tables
<1>2. found # {} => m \in found
  OBVIOUS
<1>3. (found = {} => d = None /\ h = None /\ u = None)
      /\ (found # {} => d \in found /\ h = row[d].host /\ u = row[d].pub)
  BY <1>2
<1>4. job[p] \in Jobs
  BY DEF IInv, JobsOK
<1> HIDE DEF h, u, d
<1>5. job'[p] = [job[p] EXCEPT !.at = "write", !.inst = e.inst, !.id = d, !.host = h, !.pub = u]
  BY <1>1 DEF IInv, JobsOK
<1>6. /\ job'[p].op = job[p].op /\ job'[p].at = "write" /\ job'[p].acct = job[p].acct
      /\ job'[p].inst = e.inst /\ job'[p].list = job[p].list /\ job'[p].todo = job[p].todo
      /\ job'[p].id = d /\ job'[p].host = h /\ job'[p].pub = u
  BY <1>4, <1>5 DEF Jobs
<1>7. found # {} => d # None
  BY <1>3, CloudSyncAssumption DEF Linked
<1>8. QED
  BY <1>1, <1>3, <1>6, <1>7

LEMMA IdsStep ==
    ASSUME IInv, IdsGiven, [Next]_vars
    PROVE  IdsGiven'
<1>1. ids \subseteq ids'
  <2>1. CASE RowWriter
    BY <2>1 DEF RowWriter, Refreshes, Marks, UpdateWrites, Removes, Inserts, Creates, DeletesAccount
  <2>2. QED
    BY <2>1, RowEffects
<1>2. ASSUME NEW x \in Machines, Exists(x)' PROVE x \in ids'
  <2>1. CASE KeepsRows(row, row')
    BY <1>1, <1>2, <2>1 DEF KeepsRows, IdsGiven, Exists
  <2>2. ASSUME NEW m, OnlyRow(row, row', m), m \in ids' \/ row'[m] = None PROVE x \in ids'
    BY <1>1, <1>2, <2>2 DEF OnlyRow, IdsGiven, Exists
  <2>3. ASSUME NEW p \in Procs, Removes(p) PROVE x \in ids'
    BY <2>2, <2>3, RemovesEffect
  <2>4. ASSUME NEW p \in Procs, NEW m \in Machines, Inserts(p, m) PROVE x \in ids'
    BY <2>2, <2>4, InsertsEffect DEF Inserts
  <2>5. ASSUME NEW p \in Procs, NEW m \in Machines, NEW f \in Forms, Creates(p, m, f)
        PROVE  x \in ids'
    BY <2>2, <2>5, CreatesEffect DEF Creates
  <2>6. QED
    BY <2>1, <2>3, <2>4, <2>5, RowEffects, RefreshesEffect, MarksEffect, UpdateWritesEffect,
       DeletesAccountEffect
    DEF RowWriter, Keeps
<1>3. ASSUME NEW p \in Procs, At(p, "write")', job'[p].id # None PROVE job'[p].id \in ids'
  <2>1. CASE job'[p] = job[p]
    BY <1>1, <1>3, <2>1 DEF IdsGiven, At
  <2>2. ASSUME NEW e \in job[p].todo, Selects(p, e) PROVE job'[p].id \in ids'
    BY <1>1, <1>3, <2>2, SelectedFits DEF Linked, IdsGiven
  <2>3. QED
    BY <1>3, <2>1, <2>2, ComesToWrite DEF At
<1>4. QED
  BY <1>2, <1>3 DEF IdsGiven

LEMMA OneRowStep ==
    ASSUME IInv, IdsGiven, OneRowEach, [Next]_vars
    PROVE  OneRowEach'
<1>1. CASE KeepsRows(row, row') /\ KeepsLinks(row, row')
  BY <1>1 DEF OneRowEach, KeepsRows, KeepsLinks, Exists
<1>2. ASSUME NEW m \in Machines, OnlyRow(row, row', m),
             \/ row'[m] = None
             \/ row'[m].acct = None
             \/ Linked(row'[m].acct, row'[m].inst) \subseteq {m}
      PROVE  OneRowEach'
  BY <1>2 DEF OneRowEach, OnlyRow, Linked, Exists
<1>3. ASSUME NEW p \in Procs, Removes(p) PROVE OneRowEach'
  BY <1>2, <1>3, RemovesEffect
<1>4. ASSUME NEW p \in Procs, NEW m \in Machines, Inserts(p, m) PROVE OneRowEach'
  BY <1>2, <1>4, InsertsEffect DEF Inserts
<1>5. ASSUME NEW p \in Procs, NEW m \in Machines, NEW f \in Forms, Creates(p, m, f)
      PROVE  OneRowEach'
  <2>1. f.link.acct = None \/ Linked(f.link.acct, f.link.inst) = {}
    BY <1>5 DEF Creates, Free, NoLink
  <2>2. OnlyRow(row, row', m) /\ row'[m].acct = f.link.acct /\ row'[m].inst = f.link.inst
    BY <1>5, CreatesEffect
  <2>3. QED
    BY <1>2, <2>1, <2>2
<1>6. ASSUME NEW p \in Procs, UpdateWrites(p) PROVE OneRowEach'
  <2>1. job[p].id \in Machines
    BY <1>6 DEF UpdateWrites, At, IInv, JobsOK, JobFit, AtRow
  <2>2. CASE Exists(job[p].id)
    <3>1. job[p].form.link = NoLink
          \/ Linked(job[p].form.link.acct, job[p].form.link.inst) \subseteq {job[p].id}
      BY <1>6, <2>2 DEF UpdateWrites, Refused
    <3>2. QED
      BY <1>2, <1>6, <2>1, <2>2, <3>1, UpdateWritesEffect DEF NoLink
  <2>3. CASE ~Exists(job[p].id)
    BY <1>6, <2>3 DEF UpdateWrites, OneRowEach, Exists
  <2>4. QED
    BY <2>2, <2>3
<1>7. ASSUME NEW p \in Procs, NEW a \in Accounts, DeletesAccount(p, a) PROVE OneRowEach'
  <2>1. \A x \in Machines : Exists(x)' =>
           Exists(x) /\ (row'[x].acct = None \/ row'[x] = row[x])
    BY <1>7, DeletesAccountEffect DEF KeepsRows, Exists
  <2>2. QED
    BY <2>1 DEF OneRowEach, Exists
<1>8. QED
  BY <1>1, <1>3, <1>4, <1>5, <1>6, <1>7, RowEffects, RefreshesEffect, MarksEffect
  DEF RowWriter, Keeps

\* AUTOINCREMENT and idx_machines_instance (schema.go:65): an ID that a
\* request holds was given out and is never given to another machine, and no
\* two rows are one instance, whatever overlaps.
THEOREM TableInvariance == Spec => []TableInv
<1>1. Init => IdsGiven /\ OneRowEach
  BY DEF Init, IdsGiven, OneRowEach, Exists, At, Idle
<1>2. IInv /\ IdsGiven /\ OneRowEach /\ [Next]_vars => IdsGiven' /\ OneRowEach'
  BY IdsStep, OneRowStep
<1>3. QED
  BY Invariance, <1>1, <1>2, PTL DEF Spec, TableInv

-----------------------------------------------------------------------------
(* What a sync read of a row is still so when it writes it, whatever       *)
(* overlaps, or it is noted that it is not (strays).                       *)

\* A step of one request leaves the others where they are.
LEMMA OthersStay ==
    ASSUME IInv, [Next]_vars, NEW p \in Procs, job'[p] # job[p]
    PROVE  Crash \/ Start(p) \/ SyncStep(p) \/ Step(p)
<1> USE DEF JobsOK
<1>1. ASSUME NEW q \in Procs, q # p, NEW j, job' = [job EXCEPT ![q] = j] PROVE job'[p] = job[p]
  BY <1>1 DEF IInv
<1>2. ASSUME NEW q \in Procs, q # p, Start(q) PROVE job'[p] = job[p]
  BY <1>1, <1>2
  DEF Start, StartSync, StartUpdate, StartDelete, StartPower, StartCheck, Creates, CreatesAccount,
      DeletesAccount
<1>3. ASSUME NEW q \in Procs, q # p, SyncStep(q) PROVE job'[p] = job[p]
  BY <1>1, <1>3
  DEF SyncStep, FindsAccount, NoProvider, ListFails, ListWorks, Selects, Inserts, InsertFails,
      Refreshes, Marks, Records, Unlock, Finish, Goto, NextItem
<1>4. ASSUME NEW q \in Procs, q # p, Step(q) PROVE job'[p] = job[p]
  BY <1>1, <1>4
  DEF Step, Drops, Resets, UpdateWrites, UpdateFails, Removes, PowerFails, PowerWorks, PowerAsks,
      PowerStores, CheckWorks, CheckFails, ReachOK, ReachBad, DropBad, Finish, Goto, GoesOn
<1>5. CASE UNCHANGED vars \/ \E i \in Instances : CloudChanges(i)
  BY <1>5 DEF vars, CloudChanges
<1>6. QED
  BY <1>2, <1>3, <1>4, <1>5 DEF Next

\* The operations that are not of this run do not write.
LEMMA WritersAreOfTheRun ==
    ASSUME IInv, NEW p \in Procs
    PROVE  /\ UpdateWrites(p) => job[p].op = "update" /\ job[p].at = "edit" /\ "update" \in Kinds
           /\ Removes(p) => job[p].op = "delete" /\ job[p].at = "remove" /\ "delete" \in Kinds
<1>1. job[p] \in Jobs /\ JobFit(job[p])
  BY DEF IInv, JobsOK
<1>2. QED
  BY <1>1 DEF UpdateWrites, Removes, At, JobFit, OpFits, Jobs

\* syncMu: no second sync writes while one is between SELECT and write.
LEMMA OneSyncWrites ==
    ASSUME IInv, NEW p \in Procs, NEW q \in Procs, job[p].at = "write", Refreshes(q)
    PROVE  p = q /\ job'[p].at # "write"
<1>1. job[q].at = "write" /\ job[q] \in Jobs
  BY DEF Refreshes, At, IInv, JobsOK
<1>2. job[p].op = "sync" /\ job[q].op = "sync"
  BY <1>1 DEF IInv, JobsOK, JobFit, OpFits, AtList
<1>3. p = q
  BY <1>2 DEF IInv, JobsOK
<1> DEFINE w == IF Follows(q) THEN "drop" ELSE "item"
<1>4. job' = [job EXCEPT ![q] = [job[q] EXCEPT !.at = w, !.todo = job[q].todo \ {Item(q)},
                                               !.inst = None, !.host = None, !.pub = None]]
  BY DEF Refreshes, NextItem
<1>5. w # "write"
  OBVIOUS
<1> HIDE DEF w
<1>6. job'[q].at = w
  BY <1>1, <1>4 DEF IInv, JobsOK, Jobs
<1>7. QED
  BY <1>3, <1>5, <1>6

\* What the SELECT returned of a row is still so of its public IP, which only
\* syncs write, and of its link, unless that was changed under it.
PubIsTrue(p) ==
    At(p, "write") /\ job[p].id # None /\ Exists(job[p].id) => job[p].pub = row[job[p].id].pub
FoundIsLinked(p) ==
    At(p, "write") /\ job[p].id # None /\ Exists(job[p].id) =>
        \/ row[job[p].id].acct = job[p].acct /\ row[job[p].id].inst = job[p].inst
        \/ "link" \in strays[job[p].id]

ReadInv == \A p \in Procs : PubIsTrue(p) /\ FoundIsLinked(p)

\* Nothing but the sync itself, a deletion and a crash ends what is noted of
\* the link of a row it has found.
LEMMA LinkStraysStay ==
    ASSUME TableInv, StraysOK, [Next]_vars, NEW p \in Procs, job[p].at = "write", job'[p] = job[p],
           job[p].id \in Machines, Exists(job[p].id)', "link" \in strays[job[p].id]
    PROVE  "link" \in strays'[job[p].id]
<1> DEFINE m == job[p].id
<1>1. ASSUME NEW n, NEW ts, NEW wrong, "link" \notin ts, Writes(n, ts, wrong)
      PROVE  "link" \in strays'[m]
  BY <1>1 DEF Writes, StraysOK
<1>2. CASE strays' = strays
  BY <1>2
<1>3. ASSUME NEW n, NEW s, NEW a, SetReach(n, s, a) PROVE "link" \in strays'[m]
  BY <1>1, <1>2, <1>3 DEF SetReach
<1>4. ASSUME NEW n, Unpool(n) PROVE "link" \in strays'[m]
  BY <1>1, <1>4 DEF Unpool
<1>5. ASSUME NEW q \in Procs, Start(q) PROVE "link" \in strays'[m]
  <2>1. CASE \E a \in Accounts : DeletesAccount(q, a)
    BY <2>1 DEF DeletesAccount
  <2>2. QED
    BY <1>2, <1>5, <2>1
    DEF Start, StartSync, StartUpdate, StartDelete, Creates, CreatesAccount, StartPower, StartCheck,
        db
<1>6. ASSUME NEW q \in Procs, SyncStep(q) PROVE "link" \in strays'[m]
  <2>1. CASE Refreshes(q)
    BY <2>1, OneSyncWrites DEF TableInv
  <2>2. QED
    BY <1>2, <1>6, <2>1
    DEF SyncStep, FindsAccount, NoProvider, ListFails, ListWorks, Selects, Inserts, InsertFails,
        Marks, Records, db
<1>7. ASSUME NEW q \in Procs, Step(q) PROVE "link" \in strays'[m]
  <2>1. CASE UpdateWrites(q)
    BY <1>1, <2>1 DEF UpdateWrites
  <2>2. CASE Removes(q)
    <3>1. job[q].id # m
      BY <2>2, RemovesEffect DEF TableInv, Exists
    <3>2. QED
      BY <2>2, <3>1 DEF Removes, Writes, StraysOK
  <2>3. CASE CheckWorks(q)
    BY <1>1, <2>3 DEF CheckWorks
  <2>4. QED
    BY <1>2, <1>3, <1>4, <1>7, <2>1, <2>2, <2>3
    DEF Step, Drops, Resets, UpdateFails, PowerFails, PowerWorks, PowerAsks, PowerStores,
        CheckFails, ReachOK, ReachBad, DropBad, db
<1>8. CASE Crash
  BY <1>8 DEF Crash, Idle
<1>9. CASE UNCHANGED vars \/ \E i \in Instances : CloudChanges(i)
  BY <1>2, <1>9 DEF vars, CloudChanges, db
<1>10. QED
  BY <1>5, <1>6, <1>7, <1>8, <1>9 DEF Next

\* A row that a waiting write is about: what the others may do to it.
LEMMA WaitingWrite ==
    ASSUME TableInv, StraysOK, [Next]_vars, NEW p \in Procs, job[p].at = "write", job'[p] = job[p],
           job[p].id # None, Exists(job[p].id)'
    PROVE  /\ Exists(job[p].id) /\ job[p].id \in Machines
           /\ row'[job[p].id].pub = row[job[p].id].pub
           /\ \/ /\ row'[job[p].id].acct = row[job[p].id].acct
                 /\ row'[job[p].id].inst = row[job[p].id].inst
              \/ "link" \in strays'[job[p].id]
<1> DEFINE m == job[p].id
           Goal == /\ Exists(m) /\ row'[m].pub = row[m].pub
                   /\ \/ row'[m].acct = row[m].acct /\ row'[m].inst = row[m].inst
                      \/ "link" \in strays'[m]
<1>1. m \in Machines /\ m \in ids
  BY DEF TableInv, IInv, JobsOK, Jobs, IdsGiven, At
<1>2. ASSUME row'[m] = row[m] PROVE Goal
  BY <1>2 DEF Exists
<1>3. ASSUME NEW x, OnlyRow(row, row', x), x # m PROVE Goal
  BY <1>1, <1>2, <1>3 DEF OnlyRow
<1>4. ASSUME NEW q \in Procs, Removes(q) PROVE Goal
  BY <1>3, <1>4, RemovesEffect DEF TableInv, Exists
<1>5. ASSUME NEW q \in Procs, NEW x \in Machines, Inserts(q, x) PROVE Goal
  BY <1>1, <1>3, <1>5, InsertsEffect DEF TableInv, Inserts
<1>6. ASSUME NEW q \in Procs, NEW x \in Machines, NEW f \in Forms, Creates(q, x, f) PROVE Goal
  BY <1>1, <1>3, <1>6, CreatesEffect DEF TableInv, Creates
<1>7. ASSUME NEW q \in Procs, Refreshes(q) PROVE Goal
  BY <1>7, OneSyncWrites DEF TableInv
<1>8. Found(m)
  BY DEF Found, At
<1>9. ASSUME NEW q \in Procs, UpdateWrites(q) PROVE Goal
  <2>1. CASE job[q].id # m
    BY <1>3, <1>9, <2>1, UpdateWritesEffect DEF TableInv
  <2>2. CASE job[q].id = m
    <3> DEFINE l == job[q].form.link
    <3>1. Exists(m)
      BY <1>1, <1>9, UpdateWritesEffect DEF TableInv, KeepsRows, Exists
    <3>2. row'[m].pub = row[m].pub /\ row'[m].acct = l.acct /\ row'[m].inst = l.inst
      BY <1>9, <2>2, <3>1, UpdateWritesEffect DEF TableInv
    <3>3. CASE Has(row[m], l)
      BY <3>1, <3>2, <3>3 DEF Has
    <3>4. CASE ~Has(row[m], l)
      BY <1>1, <1>8, <1>9, <2>2, <3>1, <3>2, <3>4 DEF UpdateWrites, Writes, StraysOK
    <3>5. QED
      BY <3>3, <3>4
  <2>3. QED
    BY <2>1, <2>2
<1>10. ASSUME NEW q \in Procs, NEW a \in Accounts, DeletesAccount(q, a) PROVE Goal
  <2>1. Exists(m) /\ row'[m].pub = row[m].pub
    BY <1>1, <1>10, DeletesAccountEffect DEF TableInv, KeepsRows, KeepsHosts, Exists
  <2>2. CASE row[m].acct = a
    BY <1>1, <1>8, <1>10, <2>1, <2>2 DEF DeletesAccount
  <2>3. CASE row[m].acct # a
    BY <1>1, <1>2, <1>10, <2>3 DEF DeletesAccount
  <2>4. QED
    BY <2>1, <2>2, <2>3
<1>11. CASE KeepsRows(row, row') /\ KeepsHosts(row, row') /\ KeepsLinks(row, row')
  BY <1>1, <1>11 DEF KeepsRows, KeepsHosts, KeepsLinks, Exists
<1>12. Goal
  BY <1>4, <1>5, <1>6, <1>7, <1>9, <1>10, <1>11, RowEffects, MarksEffect
  DEF TableInv, RowWriter, Keeps
<1>13. QED
  BY <1>1, <1>12

LEMMA ReadStep ==
    ASSUME TableInv, StraysOK, ReadInv, [Next]_vars
    PROVE  ReadInv'
<1> SUFFICES ASSUME NEW p \in Procs, job'[p].at = "write", job'[p].id # None, Exists(job[p].id)'
             PROVE  /\ job'[p].pub = row'[job'[p].id].pub
                    /\ \/ /\ row'[job'[p].id].acct = job'[p].acct
                          /\ row'[job'[p].id].inst = job'[p].inst
                       \/ "link" \in strays'[job'[p].id]
  BY DEF ReadInv, PubIsTrue, FoundIsLinked, At
<1>1. CASE job'[p] = job[p]
  <2>1. /\ Exists(job[p].id) /\ job[p].id \in Machines
        /\ row'[job[p].id].pub = row[job[p].id].pub
        /\ \/ /\ row'[job[p].id].acct = row[job[p].id].acct
              /\ row'[job[p].id].inst = row[job[p].id].inst
           \/ "link" \in strays'[job[p].id]
    BY <1>1, WaitingWrite
  <2>2. "link" \in strays[job[p].id] => "link" \in strays'[job[p].id]
    BY <1>1, <2>1, LinkStraysStay
  <2>3. /\ job[p].pub = row[job[p].id].pub
        /\ \/ row[job[p].id].acct = job[p].acct /\ row[job[p].id].inst = job[p].inst
           \/ "link" \in strays[job[p].id]
    BY <1>1, <2>1 DEF ReadInv, PubIsTrue, FoundIsLinked, At
  <2>4. QED
    BY <1>1, <2>1, <2>2, <2>3
<1>2. ASSUME NEW e \in job[p].todo, Selects(p, e)
      PROVE  /\ job'[p].pub = row'[job'[p].id].pub
             /\ row'[job'[p].id].acct = job'[p].acct /\ row'[job'[p].id].inst = job'[p].inst
  BY <1>2, SelectedFits DEF TableInv, Linked
<1>3. QED
  BY <1>1, <1>2, ComesToWrite DEF TableInv

SafeInv == TableInv /\ StraysOK /\ ReadInv

THEOREM SafeInvariance == Spec => []SafeInv
<1>1. Init => StraysOK /\ ReadInv
  BY DEF Init, StraysOK, ReadInv, PubIsTrue, FoundIsLinked, At, Idle
<1>2. TableInv /\ StraysOK /\ ReadInv /\ [Next]_vars => StraysOK' /\ ReadInv'
  BY StraysStep, ReadStep DEF TableInv
<1>3. QED
  BY TableInvariance, <1>1, <1>2, PTL DEF Spec, SafeInv

\* "A user-set ssh_host is left untouched" (UpsertFromCloud): the public IP a
\* sync reads with one statement is still the row's at the next, so an address
\* that is not edited between the two is moved only if it was the public one,
\* whatever syncs, checks, deletions, edits and accounts overlap.
THEOREM TypedHostsStay == Spec => TypedHostIsKept
<1> DEFINE Kept ==
             \A p \in Procs : job[p].op = "sync" /\ job'[p].op = "sync" /\ job'[p] # job[p] =>
                 \A m \in Machines : Exists(m) /\ row'[m] # None /\ row'[m].host # row[m].host =>
                     row[m].host = row[m].pub \/ row[m].host # job[p].host
<1>1. ASSUME SafeInv, [Next]_vars PROVE Kept
  <2> SUFFICES ASSUME NEW p \in Procs, job[p].op = "sync", job'[p].op = "sync", job'[p] # job[p],
                      NEW m \in Machines, Exists(m), row'[m] # None, row'[m].host # row[m].host,
                      row[m].host = job[p].host
               PROVE  row[m].host = row[m].pub
    OBVIOUS
  <2>1. ~KeepsHosts(row, row')
    BY DEF KeepsHosts, Exists
  <2>2. ASSUME NEW x, OnlyRow(row, row', x) PROVE x = m
    BY <2>2 DEF OnlyRow
  <2>3. ASSUME NEW q \in Procs, Removes(q) PROVE FALSE
    BY <1>1, <2>2, <2>3, RemovesEffect DEF SafeInv, TableInv
  <2>4. ASSUME NEW q \in Procs, NEW x \in Machines, Inserts(q, x) PROVE FALSE
    BY <1>1, <2>2, <2>4, InsertsEffect DEF SafeInv, TableInv, IdsGiven, Inserts
  <2>5. ASSUME NEW q \in Procs, NEW x \in Machines, NEW f \in Forms, Creates(q, x, f) PROVE FALSE
    BY <1>1, <2>2, <2>5, CreatesEffect DEF SafeInv, TableInv, IdsGiven, Creates
  <2>6. ASSUME NEW q \in Procs, UpdateWrites(q) PROVE FALSE
    <3>1. job[q].op = "update"
      BY <1>1, <2>6, WritersAreOfTheRun DEF SafeInv, TableInv
    <3>2. q # p
      BY <3>1
    <3>3. job'[p] = job[p]
      BY <1>1, <2>6, <3>2 DEF UpdateWrites, GoesOn, Finish, SafeInv, TableInv, IInv, JobsOK
    <3>4. QED
      BY <3>3
  <2>7. ASSUME NEW q \in Procs, Refreshes(q) PROVE row[m].host = row[m].pub
    <3>1. m = job[q].id /\ job[q].at = "write" /\ job[q].id # None
      BY <1>1, <2>2, <2>7, RefreshesEffect DEF SafeInv, TableInv, Refreshes, At
    <3>2. q = p
      BY <1>1, <3>1 DEF SafeInv, TableInv, IInv, JobsOK, JobFit, OpFits, AtList
    <3>3. job[q].pub = row[m].pub
      BY <1>1, <3>1 DEF SafeInv, ReadInv, PubIsTrue, At
    <3>4. row'[m].host = IF Follows(q) THEN Item(q).ip ELSE job[q].host
      BY <1>1, <2>7, <3>1, RefreshesEffect DEF SafeInv, TableInv
    <3>5. Follows(q)
      BY <3>2, <3>4
    <3>6. QED
      BY <3>2, <3>3, <3>5 DEF Follows
  <2>8. QED
    BY <1>1, <2>1, <2>3, <2>4, <2>5, <2>6, <2>7, RowEffects, MarksEffect, DeletesAccountEffect
    DEF SafeInv, TableInv, RowWriter, Keeps
<1>2. SafeInv /\ [Next]_vars => [Kept]_vars
  BY <1>1
<1>3. QED
  BY SafeInvariance, <1>2, PTL DEF Spec, TypedHostIsKept

\* A sync writes the row it looked up for its instance and no other, which is
\* still that of its instance unless its link was changed in between; whatever
\* edits, accounts, deletions, checks, power actions and syncs overlap.
THEOREM SyncStaysInItsRows == Spec => SyncWritesItsOwnRows
<1> DEFINE Own == \A p \in Procs : At(p, "write") /\ job'[p].at # "write" =>
                    \A m \in Machines : Exists(m) /\ row'[m] # row[m] =>
                        \/ row[m].acct = job[p].acct /\ row[m].inst = job[p].inst
                        \/ "link" \in strays[m]
<1>1. ASSUME SafeInv, [Next]_vars PROVE Own
  <2> SUFFICES ASSUME NEW p \in Procs, job[p].at = "write", job'[p].at # "write",
                      NEW m \in Machines, Exists(m), row'[m] # row[m]
               PROVE  \/ row[m].acct = job[p].acct /\ row[m].inst = job[p].inst
                      \/ "link" \in strays[m]
    BY DEF At
  <2>1. Crash \/ Start(p) \/ SyncStep(p) \/ Step(p)
    BY <1>1, OthersStay DEF SafeInv, TableInv
  <2>2. Refreshes(p) \/ \E x \in Machines : Inserts(p, x)
    BY <2>1
    DEF Crash, db, tables, Start, StartSync, StartUpdate, StartDelete, StartPower, StartCheck,
        Creates, CreatesAccount, DeletesAccount, SyncStep, FindsAccount, NoProvider, ListFails,
        ListWorks, Selects, InsertFails, Marks, Records, Step, Drops, Resets, UpdateWrites,
        UpdateFails, Removes, PowerFails, PowerWorks, PowerAsks, PowerStores, CheckWorks,
        CheckFails, ReachOK, ReachBad, DropBad, At
  <2>3. ASSUME NEW x \in Machines, Inserts(p, x) PROVE FALSE
    BY <1>1, <2>3, InsertsEffect DEF SafeInv, TableInv, IdsGiven, Inserts, OnlyRow
  <2>4. CASE Refreshes(p)
    <3>1. m = job[p].id /\ m # None
      BY <1>1, <2>4, RefreshesEffect, CloudSyncAssumption DEF SafeInv, TableInv, OnlyRow
    <3>2. QED
      BY <1>1, <3>1 DEF SafeInv, ReadInv, FoundIsLinked, At
  <2>5. QED
    BY <2>2, <2>3, <2>4
<1>2. SafeInv /\ [Next]_vars => [Own]_vars
  BY <1>1
<1>3. QED
  BY SafeInvariance, <1>2, PTL DEF Spec, SyncWritesItsOwnRows

-----------------------------------------------------------------------------
(* A sync that nobody disturbs has, at its end, made the table say what the*)
(* provider said. After every statement the elements already dealt with are*)
(* shown.                                                                  *)

\* No such operation runs at all, or requests come one at a time.
Undisturbed(kinds) == Kinds \cap kinds = {} \/ \E p \in Procs : Procs = {p}

LinkedIn(r, a, i) == {m \in Machines : r[m] # None /\ r[m].acct = a /\ r[m].inst = i}

Shown(r, a, e) == \E m \in LinkedIn(r, a, e.inst) : r[m].pub = e.ip /\ ~r[m].missing

\* How far a sync j has come with the rows r.
ShowFit(j, r) ==
    j.op = "sync" /\ j.at \notin {"account", "list"} =>
        /\ j.todo \subseteq j.list
        /\ \A e, f \in j.list : e.inst = f.inst => e = f
        /\ \A e \in j.list \ j.todo : Shown(r, j.acct, e)
        /\ j.at = "write" => LinkedIn(r, j.acct, j.inst) = {j.id} \ {None}
        /\ j.at = "result" =>
              /\ j.todo = {}
              /\ \A m \in Machines : r[m] # None /\ r[m].acct = j.acct =>
                    (r[m].missing <=> r[m].inst \notin {e.inst : e \in j.list})

ShowInv == \A p \in Procs : ShowFit(job[p], row)

LEMMA KeepsShow ==
    ASSUME NEW r, NEW s, Keeps(r, s), NEW j, ShowFit(j, r)
    PROVE  ShowFit(j, s)
<1>1. \A a, i : LinkedIn(s, a, i) = LinkedIn(r, a, i)
  BY DEF LinkedIn, Keeps, KeepsRows, KeepsLinks
<1>2. \A a, e : Shown(r, a, e) => Shown(s, a, e)
  BY <1>1 DEF Shown, LinkedIn, Keeps, KeepsHosts, KeepsFlags, KeepsRows
<1>3. \A m \in Machines : s[m] # None =>
         r[m] # None /\ s[m].acct = r[m].acct /\ s[m].inst = r[m].inst
         /\ (s[m].missing <=> r[m].missing)
  BY DEF Keeps, KeepsRows, KeepsLinks, KeepsFlags
<1>4. QED
  BY <1>1, <1>2, <1>3 DEF ShowFit

\* What the steps of a sync do to its variables.
LEMMA WriterMoves ==
    ASSUME IInv, NEW p \in Procs
    PROVE  /\ \A m \in Machines : Inserts(p, m) =>
                 /\ job'[p] = [job[p] EXCEPT !.at = "item", !.todo = job[p].todo \ {Item(p)},
                                             !.inst = None, !.host = None, !.pub = None]
                 /\ job[p].at = "write" /\ job[p].op = "sync" /\ job'[p].at = "item"
           /\ Refreshes(p) =>
                 /\ \E w \in {"drop", "item"} :
                       job'[p] = [job[p] EXCEPT !.at = w, !.todo = job[p].todo \ {Item(p)},
                                                !.inst = None, !.host = None, !.pub = None]
                 /\ job[p].at = "write" /\ job[p].op = "sync" /\ job'[p].at \in {"drop", "item"}
           /\ Marks(p) =>
                 /\ job'[p] = [job[p] EXCEPT !.at = "result"]
                 /\ job[p].at = "item" /\ job[p].op = "sync" /\ job'[p].at = "result"
<1>1. job \in [Procs -> Jobs] /\ job[p] \in Jobs /\ JobFit(job[p])
  BY DEF IInv, JobsOK
<1>2. job[p].at \in {"write", "item"} => job[p].op = "sync"
  BY <1>1 DEF JobFit, OpFits, AtList
<1>3. ASSUME NEW m \in Machines, Inserts(p, m)
      PROVE  /\ job'[p] = [job[p] EXCEPT !.at = "item", !.todo = job[p].todo \ {Item(p)},
                                         !.inst = None, !.host = None, !.pub = None]
             /\ job[p].at = "write" /\ job'[p].at = "item"
  BY <1>1, <1>3 DEF Inserts, NextItem, At, Jobs
<1>4. ASSUME Refreshes(p)
      PROVE  /\ \E w \in {"drop", "item"} :
                   job'[p] = [job[p] EXCEPT !.at = w, !.todo = job[p].todo \ {Item(p)},
                                            !.inst = None, !.host = None, !.pub = None]
             /\ job[p].at = "write" /\ job'[p].at \in {"drop", "item"}
  <2> DEFINE w == IF Follows(p) THEN "drop" ELSE "item"
  <2>1. job' = [job EXCEPT ![p] = [job[p] EXCEPT !.at = w, !.todo = job[p].todo \ {Item(p)},
                                                 !.inst = None, !.host = None, !.pub = None]]
    BY <1>4 DEF Refreshes, NextItem
  <2>2. w \in {"drop", "item"} /\ job[p].at = "write"
    BY <1>4 DEF Refreshes, At
  <2> HIDE DEF w
  <2>3. QED
    BY <1>1, <2>1, <2>2 DEF Jobs
<1>5. ASSUME Marks(p)
      PROVE  /\ job'[p] = [job[p] EXCEPT !.at = "result"]
             /\ job[p].at = "item" /\ job'[p].at = "result"
  BY <1>1, <1>5 DEF Marks, Goto, At, Jobs
<1>6. QED
  BY <1>2, <1>3, <1>4, <1>5

\* Nobody else writes what a sync shows.
LEMMA StillSync ==
    ASSUME Undisturbed(Users), TableInv, [Next]_vars, NEW p \in Procs, job[p].op = "sync",
           job'[p] = job[p]
    PROVE  Keeps(row, row')
<1>1. ASSUME NEW q \in Procs, job[q].op = "sync" PROVE q = p
  BY <1>1 DEF TableInv, IInv, JobsOK
<1>2. ASSUME NEW q \in Procs, Refreshes(q) \/ Marks(q) \/ \E m \in Machines : Inserts(q, m)
      PROVE  FALSE
  BY <1>1, <1>2, WriterMoves DEF TableInv
<1>3. ASSUME NEW q \in Procs, UpdateWrites(q) \/ Removes(q) PROVE FALSE
  BY <1>3, WritersAreOfTheRun DEF TableInv, Undisturbed, Users
<1>4. job[p].at # "idle"
  BY DEF TableInv, IInv, JobsOK, JobFit, OpFits
<1>5. ASSUME NEW q \in Procs, NEW m \in Machines, NEW f \in Forms, "create" \in Kinds,
             Creates(q, m, f)
      PROVE  FALSE
  BY <1>4, <1>5 DEF Creates, At, Undisturbed, Users
<1>6. ASSUME NEW q \in Procs, NEW a \in Accounts, "account" \in Kinds, DeletesAccount(q, a)
      PROVE  FALSE
  BY <1>4, <1>6 DEF DeletesAccount, At, Undisturbed, Users
<1>7. QED
  BY <1>2, <1>3, <1>5, <1>6, RowEffects DEF TableInv, RowWriter

LEMMA ListWorksShows ==
    ASSUME TableInv, NEW p \in Procs, ListWorks(p)
    PROVE  ShowFit(job'[p], row')
<1>1. job[p] \in Jobs
  BY DEF TableInv, IInv, JobsOK
<1>2. PICK some \in (IF Complete THEN {There} ELSE SUBSET There) :
         LET list == {[inst |-> i, power |-> cloud[i].power, ip |-> cloud[i].ip] : i \in some}
         IN  job' = [job EXCEPT ![p] =
                        [@ EXCEPT !.at = "item", !.list = list, !.todo = list, !.was = There]]
  BY DEF ListWorks
<1> DEFINE list == {[inst |-> i, power |-> cloud[i].power, ip |-> cloud[i].ip] : i \in some}
<1>3. \A e, f \in list : e.inst = f.inst => e = f
  OBVIOUS
<1> HIDE DEF list
<1>4. job'[p] = [job[p] EXCEPT !.at = "item", !.list = list, !.todo = list, !.was = There]
  BY <1>2 DEF list, TableInv, IInv, JobsOK
<1>5. job'[p].at = "item" /\ job'[p].list = list /\ job'[p].todo = list
  BY <1>1, <1>4 DEF Jobs
<1>6. QED
  BY <1>3, <1>5 DEF ShowFit

LEMMA SelectsShows ==
    ASSUME TableInv, ShowInv, NEW p \in Procs, NEW e \in job[p].todo, Selects(p, e)
    PROVE  ShowFit(job'[p], row')
<1>1. job[p].op = "sync" /\ job[p].at = "item" /\ job[p].acct # None
  BY CloudSyncAssumption DEF Selects, At, TableInv, IInv, JobsOK, JobFit, OpFits, AtList
<1>2. ShowFit(job[p], row) /\ row' = row
  BY SelectedFits DEF ShowInv, TableInv
<1>3. LinkedIn(row, job[p].acct, e.inst) = Linked(job[p].acct, e.inst)
  BY DEF LinkedIn, Linked, Exists
<1>4. LinkedIn(row, job[p].acct, e.inst) = {job'[p].id} \ {None}
  <2>1. \A m, n \in Linked(job[p].acct, e.inst) : m = n
    BY <1>1 DEF Linked, TableInv, OneRowEach
  <2>2. CASE job'[p].id = None
    BY <1>3, <2>2, SelectedFits DEF TableInv
  <2>3. CASE job'[p].id # None
    BY <1>3, <2>1, <2>3, SelectedFits DEF TableInv
  <2>4. QED
    BY <2>2, <2>3
<1>5. QED
  BY <1>1, <1>2, <1>4, SelectedFits DEF ShowFit, TableInv

\* The element at hand is the one whose instance the sync holds.
LEMMA ItemAtHand ==
    ASSUME IInv, NEW p \in Procs, job[p].at = "write"
    PROVE  Item(p) \in job[p].todo /\ Item(p).inst = job[p].inst
<1>1. \E e \in job[p].todo : e.inst = job[p].inst
  BY DEF IInv, JobsOK, JobFit
<1>2. QED
  BY <1>1 DEF Item

\* An element is written to row m, which is then the row of its instance.
LEMMA WriteShows ==
    ASSUME IInv, ShowInv, NEW p \in Procs, NEW m \in Machines, NEW w \in {"drop", "item"},
           job[p].op = "sync", job[p].at = "write",
           job'[p] = [job[p] EXCEPT !.at = w, !.todo = job[p].todo \ {Item(p)},
                                    !.inst = None, !.host = None, !.pub = None],
           OnlyRow(row, row', m), LinkedIn(row, job[p].acct, job[p].inst) \subseteq {m},
           ~Exists(m) \/ m \in LinkedIn(row, job[p].acct, job[p].inst),
           m \in LinkedIn(row', job[p].acct, job[p].inst), row'[m].pub = Item(p).ip,
           ~row'[m].missing
    PROVE  ShowFit(job'[p], row')
<1>1. ShowFit(job[p], row) /\ job[p] \in Jobs
  BY DEF ShowInv, IInv, JobsOK
<1>2. /\ job'[p].op = "sync" /\ job'[p].at = w /\ job'[p].acct = job[p].acct
      /\ job'[p].list = job[p].list /\ job'[p].todo = job[p].todo \ {Item(p)}
  BY <1>1 DEF Jobs
<1>3. /\ job[p].todo \subseteq job[p].list
      /\ \A e, f \in job[p].list : e.inst = f.inst => e = f
      /\ \A e \in job[p].list \ job[p].todo : Shown(row, job[p].acct, e)
  BY <1>1 DEF ShowFit
<1>4. Item(p) \in job[p].todo /\ Item(p).inst = job[p].inst
  BY ItemAtHand
<1>5. ASSUME NEW e \in job'[p].list \ job'[p].todo PROVE Shown(row', job'[p].acct, e)
  <2>1. CASE e = Item(p)
    BY <1>2, <1>4, <2>1 DEF Shown
  <2>2. CASE e # Item(p)
    <3>1. e \in job[p].list \ job[p].todo /\ e.inst # job[p].inst
      BY <1>2, <1>3, <1>4, <1>5, <2>2
    <3>2. PICK n \in LinkedIn(row, job[p].acct, e.inst) : row[n].pub = e.ip /\ ~row[n].missing
      BY <1>3, <3>1 DEF Shown
    <3>3. n # m
      BY <3>1, <3>2 DEF LinkedIn, Exists
    <3>4. row'[n] = row[n]
      BY <3>2, <3>3 DEF OnlyRow, LinkedIn
    <3>5. n \in LinkedIn(row', job'[p].acct, e.inst)
      BY <1>2, <3>2, <3>4 DEF LinkedIn
    <3>6. QED
      BY <3>2, <3>4, <3>5 DEF Shown
  <2>3. QED
    BY <2>1, <2>2
<1>6. QED
  BY <1>2, <1>3, <1>5 DEF ShowFit

LEMMA InsertsShows ==
    ASSUME TableInv, ShowInv, NEW p \in Procs, NEW m \in Machines, Inserts(p, m)
    PROVE  ShowFit(job'[p], row')
<1>1. ~Exists(m)
  BY NewRowIsNew DEF Inserts, TableInv
<1>2. LinkedIn(row, job[p].acct, job[p].inst) = {}
  BY DEF Inserts, LinkedIn, Linked, Exists
<1>3. m \in LinkedIn(row', job[p].acct, job[p].inst)
  BY InsertsEffect DEF TableInv, LinkedIn
<1>4. QED
  BY <1>1, <1>2, <1>3, InsertsEffect, WriterMoves, WriteShows DEF TableInv

LEMMA RefreshesShows ==
    ASSUME TableInv, ShowInv, NEW p \in Procs, Refreshes(p)
    PROVE  ShowFit(job'[p], row')
<1> DEFINE m == job[p].id
<1>1. job[p].at = "write" /\ job[p].op = "sync" /\ m # None /\ m \in Machines
  BY WriterMoves DEF Refreshes, TableInv, IInv, JobsOK, Jobs
<1>2. LinkedIn(row, job[p].acct, job[p].inst) = {m}
  BY <1>1 DEF ShowInv, ShowFit
<1>3. Exists(m) /\ row[m].acct = job[p].acct /\ row[m].inst = job[p].inst
  BY <1>2 DEF LinkedIn, Exists
<1>4. m \in LinkedIn(row', job[p].acct, job[p].inst)
  BY <1>1, <1>3, RefreshesEffect DEF TableInv, KeepsRows, KeepsLinks, LinkedIn, Exists
<1>5. PICK w \in {"drop", "item"} :
         job'[p] = [job[p] EXCEPT !.at = w, !.todo = job[p].todo \ {Item(p)},
                                  !.inst = None, !.host = None, !.pub = None]
  BY WriterMoves DEF TableInv
<1>6. OnlyRow(row, row', m) /\ row'[m].pub = Item(p).ip /\ ~row'[m].missing
  BY <1>3, RefreshesEffect DEF TableInv
<1>7. QED
  BY <1>1, <1>2, <1>4, <1>5, <1>6, WriteShows DEF TableInv

LEMMA MarksShows ==
    ASSUME TableInv, ShowInv, NEW p \in Procs, Marks(p)
    PROVE  ShowFit(job'[p], row')
<1> DEFINE a == job[p].acct
           seen == {e.inst : e \in job[p].list}
<1>1. job[p] \in Jobs /\ job[p].op = "sync" /\ job[p].at = "item" /\ job[p].todo = {} /\ a # None
  BY WriterMoves, CloudSyncAssumption DEF Marks, TableInv, IInv, JobsOK, JobFit
<1>2. /\ \A e, f \in job[p].list : e.inst = f.inst => e = f
      /\ \A e \in job[p].list : Shown(row, a, e)
  BY <1>1 DEF ShowInv, ShowFit
<1>3. /\ job'[p].op = "sync" /\ job'[p].at = "result" /\ job'[p].acct = a
      /\ job'[p].list = job[p].list /\ job'[p].todo = {}
  BY <1>1, WriterMoves DEF Jobs, TableInv
<1>4. ASSUME NEW m \in Machines, Exists(m)
      PROVE  /\ Exists(m)' /\ row'[m].acct = row[m].acct /\ row'[m].inst = row[m].inst
             /\ row'[m].pub = row[m].pub
             /\ row'[m].missing <=>
                   row[m].missing \/ (row[m].acct = a /\ row[m].inst \notin seen \cup {None})
  BY <1>4, MarksEffect DEF TableInv, KeepsRows, KeepsHosts, KeepsLinks, Exists
<1>5. ASSUME NEW e \in job[p].list
      PROVE  \E m \in Machines : /\ Exists(m) /\ row[m].acct = a /\ row[m].inst = e.inst
                                 /\ row[m].pub = e.ip /\ ~row[m].missing
  BY <1>2, <1>5 DEF Shown, LinkedIn, Exists
<1>6. ASSUME NEW e \in job[p].list PROVE Shown(row', a, e)
  <2>1. e.inst \in seen
    OBVIOUS
  <2>2. PICK m \in Machines : /\ Exists(m) /\ row[m].acct = a /\ row[m].inst = e.inst
                              /\ row[m].pub = e.ip /\ ~row[m].missing
    BY <1>5
  <2>3. /\ Exists(m)' /\ row'[m].acct = a /\ row'[m].inst = e.inst
        /\ row'[m].pub = e.ip /\ ~row'[m].missing
    BY <1>4, <2>1, <2>2
  <2>4. QED
    BY <2>3 DEF Shown, LinkedIn, Exists
<1>7. ASSUME NEW m \in Machines, Exists(m)', row'[m].acct = a
      PROVE  row'[m].missing <=> row'[m].inst \notin seen
  <2>1. Exists(m)
    BY <1>7, MarksEffect DEF TableInv, KeepsRows, Exists
  <2>2. row[m].acct = a /\ row[m].inst # None
    BY <1>1, <1>4, <1>7, <2>1, RowOfMachine DEF TableInv, IInv, LinkOK
  <2>3. CASE row[m].inst \in seen
    <3>1. PICK e \in job[p].list : e.inst = row[m].inst
      BY <2>3
    <3>2. PICK n \in Machines : /\ Exists(n) /\ row[n].acct = a /\ row[n].inst = e.inst
                                /\ ~row[n].missing
      BY <1>5
    <3>3. n = m
      BY <1>1, <2>1, <2>2, <3>1, <3>2 DEF TableInv, OneRowEach
    <3>4. QED
      BY <1>4, <2>1, <2>3, <3>2, <3>3
  <2>4. CASE row[m].inst \notin seen
    BY <1>4, <2>1, <2>2, <2>4
  <2>5. QED
    BY <2>3, <2>4
<1>8. {e.inst : e \in job'[p].list} = seen
  BY <1>3
<1>9. \A e \in job'[p].list \ job'[p].todo : Shown(row', job'[p].acct, e)
  BY <1>3, <1>6
<1>10. \A m \in Machines : row'[m] # None /\ row'[m].acct = job'[p].acct =>
          (row'[m].missing <=> row'[m].inst \notin {e.inst : e \in job'[p].list})
  BY <1>3, <1>7, <1>8 DEF Exists
<1>11. QED
  BY <1>2, <1>3, <1>9, <1>10 DEF ShowFit

LEMMA DropsShows ==
    ASSUME TableInv, ShowInv, NEW p \in Procs, Drops(p) \/ Resets(p), job[p].op = "sync"
    PROVE  ShowFit(job'[p], row')
<1>1. job[p] \in Jobs /\ ShowFit(job[p], row) /\ job[p].at \in {"drop", "reset"}
      /\ job[p].id \in Machines
  BY DEF Drops, Resets, At, TableInv, ShowInv, IInv, JobsOK, JobFit, AtRow
<1>2. PICK w \in {"reset", "item"} : job' = [job EXCEPT ![p] = [job[p] EXCEPT !.at = w]]
  BY DEF Drops, Resets, Goto
<1>3. /\ job'[p].op = "sync" /\ job'[p].at = w /\ job'[p].acct = job[p].acct
      /\ job'[p].list = job[p].list /\ job'[p].todo = job[p].todo
  BY <1>1, <1>2 DEF TableInv, IInv, JobsOK, Jobs
<1>4. Keeps(row, row')
  BY <1>1, SetReachEffect, SameKeeps DEF Drops, Resets, db, tables, TableInv, IInv
<1>5. ShowFit(job[p], row')
  BY <1>1, <1>4, KeepsShow
<1>6. QED
  BY <1>1, <1>3, <1>5 DEF ShowFit

LEMMA ShowStep ==
    ASSUME Undisturbed(Users), TableInv, ShowInv, [Next]_vars
    PROVE  ShowInv'
<1> SUFFICES ASSUME NEW p \in Procs PROVE ShowFit(job'[p], row')
  BY DEF ShowInv
<1>1. CASE job'[p] = job[p]
  <2>1. CASE job[p].op = "sync"
    BY <1>1, <2>1, StillSync, KeepsShow DEF ShowInv
  <2>2. CASE job[p].op # "sync"
    BY <1>1, <2>2 DEF ShowFit
  <2>3. QED
    BY <2>1, <2>2
<1> DEFINE off(j) == j.op # "sync" \/ j.at \in {"account", "list"}
<1>2. \A j : off(j) => ShowFit(j, row')
  BY DEF ShowFit
<1>3. job[p] \in Jobs /\ JobFit(job[p]) /\ job \in [Procs -> Jobs]
  BY DEF TableInv, IInv, JobsOK
<1>4. off(Idle)
  BY IdleFits
<1>5. CASE Crash \/ Finish(p)
  BY <1>2, <1>3, <1>4, <1>5 DEF Crash, Finish
<1>6. CASE Start(p)
  BY <1>1, <1>2, <1>3, <1>6
  DEF Start, StartSync, StartUpdate, StartDelete, StartPower, StartCheck, Creates, CreatesAccount,
      DeletesAccount, Idle
<1>7. CASE SyncStep(p)
  <2>1. CASE FindsAccount(p)
    BY <1>2, <1>3, <2>1 DEF FindsAccount, Goto, Jobs
  <2>2. QED
    BY <1>5, <1>7, <2>1, ListWorksShows, SelectsShows, InsertsShows, RefreshesShows, MarksShows
    DEF SyncStep, NoProvider, ListFails, InsertFails, Records, Unlock
<1>8. CASE Step(p)
  <2>1. CASE job[p].op = "sync"
    <3>1. job[p].at \notin AtRow \/ job[p].at \in {"drop", "reset"}
      BY <1>3, <2>1 DEF JobFit, OpFits, AtRow
    <3>2. Drops(p) \/ Resets(p)
      BY <1>8, <3>1
      DEF Step, UpdateWrites, UpdateFails, Removes, PowerFails, PowerWorks, PowerAsks, PowerStores,
          CheckWorks, CheckFails, ReachOK, ReachBad, DropBad, At, AtRow
    <3>3. QED
      BY <2>1, <3>2, DropsShows
  <2>2. CASE job[p].op # "sync"
    <3>1. ASSUME NEW w, Goto(p, w) PROVE job'[p].op = job[p].op
      BY <1>3, <3>1 DEF Goto, Jobs
    <3>2. CASE PowerAsks(p)
      <4> DEFINE j == [job[p] EXCEPT !.at = "store", !.power = cloud[job[p].inst].power]
      <4>1. Finish(p) \/ job' = [job EXCEPT ![p] = j]
        BY <3>2 DEF PowerAsks
      <4>2. j.op = job[p].op
        BY <1>3 DEF Jobs
      <4> HIDE DEF j
      <4>3. QED
        BY <1>2, <1>3, <1>5, <2>2, <4>1, <4>2
    <3>3. CASE CheckWorks(p) \/ CheckFails(p)
      <4> DEFINE j(w) == [job[p] EXCEPT !.at = w, !.host = None, !.pub = Reached(p)]
      <4>1. \E w : job' = [job EXCEPT ![p] = j(w)]
        BY <3>3 DEF CheckWorks, CheckFails
      <4>2. \A w : j(w).op = job[p].op
        BY <1>3 DEF Jobs
      <4> HIDE DEF j
      <4>3. QED
        BY <1>2, <1>3, <2>2, <4>1, <4>2
    <3>4. CASE Drops(p)
      BY <1>2, <2>2, <3>1, <3>4 DEF Drops
    <3>5. ASSUME NEW w, GoesOn(p, w) PROVE job'[p].op = job[p].op
      BY <1>3, <3>5 DEF GoesOn, Idle
    <3>6. CASE UpdateWrites(p) \/ ReachBad(p) \/ PowerWorks(p)
      BY <1>2, <1>5, <2>2, <3>1, <3>5, <3>6 DEF UpdateWrites, ReachBad, PowerWorks
    <3>7. QED
      BY <1>2, <1>5, <1>8, <2>2, <3>1, <3>2, <3>3, <3>4, <3>6
      DEF Step, Resets, UpdateFails, Removes, PowerFails, PowerStores, ReachOK, DropBad
  <2>3. QED
    BY <2>1, <2>2
<1>9. QED
  BY <1>1, <1>5, <1>6, <1>7, <1>8, OthersStay DEF TableInv

\* A sync leaves the table as the provider described the account: every listed
\* instance has its one machine with the listed address, unflagged, and every
\* other machine of the account is flagged. Syncs, power actions, checks and
\* crashes may overlap; or anything, one at a time. An incomplete list is shown
\* as faithfully as a complete one.
THEOREM SyncsShowTheirLists ==
    ASSUME Undisturbed(Users)
    PROVE  Spec => []SyncShowsTheList
<1>1. Init => ShowInv
  BY IdleFits DEF Init, ShowInv, ShowFit
<1>2. TableInv /\ ShowInv /\ [Next]_vars => ShowInv'
  BY ShowStep
<1>3. TableInv /\ ShowInv => SyncShowsTheList
  <2> SUFFICES ASSUME TableInv, ShowInv, NEW p \in Procs, job[p].at = "result"
               PROVE  /\ \A e \in job[p].list : \E m \in Linked(job[p].acct, e.inst) :
                            row[m].pub = e.ip /\ ~row[m].missing
                      /\ \A m \in Machines : Exists(m) /\ row[m].acct = job[p].acct =>
                            (row[m].missing <=> row[m].inst \notin {e.inst : e \in job[p].list})
    BY DEF SyncShowsTheList, At
  <2>1. job[p].op = "sync" /\ ShowFit(job[p], row)
    BY DEF TableInv, IInv, JobsOK, JobFit, OpFits, AtList, ShowInv
  <2>2. QED
    BY <2>1 DEF ShowFit, Shown, LinkedIn, Linked, Exists
<1>4. QED
  BY TableInvariance, <1>1, <1>2, <1>3, PTL DEF Spec

-----------------------------------------------------------------------------
(* A connection is never there before its machine: an ID a request holds   *)
(* was given out.                                                          *)

HeldGiven == \A p \in Procs : job[p].id # None => job[p].id \in ids
PoolGiven == \A m \in Machines : pool[m] # None => m \in ids

LEMMA IdsStay == ASSUME IInv, [Next]_vars PROVE ids \subseteq ids'
<1>1. CASE RowWriter
  BY <1>1 DEF RowWriter, Refreshes, Marks, UpdateWrites, Removes, Inserts, Creates, DeletesAccount
<1>2. QED
  BY <1>1, RowEffects

LEMMA HeldStep ==
    ASSUME IInv, IdsGiven, HeldGiven, [Next]_vars
    PROVE  HeldGiven'
<1> USE DEF JobsOK
<1>1. job \in [Procs -> Jobs] /\ ids \subseteq ids'
  BY IdsStay DEF IInv
<1>2. ASSUME NEW q \in Procs, NEW j, j.id # None => j.id \in ids, job' = [job EXCEPT ![q] = j]
      PROVE  HeldGiven'
  BY <1>1, <1>2 DEF HeldGiven
<1>3. ASSUME NEW q \in Procs, NEW j, j.id = job[q].id, job' = [job EXCEPT ![q] = j]
      PROVE  HeldGiven'
  BY <1>1, <1>3 DEF HeldGiven
<1>4. ASSUME NEW q \in Procs, NEW w, Goto(q, w) PROVE HeldGiven'
  <2> DEFINE j == [job[q] EXCEPT !.at = w]
  <2>1. j.id = job[q].id /\ job' = [job EXCEPT ![q] = j]
    BY <1>1, <1>4 DEF Goto, Jobs
  <2> HIDE DEF j
  <2>2. QED
    BY <1>3, <2>1
<1>5. ASSUME NEW q \in Procs, Finish(q) PROVE HeldGiven'
  <2>1. Idle.id = None
    BY DEF Idle
  <2>2. QED
    BY <1>2, <1>5, <2>1 DEF Finish
<1>6. ASSUME NEW q \in Procs, NEW w, NextItem(q, w) PROVE HeldGiven'
  <2> DEFINE j == [job[q] EXCEPT !.at = w, !.todo = job[q].todo \ {Item(q)},
                                 !.inst = None, !.host = None, !.pub = None]
  <2>1. j.id = job[q].id /\ job' = [job EXCEPT ![q] = j]
    BY <1>1, <1>6 DEF NextItem, Jobs
  <2> HIDE DEF j
  <2>2. QED
    BY <1>3, <2>1
<1>7. ASSUME NEW q \in Procs, NEW w, GoesOn(q, w) PROVE HeldGiven'
  <2> DEFINE j == [Idle EXCEPT !.op = job[q].op, !.at = w, !.id = job[q].id]
  <2>1. j.id = job[q].id /\ job' = [job EXCEPT ![q] = j]
    BY <1>7 DEF GoesOn, Idle
  <2> HIDE DEF j
  <2>2. QED
    BY <1>3, <2>1
<1>8. ASSUME NEW q \in Procs, Start(q) PROVE HeldGiven'
  <2>1. CASE \E a \in acctIds : StartSync(q, a)
    <3>1. PICK a \in acctIds : StartSync(q, a)
      BY <2>1
    <3> DEFINE j == [Idle EXCEPT !.op = "sync", !.at = "account", !.acct = a]
    <3>2. job' = [job EXCEPT ![q] = j] /\ j.id = None
      BY <3>1 DEF StartSync, Idle
    <3> HIDE DEF j
    <3>3. QED
      BY <1>2, <3>2
  <2>2. CASE \E m \in Machines, f \in Forms : StartUpdate(q, m, f)
    <3>1. PICK m \in Machines, f \in Forms : StartUpdate(q, m, f)
      BY <2>2
    <3> DEFINE j == [Idle EXCEPT !.op = "update", !.at = "edit", !.id = m, !.host = row[m].host,
                                 !.form = f]
    <3>2. job' = [job EXCEPT ![q] = j] /\ j.id = m /\ m \in ids
      BY <3>1 DEF StartUpdate, Idle, IdsGiven
    <3> HIDE DEF j
    <3>3. QED
      BY <1>2, <3>2
  <2>3. CASE \E m \in Machines : StartDelete(q, m)
    <3>1. PICK m \in Machines : StartDelete(q, m)
      BY <2>3
    <3> DEFINE j == [Idle EXCEPT !.op = "delete", !.at = "drop", !.id = m]
    <3>2. job' = [job EXCEPT ![q] = j] /\ j.id = m /\ m \in ids
      BY <3>1 DEF StartDelete, Idle, IdsGiven
    <3> HIDE DEF j
    <3>3. QED
      BY <1>2, <3>2
  <2>4. CASE \E m \in Machines : StartPower(q, m)
    <3>1. PICK m \in Machines : StartPower(q, m)
      BY <2>4
    <3> DEFINE j == [Idle EXCEPT !.op = "power", !.at = "power", !.id = m,
                                 !.acct = row[m].acct, !.inst = row[m].inst]
    <3>2. job' = [job EXCEPT ![q] = j] /\ j.id = m /\ m \in ids
      BY <3>1 DEF StartPower, Idle, IdsGiven
    <3> HIDE DEF j
    <3>3. QED
      BY <1>2, <3>2
  <2>5. CASE \E m \in Machines : StartCheck(q, m)
    <3>1. PICK m \in Machines : StartCheck(q, m)
      BY <2>5
    <3> DEFINE j == [Idle EXCEPT !.op = "check", !.at = "exec", !.id = m, !.host = row[m].host]
    <3>2. job' = [job EXCEPT ![q] = j] /\ j.id = m /\ m \in ids
      BY <3>1 DEF StartCheck, Idle, IdsGiven
    <3> HIDE DEF j
    <3>3. QED
      BY <1>2, <3>2
  <2>6. CASE job' = job
    BY <1>1, <2>6 DEF HeldGiven
  <2>7. QED
    BY <1>8, <2>1, <2>2, <2>3, <2>4, <2>5, <2>6
    DEF Start, Creates, CreatesAccount, DeletesAccount
<1>9. ASSUME NEW q \in Procs, SyncStep(q) PROVE HeldGiven'
  <2>1. ASSUME NEW e \in job[q].todo, Selects(q, e) PROVE HeldGiven'
    <3>1. job'[q].id # None => job'[q].id \in ids
      BY <2>1, SelectedFits DEF Linked, IdsGiven
    <3>2. \A p \in Procs \ {q} : job'[p] = job[p]
      BY <1>1, <2>1 DEF Selects
    <3>3. QED
      BY <1>1, <3>1, <3>2 DEF HeldGiven
  <2>2. CASE ListWorks(q)
    <3>1. PICK list : job' = [job EXCEPT ![q] = [job[q] EXCEPT !.at = "item", !.list = list,
                                                               !.todo = list, !.was = There]]
      BY <2>2 DEF ListWorks
    <3> DEFINE j == [job[q] EXCEPT !.at = "item", !.list = list, !.todo = list, !.was = There]
    <3>2. job' = [job EXCEPT ![q] = j] /\ j.id = job[q].id
      BY <1>1, <3>1 DEF Jobs
    <3> HIDE DEF j
    <3>3. QED
      BY <1>3, <3>2
  <2>3. QED
    BY <1>4, <1>5, <1>6, <1>9, <2>1, <2>2
    DEF SyncStep, FindsAccount, NoProvider, ListFails, Inserts, InsertFails, Refreshes, Marks,
        Records, Unlock
<1>10. ASSUME NEW q \in Procs, Step(q) PROVE HeldGiven'
  <2>1. CASE PowerAsks(q)
    <3> DEFINE j == [job[q] EXCEPT !.at = "store", !.power = cloud[job[q].inst].power]
    <3>1. Finish(q) \/ job' = [job EXCEPT ![q] = j]
      BY <2>1 DEF PowerAsks
    <3>2. j.id = job[q].id
      BY <1>1 DEF Jobs
    <3> HIDE DEF j
    <3>3. QED
      BY <1>3, <1>5, <3>1, <3>2
  <2>2. CASE CheckWorks(q) \/ CheckFails(q)
    <3> DEFINE j(w) == [job[q] EXCEPT !.at = w, !.host = None, !.pub = Reached(q)]
    <3>1. \E w : job' = [job EXCEPT ![q] = j(w)]
      BY <2>2 DEF CheckWorks, CheckFails
    <3>2. \A w : j(w).id = job[q].id
      BY <1>1 DEF Jobs
    <3> HIDE DEF j
    <3>3. QED
      BY <1>3, <3>1, <3>2
  <2>3. CASE Drops(q)
    BY <1>4, <2>3 DEF Drops
  <2>4. QED
    BY <1>4, <1>5, <1>7, <1>10, <2>1, <2>2, <2>3
    DEF Step, Resets, UpdateWrites, UpdateFails, Removes, PowerFails, PowerWorks, PowerStores,
        ReachOK, ReachBad, DropBad
<1>11. CASE Crash
  BY <1>11 DEF Crash, Idle, HeldGiven
<1>12. CASE UNCHANGED vars \/ \E i \in Instances : CloudChanges(i)
  BY <1>1, <1>12 DEF vars, CloudChanges, HeldGiven
<1>13. QED
  BY <1>8, <1>9, <1>10, <1>11, <1>12 DEF Next

LEMMA PoolStep ==
    ASSUME IInv, HeldGiven, PoolGiven, [Next]_vars
    PROVE  PoolGiven'
<1>1. ids \subseteq ids' /\ pool \in [Machines -> Addresses \cup {None}]
  BY IdsStay DEF IInv, RestOK
<1>2. CASE pool' = pool
  BY <1>1, <1>2 DEF PoolGiven
<1>3. ASSUME NEW m, Unpool(m) PROVE PoolGiven'
  BY <1>1, <1>3 DEF PoolGiven, Unpool
<1>4. ASSUME NEW p \in Procs, Start(p) PROVE PoolGiven'
  BY <1>2, <1>4
  DEF Start, StartSync, StartUpdate, StartDelete, StartPower, StartCheck, Creates, CreatesAccount,
      DeletesAccount
<1>5. ASSUME NEW p \in Procs, SyncStep(p) PROVE PoolGiven'
  BY <1>2, <1>5
  DEF SyncStep, FindsAccount, NoProvider, ListFails, ListWorks, Selects, Inserts, InsertFails,
      Refreshes, Marks, Records
<1>6. ASSUME NEW p \in Procs, Step(p) PROVE PoolGiven'
  <2>1. CASE CheckWorks(p)
    <3>1. job[p].id \in ids
      BY <2>1, ReachedFits, CloudSyncAssumption DEF CheckWorks, At, IInv, HeldGiven
    <3>2. QED
      BY <1>1, <2>1, <3>1 DEF CheckWorks, PoolGiven
  <2>2. QED
    BY <1>2, <1>3, <1>6, <2>1
    DEF Step, Drops, Resets, UpdateWrites, UpdateFails, Removes, PowerFails, PowerWorks, PowerAsks,
        PowerStores, CheckFails, ReachOK, ReachBad, DropBad
<1>7. CASE Crash
  BY <1>7 DEF Crash, PoolGiven
<1>8. CASE UNCHANGED vars \/ \E i \in Instances : CloudChanges(i)
  BY <1>2, <1>8 DEF vars, CloudChanges
<1>9. QED
  BY <1>4, <1>5, <1>6, <1>7, <1>8 DEF Next

-----------------------------------------------------------------------------
(* What is left of an old address: of each thing of each machine, after    *)
(* every step of anyone.                                                   *)

HostThings == {"pool", "reach"}

Accounted(t, m) ==
    Exists(m) => Fits(t, m, row[m].host) \/ t \in strays[m] \/ \E p \in Procs : Owes(p, t, m)

\* Who writes none of the address, the reach state and the connection; and
\* strays only grow.
HostWriter ==
    \/ Crash
    \/ \E p \in Procs : \/ Refreshes(p) \/ UpdateWrites(p) \/ Removes(p) \/ Drops(p) \/ Resets(p)
                        \/ CheckWorks(p) \/ ReachOK(p) \/ ReachBad(p) \/ DropBad(p)
    \/ \E p \in Procs, m \in Machines : Inserts(p, m)
    \/ \E p \in Procs, m \in Machines, f \in Forms : Creates(p, m, f)

LEMMA HostEffects ==
    ASSUME IInv, [Next]_vars
    PROVE  \/ HostWriter
           \/ /\ KeepsRows(row, row') /\ KeepsHosts(row, row') /\ KeepsReach(row, row')
              /\ pool' = pool /\ \A m \in Machines : strays[m] \subseteq strays'[m]
<1> DEFINE Quiet == /\ KeepsRows(row, row') /\ KeepsHosts(row, row') /\ KeepsReach(row, row')
                    /\ pool' = pool /\ \A m \in Machines : strays[m] \subseteq strays'[m]
<1>1. row' = row /\ pool' = pool /\ strays' = strays => Quiet
  BY SameKeeps DEF Keeps
<1>2. ASSUME NEW p \in Procs, Start(p) PROVE HostWriter \/ Quiet
  <2>1. ASSUME NEW a \in Accounts, DeletesAccount(p, a) PROVE Quiet
    BY <2>1, DeletesAccountEffect DEF DeletesAccount
  <2>2. QED
    BY <1>1, <1>2, <2>1
    DEF Start, StartSync, StartUpdate, StartDelete, StartPower, StartCheck, CreatesAccount, db,
        tables, HostWriter
<1>3. ASSUME NEW p \in Procs, SyncStep(p) PROVE HostWriter \/ Quiet
  <2>1. CASE Marks(p)
    BY <2>1, MarksEffect DEF Marks
  <2>2. QED
    BY <1>1, <1>3, <2>1
    DEF SyncStep, FindsAccount, NoProvider, ListFails, ListWorks, Selects, InsertFails, Records, db,
        tables, HostWriter
<1>4. ASSUME NEW p \in Procs, Step(p) PROVE HostWriter \/ Quiet
  <2>1. CASE PowerStores(p)
    BY <2>1, PowerStoresEffect DEF PowerStores, Keeps
  <2>2. QED
    BY <1>1, <1>4, <2>1
    DEF Step, UpdateFails, PowerFails, PowerWorks, PowerAsks, CheckFails, db, tables, HostWriter
<1>5. CASE UNCHANGED vars \/ Crash \/ \E i \in Instances : CloudChanges(i)
  BY <1>1, <1>5 DEF vars, db, tables, CloudChanges, HostWriter
<1>6. QED
  BY <1>2, <1>3, <1>4, <1>5 DEF Next

\* Whoever moved the machine still owes it until it does the next of its steps.
LEMMA OwesStays ==
    ASSUME IInv, [Next]_vars, ~HostWriter, NEW p \in Procs, NEW t, NEW m, Owes(p, t, m)
    PROVE  Owes(p, t, m)'
<1>1. job'[p] = job[p]
  <2> SUFFICES ASSUME job'[p] # job[p] PROVE FALSE
    OBVIOUS
  <2>1. Start(p) \/ SyncStep(p) \/ Step(p)
    BY OthersStay DEF HostWriter
  <2>2. job[p].at \in {"drop", "reset"}
    BY DEF Owes, At
  <2>3. QED
    BY <2>1, <2>2
    DEF Start, StartSync, StartUpdate, StartDelete, StartPower, StartCheck, Creates,
        CreatesAccount, DeletesAccount, SyncStep, FindsAccount, NoProvider, ListFails,
        ListWorks, Selects, Inserts, InsertFails, Refreshes, Marks, Records, Step, UpdateWrites,
        UpdateFails, Removes, PowerFails, PowerWorks, PowerAsks, PowerStores, CheckWorks,
        CheckFails, ReachOK, ReachBad, DropBad, At, HostWriter
<1>2. QED
  BY <1>1 DEF Owes, At

\* A thing that is not made anew: its machine stays where it is, or what does
\* not fit the new address is noted.
LEMMA NotMadeAnew ==
    ASSUME NEW t \in HostThings, NEW m \in Machines, Accounted(t, m), Exists(m),
           row'[m].reach = row[m].reach, row'[m].of = row[m].of, pool'[m] = pool[m],
           row'[m].host = row[m].host \/ Overtaken(m, row'[m].host) \subseteq strays'[m],
           t \in strays[m] => t \in strays'[m],
           \A p \in Procs : Owes(p, t, m) => Owes(p, t, m)'
    PROVE  Accounted(t, m)'
<1>1. CASE row'[m].host = row[m].host
  BY <1>1 DEF Accounted, Fits, Exists
<1>2. CASE row'[m].host # row[m].host
  <2>1. CASE Fits(t, m, row'[m].host)
    BY <2>1 DEF Accounted, Fits
  <2>2. CASE ~Fits(t, m, row'[m].host)
    BY <1>2, <2>2 DEF Accounted, Overtaken, HostThings
  <2>3. QED
    BY <2>1, <2>2
<1>3. QED
  BY <1>1, <1>2

\* Nothing about the machine is written.
LEMMA OtherMachine ==
    ASSUME NEW t \in HostThings, NEW m \in Machines, Accounted(t, m), row'[m] = row[m],
           pool'[m] = pool[m], t \in strays[m] => t \in strays'[m],
           \A p \in Procs : Owes(p, t, m) => Owes(p, t, m)'
    PROVE  Accounted(t, m)'
<1>1. CASE Exists(m)
  BY <1>1, NotMadeAnew
<1>2. CASE ~Exists(m)
  BY <1>2 DEF Accounted, Exists
<1>3. QED
  BY <1>1, <1>2

ForgetInv == \A t \in HostThings, m \in Machines : Accounted(t, m)

\* A step of q, who does not owe the thing, leaves what the others owe.
LEMMA OthersOwe ==
    ASSUME NEW q \in Procs, NEW t, NEW m, ~Owes(q, t, m), \A p \in Procs \ {q} : job'[p] = job[p]
    PROVE  \A p \in Procs : Owes(p, t, m) => Owes(p, t, m)'
  BY DEF Owes, At

\* ssh_host is overwritten, by a sync or by the form.
LEMMA RefreshesForgets ==
    ASSUME IInv, StraysOK, ForgetInv, NEW q \in Procs, Refreshes(q)
    PROVE  ForgetInv'
<1> SUFFICES ASSUME NEW t \in HostThings, NEW m \in Machines PROVE Accounted(t, m)'
  BY DEF ForgetInv, Accounted
<1> DEFINE n == job[q].id
           w == IF Follows(q) THEN "drop" ELSE "item"
           lost == IF Follows(q) THEN {} ELSE Overtaken(n, job[q].host)
<1>1. /\ job \in [Procs -> Jobs] /\ job[q].at = "write" /\ job[q].op = "sync" /\ pool' = pool
      /\ n # None /\ n \in Machines
  BY WriterMoves DEF Refreshes, IInv, JobsOK, Jobs
<1>2. /\ strays' = [strays EXCEPT ![n] = (@ \ {"link"}) \cup lost]
      /\ job' = [job EXCEPT ![q] = [job[q] EXCEPT !.at = w, !.todo = job[q].todo \ {Item(q)},
                                                  !.inst = None, !.host = None, !.pub = None]]
  BY DEF Refreshes, Writes, NextItem
<1> HIDE DEF w, lost
<1>3. job'[q].at = w /\ job'[q].id = n /\ job'[q].op = "sync"
      /\ \A p \in Procs \ {q} : job'[p] = job[p]
  BY <1>1, <1>2 DEF Jobs
<1>4. \A p \in Procs : Owes(p, t, m) => Owes(p, t, m)'
  BY <1>1, <1>3, OthersOwe DEF Owes, At
<1>5. OnlyRow(row, row', n) /\ KeepsRows(row, row') /\ KeepsReach(row, row')
      /\ (Exists(n) => row'[n].host = IF Follows(q) THEN Item(q).ip ELSE job[q].host)
  BY RefreshesEffect
<1>6. t \in strays[m] => t \in strays'[m]
  BY <1>1, <1>2 DEF StraysOK, HostThings
<1>7. Accounted(t, m)
  BY DEF ForgetInv
<1>8. CASE m # n \/ ~Exists(m)
  <2>1. row'[m] = row[m]
    BY <1>5, <1>8 DEF OnlyRow, KeepsRows, Exists
  <2>2. QED
    BY <1>1, <1>4, <1>6, <1>7, <2>1, OtherMachine
<1>9. CASE m = n /\ Exists(m) /\ Follows(q)
  <2>1. Owes(q, t, m)'
    BY <1>3, <1>9 DEF Owes, At, w
  <2>2. QED
    BY <2>1 DEF Accounted
<1>10. CASE m = n /\ Exists(m) /\ ~Follows(q)
  <2>1. row'[m].host = job[q].host /\ row'[m].reach = row[m].reach /\ row'[m].of = row[m].of
    BY <1>5, <1>10 DEF KeepsRows, KeepsReach, Exists
  <2>2. Overtaken(m, row'[m].host) \subseteq strays'[m]
    BY <1>1, <1>2, <1>10, <2>1 DEF StraysOK, lost
  <2>3. QED
    BY <1>1, <1>4, <1>6, <1>7, <1>10, <2>1, <2>2, NotMadeAnew
<1>11. QED
  BY <1>8, <1>9, <1>10

LEMMA UpdateForgets ==
    ASSUME IInv, StraysOK, ForgetInv, NEW q \in Procs, UpdateWrites(q)
    PROVE  ForgetInv'
<1> SUFFICES ASSUME NEW t \in HostThings, NEW m \in Machines PROVE Accounted(t, m)'
  BY DEF ForgetInv, Accounted
<1> DEFINE n == job[q].id
           f == job[q].form
           moved == f.host # job[q].host
           link == IF Found(n) /\ Exists(n) /\ ~Has(row[n], f.link) THEN {"link"} ELSE {}
           lost == (IF moved THEN {} ELSE Overtaken(n, f.host)) \cup link
<1>1. /\ job \in [Procs -> Jobs] /\ job[q].at = "edit" /\ job[q].op = "update" /\ pool' = pool
      /\ n \in Machines
  BY DEF UpdateWrites, At, IInv, JobsOK, JobFit, OpFits, AtRow
<1>2. /\ strays' = [strays EXCEPT ![n] = (@ \ {}) \cup lost]
      /\ IF moved THEN GoesOn(q, "drop") ELSE Finish(q)
  BY DEF UpdateWrites, Writes
<1> HIDE DEF lost, link
<1>3. (moved => job'[q].at = "drop" /\ job'[q].id = n /\ job'[q].op = "update")
      /\ \A p \in Procs \ {q} : job'[p] = job[p]
  BY <1>1, <1>2 DEF GoesOn, Finish, Idle
<1>4. \A p \in Procs : Owes(p, t, m) => Owes(p, t, m)'
  BY <1>1, <1>3, OthersOwe DEF Owes, At
<1>5. OnlyRow(row, row', n) /\ KeepsRows(row, row') /\ KeepsReach(row, row')
      /\ (Exists(n) => row'[n].host = f.host)
  BY UpdateWritesEffect
<1>6. t \in strays[m] => t \in strays'[m]
  BY <1>1, <1>2 DEF StraysOK
<1>7. Accounted(t, m)
  BY DEF ForgetInv
<1>8. CASE m # n \/ ~Exists(m)
  <2>1. row'[m] = row[m]
    BY <1>5, <1>8 DEF OnlyRow, KeepsRows, Exists
  <2>2. QED
    BY <1>1, <1>4, <1>6, <1>7, <2>1, OtherMachine
<1>9. CASE m = n /\ Exists(m) /\ moved
  <2>1. Owes(q, t, m)'
    BY <1>3, <1>9 DEF Owes, At
  <2>2. QED
    BY <2>1 DEF Accounted
<1>10. CASE m = n /\ Exists(m) /\ ~moved
  <2>1. row'[m].host = f.host /\ row'[m].reach = row[m].reach /\ row'[m].of = row[m].of
    BY <1>5, <1>10 DEF KeepsRows, KeepsReach, Exists
  <2>2. Overtaken(m, row'[m].host) \subseteq strays'[m]
    BY <1>1, <1>2, <1>10, <2>1 DEF StraysOK, lost
  <2>3. QED
    BY <1>1, <1>4, <1>6, <1>7, <1>10, <2>1, <2>2, NotMadeAnew
<1>11. QED
  BY <1>8, <1>9, <1>10

\* The connection is dropped, by whoever moved the machine or by the poller.
LEMMA DropForgets ==
    ASSUME IInv, StraysOK, ForgetInv, NEW q \in Procs, Drops(q) \/ DropBad(q)
    PROVE  ForgetInv'
<1> SUFFICES ASSUME NEW t \in HostThings, NEW m \in Machines PROVE Accounted(t, m)'
  BY DEF ForgetInv, Accounted
<1> DEFINE n == job[q].id
<1>1. /\ job \in [Procs -> Jobs] /\ n \in Machines /\ row' = row
      /\ pool \in [Machines -> Addresses \cup {None}]
      /\ pool' = [pool EXCEPT ![n] = None]
      /\ strays' = [strays EXCEPT ![n] = (@ \ {"pool"}) \cup {}]
  BY DEF Drops, DropBad, Unpool, Writes, tables, At, IInv, JobsOK, JobFit, AtRow, RestOK
<1>2. \A p \in Procs \ {q} : job'[p] = job[p]
  BY <1>1 DEF Drops, DropBad, Goto, Finish
<1>3. Owes(q, "reach", m) => Owes(q, "reach", m)'
  <2> DEFINE w == CASE job[q].op = "power" -> "ask" [] job[q].op = "delete" -> "remove"
                    [] OTHER -> "reset"
  <2> SUFFICES ASSUME Owes(q, "reach", m) PROVE Owes(q, "reach", m)'
    OBVIOUS
  <2>1. /\ job[q].op \in {"sync", "update"} /\ job[q].id = m /\ job[q].at \in {"drop", "reset"}
        /\ job[q] \in Jobs
    BY <1>1 DEF Owes, At
  <2>2. Drops(q)
    BY <2>1 DEF DropBad, At
  <2>3. job' = [job EXCEPT ![q] = [job[q] EXCEPT !.at = w]] /\ w = "reset"
    BY <2>1, <2>2 DEF Drops, Goto
  <2> HIDE DEF w
  <2>4. job'[q].at = "reset" /\ job'[q].id = m /\ job'[q].op = job[q].op
    BY <1>1, <2>1, <2>3 DEF Jobs
  <2>5. QED
    BY <2>1, <2>4 DEF Owes, At
<1>4. Accounted(t, m)
  BY DEF ForgetInv
<1>5. CASE m = n /\ t = "pool"
  BY <1>1, <1>5 DEF Accounted, Fits
<1>6. CASE m # n \/ t = "reach"
  <2>1. \A p \in Procs : Owes(p, t, m) => Owes(p, t, m)'
    BY <1>2, <1>3, <1>6 DEF Owes, At
  <2>2. t \in strays[m] => t \in strays'[m]
    BY <1>1, <1>6 DEF StraysOK
  <2>3. CASE m # n
    BY <1>1, <1>4, <2>1, <2>2, <2>3, OtherMachine
  <2>4. CASE t = "reach"
    BY <1>1, <1>4, <2>1, <2>2, <2>4 DEF Accounted, Fits, Exists
  <2>5. QED
    BY <1>6, <2>3, <2>4
<1>7. QED
  BY <1>5, <1>6 DEF HostThings

\* A reach state is written, a measured one or "unknown".
LEMMA ReachForgets ==
    ASSUME IInv, StraysOK, ForgetInv, NEW q \in Procs, Resets(q) \/ ReachOK(q) \/ ReachBad(q)
    PROVE  ForgetInv'
<1> SUFFICES ASSUME NEW t \in HostThings, NEW m \in Machines PROVE Accounted(t, m)'
  BY DEF ForgetInv, Accounted
<1> DEFINE n == job[q].id
<1>1. /\ job \in [Procs -> Jobs] /\ n \in Machines /\ pool' = pool
      /\ job[q].pub \in Addresses \cup {None} /\ job[q].at \in {"reset", "ok", "bad"}
  BY DEF Resets, ReachOK, ReachBad, At, IInv, JobsOK, JobFit, AtRow, Jobs
<1>2. PICK s \in {"unknown", "ok", "bad"}, a \in Addresses \cup {None} : SetReach(n, s, a)
  BY <1>1 DEF Resets, ReachOK, ReachBad
<1>3. \A p \in Procs \ {q} : job'[p] = job[p]
  BY <1>1 DEF Resets, ReachOK, ReachBad, Goto, GoesOn, Finish
<1>4. ~Owes(q, "pool", m)
  BY <1>1 DEF Owes, At
<1>5. Accounted(t, m)
  BY DEF ForgetInv
<1>6. /\ Keeps(row, row') /\ OnlyRow(row, row', n)
      /\ Exists(n) => row'[n].reach = s /\ row'[n].of = a
  BY <1>1, <1>2, SetReachEffect DEF IInv
<1>7. Exists(n) => strays' = [strays EXCEPT ![n] =
             (@ \ {"reach"}) \cup (IF s = "unknown" \/ a = row[n].host THEN {} ELSE {"reach"})]
  BY <1>2 DEF SetReach, Writes
<1>8. ~Exists(n) => strays' = strays
  BY <1>2 DEF SetReach
<1>9. CASE m # n \/ ~Exists(n)
  <2>1. row'[m] = row[m]
    BY <1>6, <1>9 DEF OnlyRow, Keeps, KeepsRows, Exists
  <2>2. t \in strays[m] => t \in strays'[m]
    BY <1>1, <1>7, <1>8, <1>9 DEF StraysOK
  <2>3. CASE m # n
    <3>1. ~Owes(q, t, m)
      BY <2>3 DEF Owes
    <3>2. QED
      BY <1>1, <1>3, <1>5, <2>1, <2>2, <3>1, OthersOwe, OtherMachine
  <2>4. CASE m = n
    BY <1>6, <1>9, <2>4 DEF Accounted, Exists, Keeps, KeepsRows
  <2>5. QED
    BY <2>3, <2>4
<1>10. CASE m = n /\ Exists(n) /\ t = "pool"
  <2>1. \A p \in Procs : Owes(p, t, m) => Owes(p, t, m)'
    BY <1>3, <1>4, <1>10 DEF Owes, At
  <2>2. row'[m].host = row[m].host
    BY <1>1, <1>6, <1>10 DEF Keeps, KeepsRows, KeepsHosts, Exists
  <2>3. "pool" \in strays[m] => "pool" \in strays'[m]
    BY <1>1, <1>7, <1>10 DEF StraysOK
  <2>4. QED
    BY <1>1, <1>5, <1>10, <2>1, <2>2, <2>3 DEF Accounted, Fits
<1>11. CASE m = n /\ Exists(n) /\ t = "reach"
  <2>1. row'[m].host = row[m].host /\ row'[m].reach = s /\ row'[m].of = a
    BY <1>1, <1>6, <1>11 DEF Keeps, KeepsRows, KeepsHosts, Exists
  <2>2. CASE s = "unknown" \/ a = row[m].host
    BY <1>11, <2>1, <2>2 DEF Accounted, Fits
  <2>3. CASE s # "unknown" /\ a # row[m].host
    <3>1. "reach" \in strays'[m]
      BY <1>1, <1>7, <1>11, <2>3 DEF StraysOK
    <3>2. QED
      BY <1>11, <3>1 DEF Accounted
  <2>4. QED
    BY <2>2, <2>3
<1>12. QED
  BY <1>9, <1>10, <1>11 DEF HostThings

\* A check that works leaves a connection to the address it read.
LEMMA CheckForgets ==
    ASSUME IInv, StraysOK, ForgetInv, NEW q \in Procs, CheckWorks(q)
    PROVE  ForgetInv'
<1> SUFFICES ASSUME NEW t \in HostThings, NEW m \in Machines PROVE Accounted(t, m)'
  BY DEF ForgetInv, Accounted
<1> DEFINE n == job[q].id
           wrong == IF pool[n] = None /\ Exists(n) /\ job[q].host # row[n].host
                    THEN {"pool"} ELSE {}
<1>1. /\ job \in [Procs -> Jobs] /\ n \in Machines /\ row' = row
      /\ pool \in [Machines -> Addresses \cup {None}] /\ job[q].at = "exec"
      /\ pool' = [pool EXCEPT ![n] = Reached(q)]
      /\ strays' = [strays EXCEPT ![n] = (@ \ {}) \cup wrong]
  BY DEF CheckWorks, Writes, tables, At, IInv, JobsOK, JobFit, AtRow, RestOK
<1>2. \A p \in Procs \ {q} : job'[p] = job[p]
  BY <1>1 DEF CheckWorks
<1>3. \A p \in Procs : Owes(p, t, m) => Owes(p, t, m)'
  BY <1>1, <1>2, OthersOwe DEF Owes, At
<1>4. t \in strays[m] => t \in strays'[m]
  BY <1>1 DEF StraysOK
<1>5. Accounted(t, m)
  BY DEF ForgetInv
<1>6. CASE m # n \/ pool[n] # None
  <2>1. pool'[m] = pool[m]
    BY <1>1, <1>6 DEF Reached
  <2>2. QED
    BY <1>1, <1>3, <1>4, <1>5, <2>1, OtherMachine
<1>7. CASE m = n /\ pool[n] = None /\ t = "pool"
  <2>1. pool'[m] = job[q].host
    BY <1>1, <1>7 DEF Reached
  <2>2. CASE ~Exists(m)
    BY <1>1, <2>2 DEF Accounted, Exists
  <2>3. CASE Exists(m) /\ job[q].host = row[m].host
    BY <1>1, <1>7, <2>1, <2>3 DEF Accounted, Fits
  <2>4. CASE Exists(m) /\ job[q].host # row[m].host
    <3>1. "pool" \in strays'[m]
      BY <1>1, <1>7, <2>4 DEF StraysOK
    <3>2. QED
      BY <1>7, <3>1 DEF Accounted
  <2>5. QED
    BY <2>2, <2>3, <2>4
<1>8. CASE m = n /\ t = "reach"
  BY <1>1, <1>3, <1>4, <1>5, <1>8 DEF Accounted, Fits, Exists
<1>9. QED
  BY <1>6, <1>7, <1>8 DEF HostThings

\* A row comes, or goes.
LEMMA NewRowForgets ==
    ASSUME IInv, IdsGiven, PoolGiven, ForgetInv, NEW n \in Machines, n \notin ids,
           OnlyRow(row, row', n), row'[n].reach = "unknown", pool' = pool, strays' = strays,
           \A p \in Procs, t \in HostThings, m \in Machines : Owes(p, t, m) => Owes(p, t, m)'
    PROVE  ForgetInv'
<1> SUFFICES ASSUME NEW t \in HostThings, NEW m \in Machines PROVE Accounted(t, m)'
  BY DEF ForgetInv, Accounted
<1>1. CASE m = n
  <2>1. pool'[n] = None
    BY DEF PoolGiven
  <2>2. QED
    BY <1>1, <2>1 DEF Accounted, Fits, HostThings
<1>2. CASE m # n
  <2>1. row'[m] = row[m] /\ Accounted(t, m)
    BY <1>2 DEF OnlyRow, ForgetInv
  <2>2. QED
    BY <2>1, OtherMachine
<1>3. QED
  BY <1>1, <1>2

LEMMA RemovesForgets ==
    ASSUME IInv, StraysOK, ForgetInv, NEW q \in Procs, Removes(q)
    PROVE  ForgetInv'
<1> SUFFICES ASSUME NEW t \in HostThings, NEW m \in Machines PROVE Accounted(t, m)'
  BY DEF ForgetInv, Accounted
<1> DEFINE n == job[q].id
<1>1. /\ OnlyRow(row, row', n) /\ row'[n] = None /\ n \in Machines /\ pool' = pool
      /\ strays' = [strays EXCEPT ![n] = (@ \ Things) \cup {}] /\ job[q].at = "remove"
      /\ \A p \in Procs \ {q} : job'[p] = job[p]
  BY RemovesEffect DEF Removes, Writes, Finish, At, IInv, JobsOK
<1>2. CASE m = n
  BY <1>1, <1>2 DEF Accounted, Exists
<1>3. CASE m # n
  <2>1. row'[m] = row[m] /\ Accounted(t, m) /\ strays'[m] = strays[m]
    BY <1>1, <1>3 DEF OnlyRow, ForgetInv, StraysOK
  <2>2. \A p \in Procs : Owes(p, t, m) => Owes(p, t, m)'
    BY <1>1, OthersOwe DEF Owes, At
  <2>3. QED
    BY <1>1, <2>1, <2>2, OtherMachine
<1>4. QED
  BY <1>2, <1>3

LEMMA ForgetStep ==
    ASSUME TableInv, StraysOK, PoolGiven, ForgetInv, [Next]_vars
    PROVE  ForgetInv'
<1>1. IInv /\ IdsGiven
  BY DEF TableInv
<1>2. ASSUME NEW p \in Procs, NEW n \in Machines, Inserts(p, n) PROVE ForgetInv'
  <2>1. OnlyRow(row, row', n) /\ row'[n].reach = "unknown"
    BY <1>1, <1>2, InsertsEffect
  <2>2. /\ job[p].at = "write" /\ \A q \in Procs \ {p} : job'[q] = job[q]
        /\ n \notin ids /\ pool' = pool /\ strays' = strays
    BY <1>1, <1>2 DEF Inserts, NextItem, At, IInv, JobsOK
  <2>3. \A t \in HostThings, m \in Machines : ~Owes(p, t, m)
    BY <2>2 DEF Owes, At
  <2>4. \A q \in Procs, t \in HostThings, m \in Machines : Owes(q, t, m) => Owes(q, t, m)'
    BY <2>2, <2>3 DEF Owes, At
  <2>5. QED
    BY <1>1, <2>1, <2>2, <2>4, NewRowForgets
<1>3. ASSUME NEW p \in Procs, NEW n \in Machines, NEW f \in Forms, Creates(p, n, f) PROVE ForgetInv'
  <2>1. OnlyRow(row, row', n) /\ row'[n].reach = "unknown"
    BY <1>1, <1>3, CreatesEffect
  <2>2. n \notin ids /\ pool' = pool /\ strays' = strays /\ job' = job
    BY <1>3 DEF Creates
  <2>3. \A q \in Procs, t \in HostThings, m \in Machines : Owes(q, t, m) => Owes(q, t, m)'
    BY <2>2 DEF Owes, At
  <2>4. QED
    BY <1>1, <2>1, <2>2, <2>3, NewRowForgets
<1>4. CASE Crash
  <2> SUFFICES ASSUME NEW t \in HostThings, NEW m \in Machines, Exists(m) PROVE Accounted(t, m)'
    BY <1>4 DEF ForgetInv, Accounted, Crash, tables, Exists
  <2>1. Accounted(t, m) /\ row' = row /\ pool'[m] = None
    BY <1>4 DEF ForgetInv, Crash, tables
  <2>2. CASE t = "pool"
    BY <2>1, <2>2 DEF Accounted, Fits
  <2>3. CASE t = "reach"
    <3>1. strays'[m] = (strays[m] \ {"pool", "link"}) \cup
                          {x \in {"reach"} : \E p \in Procs : Owes(p, x, m)}
      BY <1>4 DEF Crash
    <3>2. QED
      BY <2>1, <2>3, <3>1 DEF Accounted, Fits, Exists
  <2>4. QED
    BY <2>2, <2>3 DEF HostThings
<1>5. CASE ~HostWriter
  <2> SUFFICES ASSUME NEW t \in HostThings, NEW m \in Machines PROVE Accounted(t, m)'
    BY DEF ForgetInv, Accounted
  <2>1. /\ KeepsRows(row, row') /\ KeepsHosts(row, row') /\ KeepsReach(row, row')
        /\ pool' = pool /\ strays[m] \subseteq strays'[m]
    BY <1>1, <1>5, HostEffects
  <2>2. \A p \in Procs : Owes(p, t, m) => Owes(p, t, m)'
    BY <1>1, <1>5, OwesStays
  <2>3. CASE Exists(m)
    <3>1. row'[m].host = row[m].host /\ row'[m].reach = row[m].reach /\ row'[m].of = row[m].of
      BY <2>1, <2>3 DEF KeepsRows, KeepsHosts, KeepsReach, Exists
    <3>2. QED
      BY <2>1, <2>2, <2>3, <3>1, NotMadeAnew DEF ForgetInv
  <2>4. CASE ~Exists(m)
    BY <2>1, <2>4 DEF KeepsRows, Accounted, Exists
  <2>5. QED
    BY <2>3, <2>4
<1>6. QED
  BY <1>1, <1>2, <1>3, <1>4, <1>5, RefreshesForgets, UpdateForgets, DropForgets, ReachForgets,
     CheckForgets, RemovesForgets
  DEF HostWriter

\* "The pooled connection points at the old IP; drop it and reset reachability"
\* (sync): what is pooled goes to the machine's address and a reach state was
\* measured there, or whoever moved the machine is about to see to it,
\* whatever syncs, edits, deletions, accounts, power actions, checks and
\* crashes overlap; but for what a check that began before the move made after
\* it, a move undone by one who had not seen it, and a reset a crash cut off.
THEOREM OldHostIsForgotten == Spec => []NothingOfTheOldHost
<1>1. Init => HeldGiven /\ PoolGiven /\ ForgetInv /\ StraysOK
  BY DEF Init, HeldGiven, PoolGiven, ForgetInv, Accounted, Exists, Idle, StraysOK
<1>2. TableInv /\ StraysOK /\ HeldGiven /\ PoolGiven /\ ForgetInv /\ [Next]_vars =>
         StraysOK' /\ HeldGiven' /\ PoolGiven' /\ ForgetInv'
  BY StraysStep, HeldStep, PoolStep, ForgetStep DEF TableInv
<1>3. ForgetInv => NothingOfTheOldHost
  BY DEF ForgetInv, Accounted, HostThings, NothingOfTheOldHost
<1>4. QED
  BY TableInvariance, <1>1, <1>2, <1>3, PTL DEF Spec
=============================================================================

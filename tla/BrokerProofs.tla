---------------------------- MODULE BrokerProofs ----------------------------
(***************************************************************************)
(* Safety of the broker for any number of machines, goroutines and          *)
(* connections.                                                             *)
(*                                                                          *)
(* The invariants of Broker are not inductive: that a pooled connection is  *)
(* open needs to know that whoever is inside Drop holds a connection that   *)
(* left the pool, and that what a Get is about to insert is in nobody       *)
(* else's hands. IInv says who may hold what.                               *)
(***************************************************************************)
EXTENDS Broker, TLAPS

\* Where a call stands tells what it has at hand.
CallInv ==
    \A p \in Procs :
        /\ pc[p] # "idle" => mid[p] \in Machines
        /\ pc[p] \in {"insert", "open", "pty", "start", "running"} => held[p] \in Conns
        /\ held[p] # None => client[held[p]] # "none"
        /\ pc[p] \notin {"evict", "returned"} => res[p] = "none"
        /\ pc[p] = "evict" => held[p] \in Conns
        /\ res[p] = "timeout" => held[p] \in Conns

\* What Get has dialed and not yet inserted is known to no other goroutine.
InsertInv ==
    \A p \in Procs : pc[p] = "insert" =>
        /\ client[held[p]] = "open"
        /\ home[held[p]] = mid[p]
        /\ ka[held[p]] = "off"
        /\ held[p] \notin done
        /\ \A q \in Procs : held[q] = held[p] => q = p
        /\ \A o \in Owners : drop[o].conn # held[p]

\* What Drop has taken out of the pool is open, in the hands of that Drop
\* alone, and its done channel is closed by it and no other.
DropInv ==
    \A o \in Owners : drop[o] # NoDrop =>
        /\ client[drop[o].conn] = "open"
        /\ \A m \in Machines : pool[m] # drop[o].conn
        /\ drop[o].stage = "done" => drop[o].conn \notin done
        /\ \A o2 \in Owners : drop[o2].conn = drop[o].conn => o2 = o

\* A connection not yet dialed has left no trace; a connection, and its
\* keepalive goroutine, know its machine.
ConnInv ==
    \A c \in Conns :
        /\ client[c] = "none" => ka[c] = "off" /\ c \notin done
        /\ ka[c] # "off" => home[c] \in Machines
        /\ client[c] # "none" => home[c] \in Machines

IInv ==
    /\ TypeOK
    /\ PooledIsLive
    /\ CallInv
    /\ InsertInv
    /\ DropInv
    /\ ConnInv
    /\ NothingLeaks
    /\ TimedOutIsEvicted

-----------------------------------------------------------------------------
\* What Drop's critical section does to the two variables it writes.
LEMMA TakeType ==
    ASSUME TypeOK, NEW o \in Owners, NEW m \in Machines, Take(o, m)
    PROVE  /\ pool' \in [Machines -> Conns \cup {None}]
           /\ drop' \in [Owners -> {NoDrop} \cup [conn : Conns, stage : {"done", "client"}]]
  BY BrokerAssumption DEF TypeOK, Take

\* The variables keep their types: in particular Drop never goes on with an
\* entry that is not there, and nothing but a dialed connection is pooled.
LEMMA TypeStep == IInv /\ [Next]_vars => TypeOK'
<1> SUFFICES ASSUME IInv, [Next]_vars PROVE TypeOK'
  OBVIOUS
<1>0. TypeOK
  BY DEF IInv
<1>m. \A p \in Procs : pc[p] # "idle" => mid[p] \in Machines
  BY DEF IInv, CallInv
<1>i. \A p \in Procs : pc[p] = "insert" => held[p] \in Conns
  BY DEF IInv, CallInv
<1>k. \A c \in Conns : ka[c] # "off" => home[c] \in Machines
  BY DEF IInv, ConnInv
<1>1. ASSUME NEW p \in Procs, NEW o \in Kinds \ {"close"}, NEW m \in Machines, Begin(p, o, m)
      PROVE  TypeOK'
  BY <1>0, <1>1 DEF TypeOK, Begin, wires
<1>2. ASSUME NEW p \in Procs,
             Return(p) \/ GetHit(p) \/ GetMiss(p) \/ DialFails(p) \/ OpenWorks(p) \/ OpenFails(p)
      PROVE  TypeOK'
  BY <1>0, <1>m, <1>2 DEF TypeOK, Return, GetHit, GetMiss, DialFails, OpenWorks, OpenFails, At, wires
<1>3. ASSUME NEW p \in Procs,
             SetupWorks(p) \/ SetupFails(p) \/ CommandEnds(p) \/ ExecExpires(p) \/ CallerCloses(p)
      PROVE  TypeOK'
  BY <1>0, <1>3 DEF TypeOK, SetupWorks, SetupFails, CommandEnds, ExecExpires, CallerCloses, Ends, wires
<1>4. ASSUME NEW p \in Procs, HandlerDrop(p) \/ OpenExpires(p) \/ Evict(p) \/ SetupExpires(p)
      PROVE  TypeOK'
  <2>1. Take(p, mid[p]) /\ mid[p] \in Machines /\ p \in Owners
    BY <1>m, <1>4 DEF HandlerDrop, OpenExpires, Evict, SetupExpires, At, Owners
  <2>2. QED
    BY <1>0, <1>4, <2>1, TakeType
       DEF TypeOK, HandlerDrop, OpenExpires, Evict, SetupExpires, wires
<1>5. ASSUME NEW p \in Procs, NEW c \in Conns, DialWorks(p, c)
      PROVE  TypeOK'
  BY <1>0, <1>5 DEF TypeOK, DialWorks
<1>6. ASSUME NEW p \in Procs, Insert(p) \/ Lose(p)
      PROVE  TypeOK'
  BY <1>0, <1>m, <1>i, <1>6 DEF TypeOK, Insert, Lose, At, wires
<1>7. ASSUME NEW c \in Conns, Asks(c) \/ Alive(c) \/ Quits(c)
      PROVE  TypeOK'
  BY <1>0, <1>7 DEF TypeOK, Asks, Alive, Quits, calls
<1>8. ASSUME NEW c \in Conns, Dead(c)
      PROVE  TypeOK'
  <2>1. Take(c, home[c]) /\ home[c] \in Machines /\ c \in Owners
    BY <1>0, <1>k, <1>8 DEF Dead, Owners
  <2>2. QED
    BY <1>0, <1>8, <2>1, TakeType DEF TypeOK, Dead, calls
<1>9. ASSUME NEW o \in Owners, CloseDone(o) \/ CloseClient(o)
      PROVE  TypeOK'
  BY <1>0, <1>9, BrokerAssumption DEF TypeOK, CloseDone, CloseClient, NoDrop, calls
<1>10. ASSUME CloseBegins \/ CloseEnds
       PROVE  TypeOK'
  BY <1>0, <1>10 DEF TypeOK, CloseBegins, CloseEnds, wires, calls
<1>11. ASSUME NEW m \in Machines, CloseDrops(m)
       PROVE  TypeOK'
  <2>1. Take(Main, m) /\ Main \in Owners
    BY <1>11 DEF CloseDrops, Owners
  <2>2. QED
    BY <1>0, <1>11, <2>1, TakeType DEF TypeOK, CloseDrops, wires, calls
<1>12. ASSUME NEW c \in Conns, NEW how \in {"silent", "reset"}, Fault(c, how)
       PROVE  TypeOK'
  BY <1>0, <1>12 DEF TypeOK, Fault, calls
<1>13. CASE UNCHANGED vars
  BY <1>0, <1>13 DEF TypeOK, vars
<1>14. QED
  BY <1>1, <1>2, <1>3, <1>4, <1>5, <1>6, <1>7, <1>8, <1>9, <1>10, <1>11, <1>12, <1>13
     DEF Next, CallStep, KeepaliveStep, Teardown, CloseStep

\* Steps that touch neither the pool, nor a connection, nor a Drop.
LEMMA QuietStep ==
    ASSUME IInv, TypeOK', NEW p \in Procs,
           \/ \E o \in Kinds \ {"close"}, m \in Machines : Begin(p, o, m)
           \/ Return(p) \/ GetHit(p) \/ GetMiss(p) \/ DialFails(p)
           \/ OpenWorks(p) \/ OpenFails(p) \/ SetupWorks(p) \/ SetupFails(p)
           \/ CommandEnds(p) \/ ExecExpires(p) \/ CallerCloses(p)
    PROVE  IInv'
<1> USE DEF Begin, Return, GetHit, GetMiss, DialFails, OpenWorks, OpenFails, SetupWorks,
            SetupFails, CommandEnds, ExecExpires, CallerCloses, Ends, At
<1>0. TypeOK /\ UNCHANGED <<pool, client, home, done, net, ka, drop>>
  BY DEF IInv, wires
<1>1. PooledIsLive'
  BY <1>0 DEF IInv, PooledIsLive
<1>2. CallInv'
  BY <1>0, BrokerAssumption DEF IInv, CallInv, TypeOK, PooledIsLive
<1>3. InsertInv'
  BY <1>0, BrokerAssumption DEF IInv, InsertInv, CallInv, TypeOK, PooledIsLive
<1>4. DropInv' /\ ConnInv'
  BY <1>0 DEF IInv, DropInv, ConnInv
<1>5. NothingLeaks'
  BY <1>0 DEF IInv, NothingLeaks, TypeOK
<1>6. TimedOutIsEvicted'
  BY <1>0 DEF IInv, TimedOutIsEvicted, TypeOK, CallInv
<1>7. QED
  BY <1>1, <1>2, <1>3, <1>4, <1>5, <1>6 DEF IInv

\* Drop's critical section, by a call that is not about to insert, by a
\* keepalive or by Close: the connection changes hands and nothing else does.
LEMMA TakeStep ==
    ASSUME IInv, TypeOK', NEW o \in Owners, NEW m \in Machines, Take(o, m),
           UNCHANGED <<client, home, done>>,
           \A c \in Conns : ka'[c] # ka[c] => c \notin {pool'[n] : n \in Machines} /\ ka[c] # "off" /\ ka'[c] # "off",
           \A p \in Procs : pc[p] = "insert" <=> pc'[p] = "insert",
           UNCHANGED <<mid, held>>
    PROVE  PooledIsLive' /\ InsertInv' /\ DropInv' /\ ConnInv' /\ NothingLeaks'
<1>0. TypeOK
  BY DEF IInv
<1>1. PooledIsLive'
  BY <1>0, BrokerAssumption DEF IInv, PooledIsLive, Take, TypeOK
<1>2. InsertInv'
  BY <1>0, BrokerAssumption DEF IInv, InsertInv, CallInv, PooledIsLive, Take, TypeOK, NoDrop
<1>3. DropInv'
  BY <1>0, BrokerAssumption DEF IInv, DropInv, PooledIsLive, Take, TypeOK, NoDrop
<1>4. ConnInv'
  BY <1>0 DEF IInv, ConnInv, TypeOK
<1>5. NothingLeaks'
  BY <1>0, BrokerAssumption DEF IInv, NothingLeaks, Take, TypeOK, NoDrop
<1>6. QED
  BY <1>1, <1>2, <1>3, <1>4, <1>5

LEMMA InitInv == Init => IInv
  BY BrokerAssumption
     DEF Init, IInv, TypeOK, PooledIsLive, CallInv, InsertInv, DropInv, ConnInv, NothingLeaks,
         TimedOutIsEvicted, NoDrop

LEMMA InductiveStep == IInv /\ [Next]_vars => IInv'
<1> SUFFICES ASSUME IInv, [Next]_vars PROVE IInv'
  OBVIOUS
<1>0. TypeOK /\ TypeOK'
  BY TypeStep DEF IInv
<1>1. ASSUME NEW p \in Procs,
             \/ \E o \in Kinds \ {"close"}, m \in Machines : Begin(p, o, m)
             \/ Return(p) \/ GetHit(p) \/ GetMiss(p) \/ DialFails(p)
             \/ OpenWorks(p) \/ OpenFails(p) \/ SetupWorks(p) \/ SetupFails(p)
             \/ CommandEnds(p) \/ ExecExpires(p) \/ CallerCloses(p)
      PROVE  IInv'
  BY <1>0, <1>1, QuietStep
<1>2. ASSUME NEW p \in Procs, HandlerDrop(p) \/ OpenExpires(p) \/ Evict(p) \/ SetupExpires(p)
      PROVE  IInv'
  <2>1. /\ Take(p, mid[p]) /\ mid[p] \in Machines /\ p \in Owners
        /\ UNCHANGED <<wires, mid, held>>
        /\ pc[p] # "insert" /\ pc' = [pc EXCEPT ![p] = pc'[p]]
        /\ pc'[p] \in {"evict", "returned"}
    BY <1>0, <1>2 DEF HandlerDrop, OpenExpires, Evict, SetupExpires, At, Owners, IInv, CallInv, TypeOK
  <2>2. PooledIsLive' /\ InsertInv' /\ DropInv' /\ ConnInv' /\ NothingLeaks'
    BY <1>0, <2>1, TakeStep DEF wires, TypeOK
  <2>3. CallInv'
    BY <1>0, <1>2, <2>1
       DEF IInv, CallInv, HandlerDrop, OpenExpires, Evict, SetupExpires, At, wires, TypeOK
  <2>4. TimedOutIsEvicted'
    BY <1>0, <1>2, <2>1, BrokerAssumption
       DEF IInv, TimedOutIsEvicted, CallInv, HandlerDrop, OpenExpires, Evict, SetupExpires, At,
           Take, TypeOK
  <2>5. QED
    BY <1>0, <2>2, <2>3, <2>4 DEF IInv
<1>3. ASSUME NEW p \in Procs, NEW c \in Conns, DialWorks(p, c)
      PROVE  IInv'
  <2> USE <1>0, <1>3, BrokerAssumption DEF DialWorks, At
  <2>1. c \notin {pool[m] : m \in Machines} /\ \A q \in Procs : held[q] # c
    BY DEF IInv, PooledIsLive, CallInv
  <2>2. \A o \in Owners : drop[o].conn # c
    BY DEF IInv, DropInv, NoDrop, TypeOK
  <2>3. PooledIsLive'
    BY <2>1 DEF IInv, PooledIsLive, TypeOK
  <2>4. CallInv'
    BY DEF IInv, CallInv, TypeOK
  <2>5. InsertInv'
    BY <2>1, <2>2 DEF IInv, InsertInv, ConnInv, CallInv, TypeOK
  <2>6. DropInv' /\ ConnInv'
    BY <2>2 DEF IInv, CallInv, DropInv, ConnInv, TypeOK
  <2>7. NothingLeaks'
    BY DEF IInv, NothingLeaks, TypeOK
  <2>8. TimedOutIsEvicted'
    BY DEF IInv, TimedOutIsEvicted, TypeOK
  <2>9. QED
    BY <2>3, <2>4, <2>5, <2>6, <2>7, <2>8 DEF IInv
<1>4. ASSUME NEW p \in Procs, Insert(p)
      PROVE  IInv'
  <2> USE <1>0, <1>4, BrokerAssumption DEF Insert, At
  <2>1. /\ mid[p] \in Machines /\ held[p] \in Conns
        /\ client[held[p]] = "open" /\ home[held[p]] = mid[p]
        /\ ka[held[p]] = "off" /\ held[p] \notin done
        /\ \A q \in Procs : held[q] = held[p] => q = p
        /\ \A o \in Owners : drop[o].conn # held[p]
    BY DEF IInv, CallInv, InsertInv
  <2>2. PooledIsLive'
    BY <2>1 DEF IInv, PooledIsLive, TypeOK
  <2>3. CallInv'
    BY DEF IInv, CallInv, TypeOK
  <2>4. InsertInv'
    BY <2>1 DEF IInv, InsertInv, CallInv, TypeOK
  <2>5. DropInv' /\ ConnInv'
    BY <2>1 DEF IInv, DropInv, ConnInv, TypeOK
  <2>6. NothingLeaks'
    BY <2>1 DEF IInv, NothingLeaks, TypeOK
  <2>7. TimedOutIsEvicted'
    BY <2>1 DEF IInv, TimedOutIsEvicted, TypeOK, CallInv
  <2>8. QED
    BY <2>2, <2>3, <2>4, <2>5, <2>6, <2>7 DEF IInv
<1>5. ASSUME NEW p \in Procs, Lose(p)
      PROVE  IInv'
  <2> USE <1>0, <1>5, BrokerAssumption DEF Lose, At
  <2>1. /\ mid[p] \in Machines /\ held[p] \in Conns /\ p \in Owners
        /\ client[held[p]] = "open" /\ ka[held[p]] = "off"
        /\ \A q \in Procs : held[q] = held[p] => q = p
        /\ \A o \in Owners : drop[o].conn # held[p]
    BY DEF IInv, CallInv, InsertInv, Owners
  <2>2. PooledIsLive'
    BY DEF IInv, PooledIsLive, wires
  <2>3. CallInv'
    BY DEF IInv, CallInv, PooledIsLive, wires, TypeOK
  <2>4. InsertInv'
    BY <2>1 DEF IInv, InsertInv, CallInv, PooledIsLive, wires, TypeOK
  <2>5. \A m \in Machines : pool[m] # held[p]
    BY <2>1 DEF IInv, PooledIsLive
  <2>6. DropInv' /\ ConnInv'
    BY <2>1, <2>5 DEF IInv, DropInv, ConnInv, wires, TypeOK, NoDrop
  <2>7. NothingLeaks'
    BY <2>1 DEF IInv, NothingLeaks, wires, TypeOK, NoDrop
  <2>8. TimedOutIsEvicted'
    BY DEF IInv, TimedOutIsEvicted, TypeOK
  <2>9. QED
    BY <2>2, <2>3, <2>4, <2>6, <2>7, <2>8 DEF IInv
<1>6. ASSUME NEW c \in Conns, Asks(c) \/ Alive(c) \/ Quits(c)
      PROVE  IInv'
  <2> USE <1>0, <1>6 DEF Asks, Alive, Quits, calls
  <2>1. PooledIsLive'
    BY DEF IInv, PooledIsLive, TypeOK
  <2>2. CallInv' /\ DropInv' /\ NothingLeaks' /\ TimedOutIsEvicted'
    BY DEF IInv, CallInv, DropInv, NothingLeaks, TimedOutIsEvicted
  <2>3. InsertInv' /\ ConnInv'
    BY DEF IInv, InsertInv, ConnInv, TypeOK, CallInv
  <2>4. QED
    BY <2>1, <2>2, <2>3 DEF IInv
<1>7. ASSUME NEW c \in Conns, Dead(c)
      PROVE  IInv'
  <2>1. Take(c, home[c]) /\ home[c] \in Machines /\ c \in Owners
    BY <1>0, <1>7 DEF Dead, Owners, IInv, ConnInv
  <2>2. \A m \in Machines : pool'[m] # c
    BY <1>0, <2>1, BrokerAssumption DEF IInv, PooledIsLive, Take, TypeOK
  <2>3. PooledIsLive' /\ InsertInv' /\ DropInv' /\ ConnInv' /\ NothingLeaks'
    BY <1>0, <1>7, <2>1, <2>2, TakeStep DEF Dead, calls, TypeOK
  <2>4. CallInv'
    BY <1>7 DEF IInv, CallInv, Dead, calls
  <2>5. TimedOutIsEvicted'
    BY <1>0, <1>7, <2>1, BrokerAssumption DEF IInv, TimedOutIsEvicted, CallInv, Dead, Take, calls, TypeOK
  <2>6. QED
    BY <1>0, <2>3, <2>4, <2>5 DEF IInv
<1>8. ASSUME NEW m \in Machines, CloseDrops(m)
      PROVE  IInv'
  <2>1. Take(Main, m) /\ Main \in Owners
    BY <1>8 DEF CloseDrops, Owners
  <2>2. PooledIsLive' /\ InsertInv' /\ DropInv' /\ ConnInv' /\ NothingLeaks'
    BY <1>0, <1>8, <2>1, TakeStep DEF CloseDrops, calls, wires
  <2>3. CallInv'
    BY <1>8 DEF IInv, CallInv, CloseDrops, calls, wires
  <2>4. TimedOutIsEvicted'
    BY <1>0, <1>8, <2>1, BrokerAssumption
       DEF IInv, TimedOutIsEvicted, CallInv, CloseDrops, Take, calls, TypeOK
  <2>5. QED
    BY <1>0, <2>2, <2>3, <2>4 DEF IInv
<1>9. ASSUME NEW o \in Owners, CloseDone(o)
      PROVE  IInv'
  <2> USE <1>0, <1>9, BrokerAssumption DEF CloseDone, calls
  <2>0. /\ drop[o] # NoDrop /\ drop[o].conn \in Conns
        /\ \A m \in Machines : pool[m] # drop[o].conn
        /\ \A x \in Owners : drop'[x].conn = drop[x].conn
    BY DEF IInv, DropInv, NoDrop, TypeOK
  <2>1. PooledIsLive'
    BY <2>0 DEF IInv, PooledIsLive, TypeOK
  <2>2. CallInv' /\ ConnInv' /\ TimedOutIsEvicted'
    BY <2>0 DEF IInv, CallInv, ConnInv, DropInv, TimedOutIsEvicted, TypeOK
  <2>3. InsertInv'
    BY <2>0 DEF IInv, InsertInv, TypeOK
  <2>4. DropInv'
    BY <2>0 DEF IInv, DropInv, TypeOK, NoDrop
  <2>5. NothingLeaks'
    BY <2>0 DEF IInv, NothingLeaks, TypeOK
  <2>6. QED
    BY <2>1, <2>2, <2>3, <2>4, <2>5 DEF IInv
<1>10. ASSUME NEW o \in Owners, CloseClient(o)
       PROVE  IInv'
  <2> USE <1>0, <1>10, BrokerAssumption DEF CloseClient, calls
  <2>0. /\ drop[o] # NoDrop /\ drop[o].conn \in Conns
        /\ client[drop[o].conn] = "open"
        /\ \A m \in Machines : pool[m] # drop[o].conn
        /\ \A x \in Owners : drop[x].conn = drop[o].conn => x = o
    BY DEF IInv, DropInv, NoDrop, TypeOK
  <2>1. PooledIsLive'
    BY <2>0 DEF IInv, PooledIsLive, TypeOK
  <2>2. CallInv' /\ ConnInv' /\ TimedOutIsEvicted'
    BY <2>0 DEF IInv, CallInv, ConnInv, TimedOutIsEvicted, TypeOK
  <2>3. InsertInv'
    BY <2>0 DEF IInv, InsertInv, CallInv, TypeOK, NoDrop
  <2>4. DropInv'
    BY <2>0 DEF IInv, DropInv, TypeOK, NoDrop
  <2>5. NothingLeaks'
    BY <2>0 DEF IInv, NothingLeaks, TypeOK, NoDrop
  <2>6. QED
    BY <2>1, <2>2, <2>3, <2>4, <2>5 DEF IInv
<1>11. ASSUME CloseBegins \/ CloseEnds
       PROVE  IInv'
  BY <1>0, <1>11
     DEF CloseBegins, CloseEnds, wires, calls, IInv, PooledIsLive, CallInv, InsertInv, DropInv,
         ConnInv, NothingLeaks, TimedOutIsEvicted
<1>12. ASSUME NEW c \in Conns, NEW how \in {"silent", "reset"}, Fault(c, how)
       PROVE  IInv'
  BY <1>0, <1>12
     DEF Fault, calls, IInv, PooledIsLive, CallInv, InsertInv, DropInv, ConnInv, NothingLeaks,
         TimedOutIsEvicted
<1>13. CASE UNCHANGED vars
  BY <1>0, <1>13
     DEF vars, IInv, PooledIsLive, CallInv, InsertInv, DropInv, ConnInv, NothingLeaks,
         TimedOutIsEvicted
<1>14. QED
  BY <1>1, <1>2, <1>3, <1>4, <1>5, <1>6, <1>7, <1>8, <1>9, <1>10, <1>11, <1>12, <1>13
     DEF Next, CallStep, KeepaliveStep, Teardown, CloseStep

\* However many goroutines dial, use, time out on and drop whatever machines'
\* connections, the variables keep their types ...
THEOREM TypeCorrect == Spec => []TypeOK
<1>1. IInv => TypeOK
  BY DEF IInv
<1>2. QED
  BY InitInv, InductiveStep, <1>1, PTL DEF Spec

\* ... the pool holds only open, watched connections of the right machine ...
THEOREM PoolIsLive == Spec => []PooledIsLive
<1>1. IInv => PooledIsLive
  BY DEF IInv
<1>2. QED
  BY InitInv, InductiveStep, <1>1, PTL DEF Spec

\* ... no open connection is forgotten ...
THEOREM NoConnectionLeaks == Spec => []NothingLeaks
<1>1. IInv => NothingLeaks
  BY DEF IInv
<1>2. QED
  BY InitInv, InductiveStep, <1>1, PTL DEF Spec

\* ... no done channel is closed twice, so Drop never panics ...
THEOREM NoDoubleTeardown == Spec => []TornDownOnce
<1>1. IInv => TornDownOnce
  BY BrokerAssumption DEF IInv, TypeOK, DropInv, TornDownOnce, NoDrop
<1>2. QED
  BY InitInv, InductiveStep, <1>1, PTL DEF Spec

\* ... and a client that a call timed out on is never left for the next one.
THEOREM NoStuckClientPooled == Spec => []TimedOutIsEvicted
<1>1. IInv => TimedOutIsEvicted
  BY DEF IInv
<1>2. QED
  BY InitInv, InductiveStep, <1>1, PTL DEF Spec

\* Connections that were pooled when Close began: they are beyond insertion,
\* and those still pooled are of machines Close has yet to drop.
CloseInv ==
    \A c \in closing.old :
        /\ ka[c] # "off"
        /\ \A m \in Machines : pool[m] = c => m \in closing.left

\* Close is over only when it has nothing left to drop.
OverInv == closing.phase # "dropping" => closing.left = {}

LEMMA CloseStepInv == IInv /\ IInv' /\ CloseInv /\ [Next]_vars => CloseInv'
<1> SUFFICES ASSUME IInv, IInv', CloseInv, [Next]_vars PROVE CloseInv'
  OBVIOUS
<1>0. TypeOK /\ TypeOK'
  BY DEF IInv
<1>1. ASSUME closing' = closing, NEW m \in Machines, NEW o \in Owners, Take(o, m),
             \A c \in Conns : ka[c] # "off" => ka'[c] # "off"
      PROVE  CloseInv'
  BY <1>0, <1>1, BrokerAssumption DEF CloseInv, Take, TypeOK
<1>2. ASSUME UNCHANGED <<closing, pool>>, \A c \in Conns : ka[c] # "off" => ka'[c] # "off"
      PROVE  CloseInv'
  BY <1>0, <1>2 DEF CloseInv, TypeOK
<1>3. ASSUME NEW p \in Procs, HandlerDrop(p) \/ OpenExpires(p) \/ Evict(p) \/ SetupExpires(p)
      PROVE  CloseInv'
  <2>1. Take(p, mid[p]) /\ mid[p] \in Machines /\ p \in Owners /\ UNCHANGED <<ka, closing>>
    BY <1>3 DEF HandlerDrop, OpenExpires, Evict, SetupExpires, At, Owners, wires, IInv, CallInv
  <2>2. QED
    BY <1>1, <2>1
<1>4. ASSUME NEW c \in Conns, Dead(c)
      PROVE  CloseInv'
  <2>1. /\ Take(c, home[c]) /\ home[c] \in Machines /\ c \in Owners /\ closing' = closing
        /\ ka' = [ka EXCEPT ![c] = "stopped"]
    BY <1>0, <1>4 DEF Dead, Owners, IInv, ConnInv
  <2>2. QED
    BY <1>0, <1>1, <2>1 DEF TypeOK
<1>5. ASSUME NEW p \in Procs, Insert(p)
      PROVE  CloseInv'
  <2>1. held[p] \in Conns /\ ka[held[p]] = "off" /\ mid[p] \in Machines
    BY <1>5 DEF Insert, At, IInv, CallInv, InsertInv
  <2>2. held[p] \notin closing.old
    BY <2>1 DEF CloseInv
  <2>3. QED
    BY <1>0, <1>5, <2>1, <2>2 DEF Insert, CloseInv, TypeOK
<1>6. ASSUME NEW m \in Machines, CloseDrops(m)
      PROVE  CloseInv'
  BY <1>0, <1>6, BrokerAssumption DEF CloseDrops, Take, CloseInv, TypeOK, wires
<1>7. CASE CloseBegins
  BY <1>0, <1>7 DEF CloseBegins, CloseInv, TypeOK, wires, IInv, PooledIsLive
<1>8. CASE CloseEnds
  BY <1>0, <1>8 DEF CloseEnds, CloseInv, TypeOK, wires
<1>9. ASSUME NEW c \in Conns, Asks(c) \/ Alive(c) \/ Quits(c)
      PROVE  CloseInv'
  BY <1>0, <1>2, <1>9 DEF Asks, Alive, Quits, TypeOK
<1>10. ASSUME NEW p \in Procs,
              \/ \E o \in Kinds \ {"close"}, m \in Machines : Begin(p, o, m)
              \/ \E c \in Conns : DialWorks(p, c)
              \/ Return(p) \/ GetHit(p) \/ GetMiss(p) \/ DialFails(p) \/ Lose(p)
              \/ OpenWorks(p) \/ OpenFails(p) \/ SetupWorks(p) \/ SetupFails(p)
              \/ CommandEnds(p) \/ ExecExpires(p) \/ CallerCloses(p)
       PROVE  CloseInv'
  BY <1>2, <1>10
     DEF Begin, DialWorks, Return, GetHit, GetMiss, DialFails, Lose, OpenWorks, OpenFails,
         SetupWorks, SetupFails, CommandEnds, ExecExpires, CallerCloses, Ends, wires
<1>11. ASSUME NEW o \in Owners, CloseDone(o) \/ CloseClient(o)
       PROVE  CloseInv'
  BY <1>2, <1>11 DEF CloseDone, CloseClient
<1>12. ASSUME NEW c \in Conns, NEW how \in {"silent", "reset"}, Fault(c, how)
       PROVE  CloseInv'
  BY <1>2, <1>12 DEF Fault
<1>13. CASE UNCHANGED vars
  BY <1>2, <1>13 DEF vars
<1>14. QED
  BY <1>3, <1>4, <1>5, <1>6, <1>7, <1>8, <1>9, <1>10, <1>11, <1>12, <1>13
     DEF Next, CallStep, KeepaliveStep, Teardown, CloseStep

\* ... and whatever was pooled when Close began is out of the pool when Close
\* returns, however calls and keepalives drop and redial meanwhile.
THEOREM CloseIsComplete == Spec => []CloseDropsTheOld
<1>1. Init => CloseInv
  BY DEF Init, CloseInv
<1>2. IInv /\ CloseInv /\ OverInv => CloseDropsTheOld
  BY DEF CloseInv, OverInv, CloseDropsTheOld
<1>3. Init => OverInv
  BY DEF Init, OverInv
<1>4. IInv /\ OverInv /\ [Next]_vars => OverInv'
  <2> SUFFICES ASSUME IInv, OverInv, [Next]_vars PROVE OverInv'
    OBVIOUS
  <2>1. CASE closing' = closing
    BY <2>1 DEF OverInv
  <2>2. CASE CloseBegins \/ CloseEnds \/ \E m \in Machines : CloseDrops(m)
    BY <2>2 DEF IInv, TypeOK, OverInv, CloseBegins, CloseEnds, CloseDrops
  <2>3. QED
    BY <2>1, <2>2
       DEF Next, CallStep, KeepaliveStep, Teardown, CloseStep, Begin, DialWorks, Return, GetHit,
           GetMiss, DialFails, Lose, OpenWorks, OpenFails, SetupWorks, SetupFails, CommandEnds,
           ExecExpires, CallerCloses, Ends, HandlerDrop, OpenExpires, Evict, SetupExpires, Insert,
           Asks, Alive, Dead, Quits, CloseDone, CloseClient, Fault, vars
<1>5. QED
  BY InitInv, InductiveStep, CloseStepInv, <1>1, <1>2, <1>3, <1>4, PTL DEF Spec

-----------------------------------------------------------------------------
(* The broker implements Pool.                                              *)

LEMMA LifeFunction == /\ Life = [c \in Conns |-> Life[c]]
                      /\ Life' = [c \in Conns |-> Life'[c]]
  BY DEF Life

\* Life[c] depends on the connection, its pool entry and who drops it.
LEMMA LifeFrame ==
    ASSUME TypeOK, TypeOK',
           UNCHANGED <<pool, client, home>>,
           \A o \in Owners : drop'[o].conn = drop[o].conn
    PROVE  Life' = Life
  BY DEF Life

\* Drop's critical section: a pooled connection leaves, or nothing happens.
LEMMA TakeRefines ==
    ASSUME IInv, IInv', NEW o \in Owners, NEW m \in Machines, Take(o, m), UNCHANGED <<client, home>>
    PROVE  [P!Next]_(P!vars)
<1>0. TypeOK /\ TypeOK'
  BY DEF IInv
<1>1. CASE pool[m] = None
  <2>1. pool' = pool /\ drop' = drop
    BY <1>0, <1>1 DEF Take, TypeOK
  <2>2. Life' = Life
    BY <1>0, <2>1, LifeFrame
  <2>3. QED
    BY <2>2 DEF P!vars
<1>2. CASE pool[m] # None
  <2> DEFINE c == pool[m]
  <2>1. /\ c \in Conns /\ home[c] = m /\ client[c] = "open"
        /\ \A x \in Owners : drop[x].conn # c
        /\ \A n \in Machines : pool[n] = c => n = m
    BY <1>0, <1>2, BrokerAssumption DEF IInv, PooledIsLive, DropInv, TypeOK, NoDrop
  <2>2. drop'[o].conn = c /\ \A x \in Owners : x # o => drop'[x] = drop[x]
    BY <1>0, <1>2 DEF Take, TypeOK
  <2>3. drop[o].conn = None
    BY DEF Take, NoDrop
  <2>4. Life[c] = "pooled"
    BY <2>1 DEF Life
  <2>5. Life' = [Life EXCEPT ![c] = "leaving"]
    <3>1. Life'[c] = "leaving"
      BY <2>1, <2>2 DEF Life
    <3>2. ASSUME NEW d \in Conns, d # c PROVE Life'[d] = Life[d]
      <4>1. client[d] = "open" => (pool'[home[d]] = d <=> pool[home[d]] = d)
        BY <1>0, <2>1, <3>2, BrokerAssumption DEF Take, TypeOK, IInv, ConnInv
      <4>2. (\E x \in Owners : drop'[x].conn = d) <=> (\E x \in Owners : drop[x].conn = d)
        BY <2>2, <2>3, <3>2, BrokerAssumption
      <4>3. QED
        BY <1>0, <4>1, <4>2 DEF Life, TypeOK
    <3>3. QED
      BY <2>1, <3>1, <3>2, LifeFunction
  <2>6. P!Retire(c)
    BY <2>4, <2>5 DEF P!Retire
  <2>7. QED
    BY <2>1, <2>6 DEF P!Next
<1>3. QED
  BY <1>1, <1>2

LEMMA RefinementStep == IInv /\ IInv' /\ [Next]_vars => [P!Next]_(P!vars)
<1> SUFFICES ASSUME IInv, IInv', [Next]_vars PROVE [P!Next]_(P!vars)
  OBVIOUS
<1>0. TypeOK /\ TypeOK'
  BY DEF IInv
<1>1. ASSUME UNCHANGED <<pool, client, home>>,
             \A o \in Owners : drop'[o].conn = drop[o].conn
      PROVE  [P!Next]_(P!vars)
  BY <1>0, <1>1, LifeFrame DEF P!vars
<1>2. ASSUME NEW p \in Procs,
             \/ \E o \in Kinds \ {"close"}, m \in Machines : Begin(p, o, m)
             \/ Return(p) \/ GetHit(p) \/ GetMiss(p) \/ DialFails(p)
             \/ OpenWorks(p) \/ OpenFails(p) \/ SetupWorks(p) \/ SetupFails(p)
             \/ CommandEnds(p) \/ ExecExpires(p) \/ CallerCloses(p)
      PROVE  [P!Next]_(P!vars)
  BY <1>1, <1>2
     DEF Begin, Return, GetHit, GetMiss, DialFails, OpenWorks, OpenFails, SetupWorks, SetupFails,
         CommandEnds, ExecExpires, CallerCloses, Ends, wires
<1>3. ASSUME NEW p \in Procs, HandlerDrop(p) \/ OpenExpires(p) \/ Evict(p) \/ SetupExpires(p)
      PROVE  [P!Next]_(P!vars)
  <2>1. Take(p, mid[p]) /\ mid[p] \in Machines /\ p \in Owners /\ UNCHANGED <<client, home>>
    BY <1>3 DEF HandlerDrop, OpenExpires, Evict, SetupExpires, At, Owners, wires, IInv, CallInv
  <2>2. QED
    BY <2>1, TakeRefines
<1>4. ASSUME NEW p \in Procs, NEW c \in Conns, DialWorks(p, c)
      PROVE  [P!Next]_(P!vars)
  <2>1. mid[p] \in Machines /\ Life[c] = "unused"
    BY <1>4 DEF IInv, CallInv, DialWorks, At, Life
  <2>2. (\A o \in Owners : drop[o].conn # c) /\ pool[mid[p]] # c
    BY <1>4, <2>1, BrokerAssumption DEF IInv, DropInv, PooledIsLive, NoDrop, TypeOK, DialWorks
  <2>3. Life'[c] = "dialed"
    BY <1>0, <1>4, <2>2 DEF Life, DialWorks, TypeOK
  <2>4. \A d \in Conns : d # c => Life'[d] = Life[d]
    BY <1>0, <1>4 DEF Life, DialWorks, TypeOK
  <2>5. P!Dial(c, mid[p])
    BY <1>4, <2>1, <2>3, <2>4, LifeFunction DEF P!Dial, DialWorks
  <2>6. QED
    BY <2>1, <2>5 DEF P!Next
<1>5. ASSUME NEW p \in Procs, Insert(p)
      PROVE  [P!Next]_(P!vars)
  <2> DEFINE c == held[p]
  <2>1. /\ c \in Conns /\ mid[p] \in Machines /\ home[c] = mid[p] /\ client[c] = "open"
        /\ \A o \in Owners : drop[o].conn # c
        /\ pool[mid[p]] = None /\ pool' = [pool EXCEPT ![mid[p]] = c]
        /\ UNCHANGED <<client, home, drop>>
    BY <1>5 DEF IInv, CallInv, InsertInv, Insert, At
  <2>2. Life[c] = "dialed"
    BY <2>1, BrokerAssumption DEF Life
  <2>3. Life'[c] = "pooled"
    BY <1>0, <2>1 DEF Life, TypeOK
  <2>4. ASSUME NEW d \in Conns, d # c PROVE Life'[d] = Life[d]
    <3>1. client[d] = "open" => (pool'[home[d]] = d <=> pool[home[d]] = d)
      BY <1>0, <2>1, <2>4, BrokerAssumption DEF IInv, ConnInv, TypeOK
    <3>2. QED
      BY <1>0, <2>1, <3>1 DEF Life, TypeOK
  <2>5. P!Serving(home[c]) = {}
    BY <1>0, <2>1, BrokerAssumption DEF P!Serving, Life, TypeOK
  <2>6. P!Admit(c)
    BY <2>1, <2>2, <2>3, <2>4, <2>5, LifeFunction DEF P!Admit
  <2>7. QED
    BY <2>1, <2>6 DEF P!Next
<1>6. ASSUME NEW p \in Procs, Lose(p)
      PROVE  [P!Next]_(P!vars)
  <2> DEFINE c == held[p]
  <2>1. /\ c \in Conns /\ p \in Owners /\ client[c] = "open" /\ ka[c] = "off" /\ home[c] = mid[p]
        /\ \A o \in Owners : drop[o].conn # c
        /\ drop[p] = NoDrop
        /\ drop' = [drop EXCEPT ![p] = [conn |-> c, stage |-> "client"]]
        /\ UNCHANGED <<pool, client, home>>
    BY <1>6 DEF IInv, CallInv, InsertInv, Lose, At, Owners, wires
  <2>2. Life[c] = "dialed"
    <3>1. pool[home[c]] # c
      BY <2>1, BrokerAssumption DEF IInv, PooledIsLive, ConnInv
    <3>2. QED
      BY <2>1, <3>1 DEF Life
  <2>3. Life'[c] = "leaving"
    BY <1>0, <2>1 DEF Life, TypeOK
  <2>4. ASSUME NEW d \in Conns, d # c PROVE Life'[d] = Life[d]
    <3>1. (\E o \in Owners : drop'[o].conn = d) <=> (\E o \in Owners : drop[o].conn = d)
      BY <1>0, <2>1, <2>4, BrokerAssumption DEF TypeOK, NoDrop
    <3>2. QED
      BY <2>1, <3>1 DEF Life
  <2>5. P!Retire(c)
    BY <2>1, <2>2, <2>3, <2>4, LifeFunction DEF P!Retire
  <2>6. QED
    BY <2>1, <2>5 DEF P!Next
<1>7. ASSUME NEW c \in Conns, Asks(c) \/ Alive(c) \/ Quits(c)
      PROVE  [P!Next]_(P!vars)
  BY <1>1, <1>7 DEF Asks, Alive, Quits
<1>8. ASSUME NEW c \in Conns, Dead(c)
      PROVE  [P!Next]_(P!vars)
  BY <1>0, <1>8, TakeRefines DEF Dead, Owners, IInv, ConnInv
<1>9. ASSUME NEW m \in Machines, CloseDrops(m)
      PROVE  [P!Next]_(P!vars)
  BY <1>9, TakeRefines DEF CloseDrops, Owners, wires
<1>10. ASSUME NEW o \in Owners, CloseDone(o)
       PROVE  [P!Next]_(P!vars)
  BY <1>0, <1>1, <1>10, BrokerAssumption DEF CloseDone, TypeOK, NoDrop
<1>11. ASSUME NEW o \in Owners, CloseClient(o)
       PROVE  [P!Next]_(P!vars)
  <2> DEFINE c == drop[o].conn
  <2>1. /\ c \in Conns /\ client[c] = "open"
        /\ \A x \in Owners : drop[x].conn = c => x = o
        /\ client' = [client EXCEPT ![c] = "closed"]
        /\ drop' = [drop EXCEPT ![o] = NoDrop]
        /\ UNCHANGED <<pool, home>>
    BY <1>0, <1>11, BrokerAssumption DEF IInv, DropInv, CloseClient, NoDrop, TypeOK
  <2>2. Life[c] = "leaving"
    BY <2>1 DEF Life
  <2>3. Life'[c] = "closed"
    BY <1>0, <2>1 DEF Life, TypeOK
  <2>4. ASSUME NEW d \in Conns, d # c PROVE Life'[d] = Life[d]
    <3>1. (\E x \in Owners : drop'[x].conn = d) <=> (\E x \in Owners : drop[x].conn = d)
      BY <1>0, <2>1, <2>4, BrokerAssumption DEF TypeOK, NoDrop
    <3>2. QED
      BY <1>0, <2>1, <2>4, <3>1 DEF Life, TypeOK
  <2>5. P!Close(c)
    BY <2>1, <2>2, <2>3, <2>4, LifeFunction DEF P!Close
  <2>6. QED
    BY <2>1, <2>5 DEF P!Next
<1>12. ASSUME \/ CloseBegins \/ CloseEnds
              \/ \E c \in Conns, how \in {"silent", "reset"} : Fault(c, how)
       PROVE  [P!Next]_(P!vars)
  BY <1>1, <1>12 DEF CloseBegins, CloseEnds, Fault, wires
<1>13. CASE UNCHANGED vars
  BY <1>1, <1>13 DEF vars
<1>14. QED
  BY <1>2, <1>3, <1>4, <1>5, <1>6, <1>7, <1>8, <1>9, <1>10, <1>11, <1>12, <1>13
     DEF Next, CallStep, KeepaliveStep, Teardown, CloseStep

\* The broker implements Pool: a machine never has two admitted connections,
\* one that left does not come back, and each is closed at most once.
THEOREM BrokerImplementsPool == Spec => ImplementsPool
<1>1. Init => P!Init
  BY DEF Init, P!Init, Life
<1>2. QED
  BY InitInv, InductiveStep, RefinementStep, <1>1, PTL DEF Spec, ImplementsPool, P!Spec

=============================================================================

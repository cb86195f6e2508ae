----------------------------- MODULE ZkLockProof -----------------------------
(***************************************************************************)
(* The ZooKeeper lock of ZkLock excludes granted callers of one lock name,  *)
(* for any number of clients, names, calls, faults and lost sessions.       *)
(***************************************************************************)
EXTENDS ZkLock, TLAPS

LEMMA TypeInit == Init => TypeOK
  BY ZkAssumption DEF Init, TypeOK, PC

\* What one thread's isMinPath() leaves of the types.
LEMMA TypeStep == TypeOK /\ [Next]_vars => TypeOK'
<1> SUFFICES ASSUME TypeOK, [Next]_vars PROVE TypeOK'
  OBVIOUS
<1> USE ZkAssumption, NoNodeAssumption
    DEF TypeOK, PC, Node, server, fields, Goto, Callback, Refused
<1>1. ASSUME NEW c \in Client, Ask(c) PROVE TypeOK'
  BY <1>1 DEF Ask
<1>2. ASSUME NEW c \in Client, RootCheck(c) \/ RootCreate(c) PROVE TypeOK'
  BY <1>2 DEF RootCheck, RootCreate
<1>3. ASSUME NEW c \in Client, Create(c) PROVE TypeOK'
  BY <1>3 DEF Create
<1>4. ASSUME NEW c \in Client, List(c) PROVE TypeOK'
  BY <1>4 DEF List, IsMinPath
<1>5. ASSUME NEW c \in Client, Watch(c) PROVE TypeOK'
  BY <1>5 DEF Watch, SetWatch
<1>6. ASSUME NEW c \in Client, Arm(c) \/ Awake(c) \/ Interrupt(c) PROVE TypeOK'
  BY <1>6 DEF Arm, Awake, Interrupt
<1>7. ASSUME NEW c \in Client, UnlockCheck(c) PROVE TypeOK'
  BY <1>7 DEF UnlockCheck
<1>8. ASSUME NEW c \in Client, UnlockDelete(c) PROVE TypeOK'
  BY <1>8 DEF UnlockDelete, Remove
<1>9. ASSUME NEW c \in Client, Process(c) PROVE TypeOK'
  BY <1>9 DEF Process
<1>10. ASSUME NEW c \in Client, CbList(c) PROVE TypeOK'
  BY <1>10 DEF CbList, IsMinPath
<1>11. ASSUME NEW c \in Client, CbWatch(c) PROVE TypeOK'
  BY <1>11 DEF CbWatch, SetWatch
<1>12. ASSUME NEW c \in Client, Expire(c) PROVE TypeOK'
  BY <1>12 DEF Expire
<1>13. ASSUME NEW c \in Client, Crash(c) PROVE TypeOK'
  BY <1>13 DEF Crash
<1>14. ASSUME NEW c \in Client, Lost(c) PROVE TypeOK'
  <2>1. /\ faults' \in 0 .. MaxFaults
        /\ UNCHANGED <<expired, fields, method, cb, asks>>
        /\ pc' \in [Client -> PC]
        /\ bogus' \subseteq Client
    BY <1>14 DEF Lost, Thrown, Remove
  <2>2. CASE UNCHANGED server
    BY <2>1, <2>2
  <2>3. CASE pc[c] = "mkroot" /\ root' = TRUE /\ UNCHANGED <<nodes, seq, watch, events>>
    BY <2>1, <2>3
  <2>4. CASE /\ pc[c] = "create" /\ seq' = seq + 1
             /\ nodes' = nodes \cup {[owner |-> c, seq |-> seq + 1]}
             /\ UNCHANGED <<root, watch, events>>
    BY <2>1, <2>4
  <2>5. CASE pc[c] = "udelete" /\ Remove({self[c]}) /\ UNCHANGED <<root, seq>>
    BY <2>1, <2>5 DEF Remove
  <2> QED BY <1>14, <2>2, <2>3, <2>4, <2>5 DEF Lost
<1>15. ASSUME NEW c \in Client, Closed(c) PROVE TypeOK'
  BY <1>15 DEF Closed, Thrown
<1>16. ASSUME NEW c \in Client, CbThrown(c) PROVE TypeOK'
  BY <1>16 DEF CbThrown
<1>17. CASE UNCHANGED vars
  BY <1>17 DEF vars
<1> QED
  BY <1>1, <1>2, <1>3, <1>4, <1>5, <1>6, <1>7, <1>8, <1>9, <1>10, <1>11, <1>12,
     <1>13, <1>14, <1>15, <1>16, <1>17
  DEF Next, Caller, EventThread

\* The variables keep to their types; a watch is on an existing node, and no
\* two nodes share a sequence number.
THEOREM TypeCorrect == Spec => []TypeOK
  BY TypeInit, TypeStep, PTL DEF Spec

-----------------------------------------------------------------------------
\* A first node stays first when other nodes disappear and new ones get higher
\* sequence numbers.
LEMMA FirstStable ==
  ASSUME TypeOK, NEW c \in Client, First(c), self[c] \in nodes',
         self'[c] = self[c], self[c].owner = c,
         \A n \in nodes' : n \in nodes \/ (n \in Node /\ n.seq > seq)
  PROVE  First(c)'
<1> SUFFICES ASSUME NEW n \in nodes', NameOf[n.owner] = NameOf[c]
             PROVE  ~Before(n, self'[c])
  BY DEF First
<1>1. CASE n \in nodes
  BY <1>1 DEF First, Before
<1>2. CASE n \in Node /\ n.seq > seq
  <2>1. self[c].seq \in 1 .. seq /\ NameOf[c] \in Nat
    BY ZkAssumption DEF First, TypeOK
  <2> QED BY <1>2, <2>1 DEF Before, Node, TypeOK
<1> QED BY <1>1, <1>2

LEMMA FirstInit == Init => FirstInv
  BY DEF Init, FirstInv, Granted, Valid, Holding

LEMMA FirstStep == TypeOK /\ FirstInv /\ [Next]_vars => FirstInv'
<1> SUFFICES ASSUME TypeOK, FirstInv, [Next]_vars, NEW d \in Client
             PROVE  /\ Granted(d)' => First(d)'
                    /\ self'[d] # NoNode => self'[d].owner = d
                    /\ d \in bogus' => Holding(d)' \/ pc'[d] = "crashed"
  BY DEF FirstInv
<1> DEFINE Goal == /\ Granted(d)' => First(d)'
                   /\ self'[d] # NoNode => self'[d].owner = d
                   /\ d \in bogus' => Holding(d)' \/ pc'[d] = "crashed"
<1> SUFFICES Goal
  OBVIOUS
<1>0. /\ Granted(d) => First(d)
      /\ self[d] # NoNode => self[d].owner = d
      /\ d \in bogus => Holding(d) \/ pc[d] = "crashed"
  BY DEF FirstInv
\* Steps that neither touch the nodes nor grant anything to d.
<1>1. ASSUME UNCHANGED <<nodes, self>>,
             Granted(d)' => Granted(d),
             d \in bogus' => Holding(d)' \/ pc'[d] = "crashed"
      PROVE  Goal
  BY <1>0, <1>1 DEF First
<1> USE ZkAssumption, NoNodeAssumption
    DEF TypeOK, PC, server, fields, Goto, Callback, Refused, Granted, Valid, Holding
<1>2. ASSUME NEW c \in Client, Ask(c) \/ RootCheck(c) \/ RootCreate(c)
      PROVE  Goal
  BY <1>0, <1>1, <1>2 DEF Ask, RootCheck, RootCreate
<1>3. ASSUME NEW c \in Client, Create(c)
      PROVE  Goal
  <2>1. CASE d = c
    BY <1>0, <1>3, <2>1 DEF Create
  <2>2. CASE d # c
    <3>1. Granted(d)' => Granted(d)
      BY <1>3, <2>2 DEF Create
    <3>2. Granted(d) => First(d)'
      <4>1. \A n \in nodes' : n \in nodes \/ (n \in Node /\ n.seq > seq)
        BY <1>3 DEF Create, Node
      <4>2. self'[d] = self[d] /\ nodes \subseteq nodes'
        BY <1>3, <2>2 DEF Create
      <4> QED BY <1>0, <4>1, <4>2, FirstStable DEF First
    <3> QED BY <1>0, <1>3, <2>2, <3>1, <3>2 DEF Create
  <2> QED BY <2>1, <2>2
\* isMinPath() on either thread: a node with none ahead of it is first.
<1>4. ASSUME NEW c \in Client, self[c] \in nodes, Ahead(self[c]) = {}
      PROVE  First(c)
  BY <1>4 DEF Ahead, First
<1>5. ASSUME NEW c \in Client, List(c)
      PROVE  Goal
  <2>1. UNCHANGED <<nodes, self>>
    BY <1>5 DEF List, IsMinPath
  <2>2. Granted(d)' => First(d)
    BY <1>0, <1>4, <1>5 DEF List, IsMinPath
  <2>3. d \in bogus' => Holding(d)' \/ pc'[d] = "crashed"
    BY <1>0, <1>5 DEF List, IsMinPath
  <2> QED BY <1>0, <2>1, <2>2, <2>3 DEF First
<1>6. ASSUME NEW c \in Client, CbList(c)
      PROVE  Goal
  <2>1. UNCHANGED <<nodes, self>>
    BY <1>6 DEF CbList, IsMinPath
  <2>2. Granted(d)' => First(d)
    BY <1>0, <1>4, <1>6 DEF CbList, IsMinPath
  <2>3. d \in bogus' => Holding(d)' \/ pc'[d] = "crashed"
    BY <1>0, <1>6 DEF CbList, IsMinPath
  <2> QED BY <1>0, <2>1, <2>2, <2>3 DEF First
<1>7. ASSUME NEW c \in Client, Watch(c) \/ CbWatch(c)
      PROVE  Goal
  BY <1>0, <1>1, <1>7 DEF Watch, CbWatch, SetWatch
<1>8. ASSUME NEW c \in Client, Arm(c) \/ Awake(c) \/ Interrupt(c)
      PROVE  Goal
  BY <1>0, <1>1, <1>8 DEF Arm, Awake, Interrupt
<1>9. ASSUME NEW c \in Client, UnlockCheck(c)
      PROVE  Goal
  BY <1>0, <1>1, <1>9 DEF UnlockCheck
<1>10. ASSUME NEW c \in Client, pc[c] = "udelete", Remove({self[c]}), pc'[c] = "idle",
              \A e \in Client \ {c} : pc'[e] = pc[e],
              UNCHANGED <<self, latch, expired>>, bogus' = bogus \ {c}
       PROVE  Goal
  <2>1. Granted(d)' => d # c /\ Granted(d)
    BY <1>10
  <2>2. d # c /\ First(d) => self[d] \in nodes'
    BY <1>0, <1>10 DEF Remove, First, FirstInv, Node
  <2>3. \A n \in nodes' : n \in nodes
    BY <1>10 DEF Remove
  <2>4. Granted(d)' => First(d)'
    BY <1>0, <1>10, <2>1, <2>2, <2>3, FirstStable
  <2> QED BY <1>0, <1>10, <2>4
<1>11. ASSUME NEW c \in Client, UnlockDelete(c)
       PROVE  Goal
  BY <1>10, <1>11 DEF UnlockDelete
<1>12. ASSUME NEW c \in Client, Process(c)
       PROVE  Goal
  BY <1>0, <1>1, <1>12 DEF Process
<1>13. ASSUME NEW c \in Client, Expire(c)
       PROVE  Goal
  <2>1. Granted(d)' => d # c /\ Granted(d)
    BY <1>13 DEF Expire
  <2>2. d # c /\ First(d) => self[d] \in nodes'
    BY <1>0, <1>13 DEF Expire, First, Node
  <2>3. \A n \in nodes' : n \in nodes
    BY <1>13 DEF Expire
  <2>4. Granted(d)' => First(d)'
    BY <1>0, <1>13, <2>1, <2>2, <2>3, FirstStable DEF Expire
  <2> QED BY <1>0, <1>13, <2>4 DEF Expire
<1>14. ASSUME NEW c \in Client, Crash(c)
       PROVE  Goal
  BY <1>0, <1>1, <1>14 DEF Crash
<1>15. ASSUME NEW c \in Client, Thrown(c), UNCHANGED <<nodes, expired>>
       PROVE  Goal
  BY <1>0, <1>1, <1>15 DEF Thrown
<1>16. ASSUME NEW c \in Client, Lost(c)
       PROVE  Goal
  <2>1. CASE UNCHANGED server
    BY <1>15, <1>16, <2>1 DEF Lost
  <2>2. CASE pc[c] = "mkroot" /\ UNCHANGED <<nodes, expired>>
    BY <1>15, <1>16, <2>2 DEF Lost
  <2>3. CASE /\ pc[c] = "create"
             /\ nodes' = nodes \cup {[owner |-> c, seq |-> seq + 1]}
             /\ UNCHANGED expired
    <3>1. Granted(d)' => Granted(d)
      BY <1>16, <2>3 DEF Lost, Thrown
    <3>2. \A n \in nodes' : n \in nodes \/ (n \in Node /\ n.seq > seq)
      BY <2>3 DEF Node
    <3>3. Granted(d) => First(d)'
      BY <1>0, <1>16, <2>3, <3>2, FirstStable DEF Lost, Thrown, First
    <3> QED BY <1>0, <1>16, <2>3, <3>1, <3>3 DEF Lost, Thrown
  <2>4. CASE pc[c] = "udelete" /\ Remove({self[c]}) /\ UNCHANGED expired
    BY <1>10, <1>16, <2>4 DEF Lost, Thrown
  <2> QED BY <1>16, <2>1, <2>2, <2>3, <2>4 DEF Lost
<1>17. ASSUME NEW c \in Client, Closed(c) \/ CbThrown(c)
       PROVE  Goal
  <2>1. CASE Closed(c)
    BY <1>15, <2>1 DEF Closed
  <2>2. CASE CbThrown(c)
    BY <1>0, <1>1, <2>2 DEF CbThrown
  <2> QED BY <1>17, <2>1, <2>2
<1>18. CASE UNCHANGED vars
  BY <1>0, <1>1, <1>18 DEF vars
<1> HIDE DEF Goal
<1> QED
  BY <1>2, <1>3, <1>5, <1>6, <1>7, <1>8, <1>9, <1>11, <1>12, <1>13, <1>14,
     <1>16, <1>17, <1>18
  DEF Next, Caller, EventThread

THEOREM GrantedIsFirst == Spec => []FirstInv
<1> QED
  BY FirstInit, FirstStep, TypeCorrect, PTL DEF Spec

\* Two granted callers of one name would each have the first node of that name.
THEOREM Exclusive == Spec => []MutualExclusion
<1>1. TypeOK /\ FirstInv => MutualExclusion
  <2> SUFFICES ASSUME TypeOK, FirstInv, NEW c \in Client, NEW d \in Client,
                      Valid(c), Valid(d), NameOf[c] = NameOf[d]
               PROVE  c = d
    BY DEF MutualExclusion
  <2>1. First(c) /\ First(d) /\ self[c].owner = c /\ self[d].owner = d
    BY NoNodeAssumption DEF FirstInv, Granted, First, TypeOK
  <2>2. ~Before(self[c], self[d]) /\ ~Before(self[d], self[c])
    BY <2>1 DEF First
  <2>3. self[c].seq \in Nat /\ self[d].seq \in Nat
    BY <2>1 DEF First, TypeOK
  <2>4. self[c].seq = self[d].seq
    BY <2>1, <2>2, <2>3 DEF Before
  <2> QED BY <2>1, <2>4 DEF First, TypeOK
<1> QED
  BY <1>1, GrantedIsFirst, TypeCorrect, PTL

\* Locks are granted in the order of the nodes of one name.
THEOREM Fair == Spec => Fifo
<1>1. FirstInv' => \A c \in Client : ~Holding(c) /\ Valid(c)' =>
        \A n \in nodes' : NameOf[n.owner] = NameOf[c] => ~Before(n, self'[c])
  BY DEF FirstInv, Granted, First, Before
<1> QED
  BY <1>1, GrantedIsFirst, PTL DEF Fifo

-----------------------------------------------------------------------------
\* Every step of the ZooKeeper lock is a step of the abstract one, or invisible:
\* all of a client's steps but its grants can only end its turn.
LEMMA MutexStep ==
  ASSUME TypeOK, FirstInv, MutualExclusion', [Next]_vars
  PROVE  [Abstract!Next]_status
<1> DEFINE Quiet(c) == /\ \A d \in Client \ {c} : status'[d] = status[d]
                       /\ status'[c] \in {status[c], "out"}
<1>0. ASSUME NEW c \in Client, Quiet(c)
      PROVE  [Abstract!Next]_status
  <2>1. CASE status'[c] = status[c]
    BY <1>0, <2>1 DEF status
  <2>2. CASE status'[c] = "out"
    <3>1. status' = [d \in Client |-> IF d \in {c} THEN "out" ELSE status[d]]
      BY <1>0, <2>2 DEF status
    <3>2. Abstract!Leave({c})
      BY <3>1 DEF Abstract!Leave
    <3> QED BY <3>2 DEF Abstract!Next
  <2> QED BY <1>0, <2>1, <2>2
<1> HIDE DEF Quiet
<1>1. ASSUME NEW c \in Client, status[c] = "waiting", status'[c] = "in",
             \A d \in Client \ {c} : status'[d] = status[d]
      PROVE  [Abstract!Next]_status
  <2>1. ASSUME NEW d \in Client, NameOf[d] = NameOf[c]
        PROVE  status[d] # "in"
    <3>1. Valid(c)'
      BY <1>1 DEF status
    <3>2. status[d] = "in" /\ d # c => Valid(d)'
      BY <1>1 DEF status
    <3> QED BY <1>1, <2>1, <3>1, <3>2 DEF MutualExclusion
  <2>2. status' = [status EXCEPT ![c] = "in"]
    BY <1>1 DEF status
  <2>3. Abstract!Enter(c)
    BY <1>1, <2>1, <2>2 DEF Abstract!Enter
  <2> QED BY <2>3 DEF Abstract!Next
<1> USE ZkAssumption
    DEF TypeOK, PC, server, fields, Goto, Callback, Refused, status, Valid, Holding, Waiting
<1>2. ASSUME NEW c \in Client, Ask(c)
      PROVE  Abstract!Ask(c)
  <2>1. pc[c] = "idle" /\ pc' = [pc EXCEPT ![c] = "exists"] /\ UNCHANGED <<bogus, expired>>
    BY <1>2 DEF Ask
  <2> QED BY <2>1 DEF Abstract!Ask
<1>3. ASSUME NEW c \in Client,
             \/ RootCheck(c) \/ RootCreate(c) \/ Create(c) \/ Watch(c) \/ Arm(c)
             \/ Interrupt(c)
      PROVE  Quiet(c)
  BY <1>3 DEF Quiet, RootCheck, RootCreate, Create, Watch, SetWatch, Arm, Interrupt
<1>4. ASSUME NEW c \in Client, List(c) \/ Awake(c)
      PROVE  \/ Quiet(c)
             \/ /\ status[c] = "waiting" /\ status'[c] = "in"
                /\ \A d \in Client \ {c} : status'[d] = status[d]
  <2>1. c \notin bogus
    BY <1>4 DEF List, Awake, FirstInv
  <2>2. CASE List(c)
    BY <2>1, <2>2 DEF Quiet, List, IsMinPath
  <2>3. CASE Awake(c)
    BY <2>1, <2>3 DEF Quiet, Awake
  <2> QED BY <1>4, <2>2, <2>3
<1>5. ASSUME NEW c \in Client,
             UnlockCheck(c) \/ UnlockDelete(c) \/ Expire(c) \/ Crash(c)
      PROVE  Quiet(c)
  BY <1>5 DEF Quiet, UnlockCheck, UnlockDelete, Expire, Crash
<1>6. ASSUME NEW c \in Client, Lost(c) \/ Closed(c)
      PROVE  Quiet(c)
  BY <1>6 DEF Quiet, Lost, Closed, Thrown
<1>7. ASSUME NEW c \in Client, EventThread(c) \/ CbThrown(c)
      PROVE  Quiet(c)
  BY <1>7 DEF Quiet, EventThread, Process, CbList, CbWatch, IsMinPath, SetWatch, CbThrown
<1>8. CASE UNCHANGED vars
  BY <1>8 DEF vars
<1> QED
  BY <1>0, <1>1, <1>2, <1>3, <1>4, <1>5, <1>6, <1>7, <1>8
  DEF Next, Caller, Abstract!Next

\* The lock objects of all names together implement one abstract lock per name.
THEOREM Implements == Spec => ImplementsMutex
<1>1. Init => Abstract!Init
  BY DEF Init, Abstract!Init, status, Valid, Holding, Waiting
<1>2. TypeOK /\ FirstInv /\ MutualExclusion' /\ [Next]_vars => [Abstract!Next]_status
  BY MutexStep
<1> QED
  BY <1>1, <1>2, TypeCorrect, GrantedIsFirst, Exclusive, PTL
  DEF Spec, ImplementsMutex, Abstract!Spec

-----------------------------------------------------------------------------
(* The chain of waiting callers, while no call is lost.                      *)

\* Where a client's paths are: it has none before its first node, and nothing has been
\* watched; from getChildren to await() it has a node, unless its session has ended,
\* and from getData on what it waits for is before that node, whichever of its threads
\* wrote waitPath.  Somebody in await() has a latch.
Path(c) ==
  /\ ~root => self[c] = NoNode
  /\ self[c] = NoNode => wait[c] = NoNode /\ watch[c] = {} /\ events[c] = {} /\ cb[c] = "none"
  /\ pc[c] = "mkroot" => self[c] = NoNode
  /\ pc[c] = "create" => root
  /\ pc[c] \in {"list", "watch"} => self[c] # NoNode
  /\ pc[c] \in {"list", "watch", "arm", "await"} /\ self[c] # NoNode /\ c \notin expired => self[c] \in nodes
  /\ pc[c] \in {"watch", "arm", "await"} /\ self[c] # NoNode /\ c \notin expired => Before(wait[c], self[c])
  /\ pc[c] = "await" => latch[c] # "null"

PathInv == faults = 0 => \A c \in Client : Path(c)

\* A step of others: it may fire watches of d, and deletes no node of d.
Aside(d) ==
  /\ pc'[d] = pc[d] /\ self'[d] = self[d] /\ wait'[d] = wait[d] /\ latch'[d] = latch[d] /\ cb'[d] = cb[d]
  /\ root => root'
  /\ self[d] \in nodes => self[d] \in nodes'
  /\ watch'[d] \subseteq watch[d] /\ events[d] \subseteq events'[d]
  /\ watch[d] \cup events[d] = watch'[d] \cup events'[d]
  /\ expired \subseteq expired'

LEMMA AsidePath == ASSUME NEW d \in Client, Path(d), Aside(d) PROVE Path(d)'
BY DEF Path, Aside, Before

LEMMA AsideLinked == ASSUME NEW d \in Client, Linked(d), Aside(d) PROVE Linked(d)'
BY DEF Linked, Aside, Before

Step(c) == \/ Ask(c) \/ Caller(c) \/ EventThread(c) \/ Interrupt(c) \/ Expire(c) \/ Crash(c)
           \/ Lost(c) \/ CbThrown(c)

LEMMA StepsAside ==
  ASSUME TypeOK, FirstInv, faults = 0, faults' = 0, NEW c \in Client, NEW d \in Client \ {c}, Step(c)
  PROVE  Aside(d)
<1> USE DEF TypeOK, Aside, Goto, Callback, server, fields
<1>1. CASE Ask(c) \/ RootCheck(c) \/ RootCreate(c)
  BY <1>1 DEF Ask, RootCheck, RootCreate, Refused
<1>2. CASE Create(c)
  BY <1>2 DEF Create
<1>3. CASE List(c)
  BY <1>3 DEF List, IsMinPath, Refused
<1>4. CASE Watch(c)
  BY <1>4 DEF Watch, SetWatch, Refused
<1>5. CASE Arm(c) \/ Awake(c) \/ Interrupt(c) \/ UnlockCheck(c) \/ Crash(c)
  BY <1>5 DEF Arm, Awake, Interrupt, UnlockCheck, Crash
<1>6. CASE UnlockDelete(c)
  <2>1. self[d] \in nodes => self[d] # self[c]
    BY NoNodeAssumption DEF FirstInv
  <2> QED BY <1>6, <2>1 DEF UnlockDelete, Remove
<1>7. CASE Closed(c)
  BY <1>7 DEF Closed, Thrown, Refused
<1>8. CASE Process(c)
  BY <1>8 DEF Process
<1>9. CASE CbList(c)
  BY <1>9 DEF CbList, IsMinPath
<1>10. CASE CbWatch(c)
  BY <1>10 DEF CbWatch, SetWatch
<1>11. CASE Expire(c)
  <2>1. self[d] \in nodes => self[d].owner # c
    BY NoNodeAssumption DEF FirstInv
  <2> QED BY <1>11, <2>1 DEF Expire
<1>12. CASE CbThrown(c)
  BY <1>12 DEF CbThrown
<1>13. CASE Lost(c)
  BY <1>13 DEF Lost
<1> QED
  BY <1>1, <1>2, <1>3, <1>4, <1>5, <1>6, <1>7, <1>8, <1>9, <1>10, <1>11, <1>12, <1>13
  DEF Step, Caller, EventThread

LEMMA OwnPath ==
  ASSUME TypeOK, FirstInv, faults = 0, faults' = 0, NEW c \in Client, Path(c), Step(c)
  PROVE  Path(c)'
<1> USE NoNodeAssumption DEF TypeOK, Goto, Callback, server, fields, Path
\* isMinPath(), on either thread: what is behind another node is behind waitPath.
<1>1. ASSUME NEW m, IsPredecessor(m, self[c]) PROVE Before(m, self[c])
  BY <1>1 DEF IsPredecessor, Ahead
<1>2. CASE Ask(c) \/ RootCheck(c) \/ RootCreate(c)
  BY <1>2 DEF Ask, RootCheck, RootCreate, Refused, Before
<1>3. CASE Create(c)
  <2>1. self'[c] \in nodes' /\ self'[c] # NoNode /\ pc'[c] = "list" /\ root' = root
    BY <1>3 DEF Create, Node
  <2>2. root
    BY <1>3 DEF Create
  <2> QED BY <2>1, <2>2
<1>4. CASE List(c)
  <2>1. self[c] \in nodes /\ UNCHANGED <<self, nodes, watch, events, expired, root>> /\ cb' = cb
    BY <1>4 DEF List, IsMinPath
  <2>2. \/ pc'[c] = "held"
        \/ pc'[c] = "watch" /\ Before(wait'[c], self[c])
    BY <1>1, <1>4, <2>1 DEF List, IsMinPath
  <2> QED BY <1>4, <2>1, <2>2 DEF List, Before
<1>5. CASE Watch(c)
  BY <1>5 DEF Watch, SetWatch, Refused, Before
<1>6. CASE Arm(c) \/ Awake(c) \/ Interrupt(c) \/ UnlockCheck(c) \/ Crash(c)
  BY <1>6 DEF Arm, Awake, Interrupt, UnlockCheck, Crash, Before
<1>7. CASE UnlockDelete(c)
  BY <1>7 DEF UnlockDelete, Remove
<1>8. CASE Closed(c)
  BY <1>8 DEF Closed, Thrown, Refused
<1>9. CASE Process(c)
  BY <1>9 DEF Process, Before
<1>10. CASE CbList(c)
  <2>1. UNCHANGED <<self, nodes, watch, events, expired, root, pc>> /\ self[c] # NoNode
    BY <1>10 DEF CbList, IsMinPath
  <2>2. wait'[c] = wait[c] \/ Before(wait'[c], self[c])
    BY <1>1, <1>10 DEF CbList, IsMinPath
  <2>3. latch[c] # "null" => latch'[c] # "null"
    BY <1>10 DEF CbList, IsMinPath
  <2> QED BY <2>1, <2>2, <2>3 DEF Before
<1>11. CASE CbWatch(c)
  BY <1>11 DEF CbWatch, SetWatch, Before
<1>12. CASE Expire(c)
  BY <1>12 DEF Expire
<1>13. CASE CbThrown(c)
  BY <1>13 DEF CbThrown, Before
<1>14. CASE Lost(c)
  BY <1>14 DEF Lost
<1> QED
  BY <1>2, <1>3, <1>4, <1>5, <1>6, <1>7, <1>8, <1>9, <1>10, <1>11, <1>12, <1>13, <1>14
  DEF Step, Caller, EventThread

LEMMA NoFaultBefore == ASSUME TypeOK, faults' = 0, NEW c \in Client, Step(c) PROVE faults = 0
BY DEF Step, Ask, Caller, RootCheck, RootCreate, Create, List, IsMinPath, Watch, SetWatch, Arm, Awake,
       UnlockCheck, UnlockDelete, Closed, EventThread, Process, CbList, CbWatch, Interrupt, Expire,
       Crash, Lost, CbThrown, TypeOK

LEMMA PathStep == TypeOK /\ FirstInv /\ PathInv /\ [Next]_vars => PathInv'
<1> SUFFICES ASSUME TypeOK, FirstInv, PathInv, [Next]_vars, faults' = 0, NEW d \in Client
             PROVE  Path(d)'
  BY DEF PathInv
<1>1. CASE UNCHANGED vars
  BY <1>1 DEF PathInv, Path, Before, vars, server, fields
<1>2. ASSUME NEW c \in Client, Step(c) PROVE Path(d)'
  <2>1. faults = 0
    BY <1>2, NoFaultBefore
  <2>2. Path(d)
    BY <2>1 DEF PathInv
  <2>3. CASE c = d
    BY <1>2, <2>1, <2>2, <2>3, OwnPath
  <2>4. CASE c # d
    BY <1>2, <2>1, <2>2, <2>4, AsidePath, StepsAside
  <2> QED BY <2>3, <2>4
<1> QED BY <1>1, <1>2 DEF Next, Step

\* What a caller's own threads do to its link while it is in await() or goes there.
LEMMA OwnLink ==
  ASSUME TypeOK, faults' = 0, NEW c \in Client, Path(c), Step(c),
         pc'[c] = "await", latch'[c] # "zero", c \notin expired',
         ~RaceLost(c), pc[c] = "await" => Linked(c)
  PROVE  Linked(c)'
<1> USE NoNodeAssumption DEF TypeOK, Goto, Callback, server, fields, Linked, Path
<1>1. CASE Ask(c) \/ RootCheck(c) \/ RootCreate(c) \/ Create(c) \/ List(c) \/ Watch(c)
  BY <1>1 DEF Ask, RootCheck, RootCreate, Create, List, IsMinPath, Watch, Refused
<1>2. CASE Awake(c) \/ Interrupt(c) \/ UnlockCheck(c) \/ UnlockDelete(c) \/ Crash(c) \/ Closed(c)
  BY <1>2 DEF Awake, Interrupt, UnlockCheck, UnlockDelete, Crash, Closed
\* Outside of the race the deletion is still to come, or the event thread at work.
<1>3. CASE Arm(c)
  <2>1. /\ pc[c] = "arm" /\ c \notin expired
        /\ UNCHANGED <<server, self, wait, cb>>
    BY <1>3 DEF Arm
  <2>2. wait[c] \in watch[c] \cup events[c] \/ cb[c] # "none"
    BY <2>1 DEF RaceLost
  <2>3. wait[c] \in watch[c] => Before(wait[c], self[c])
    BY <2>1
  <2> QED BY <2>1, <2>2, <2>3 DEF Before
<1>4. ASSUME pc[c] = "await" PROVE Linked(c) /\ latch[c] # "null"
  BY <1>4
<1>5. CASE Process(c)
  <2>1. PICK n \in events[c] : /\ events' = [events EXCEPT ![c] = @ \ {n}]
                               /\ cb' = [cb EXCEPT ![c] = IF n = wait[c] THEN "list" ELSE "none"]
    BY <1>5 DEF Process
  <2>2. UNCHANGED <<pc, self, wait, watch>> /\ cb[c] = "none" /\ Linked(c)
    BY <1>4, <1>5 DEF Process
  <2> QED BY <2>1, <2>2 DEF Before
<1>6. CASE CbList(c)
  <2>1. /\ pc' = pc /\ self[c] # NoNode /\ self[c] \in nodes /\ cb[c] = "list"
    BY <1>6 DEF CbList, IsMinPath
  \* First: the latch, which is there, is counted down.
  <2>2. cb'[c] = "watch"
    BY <1>4, <1>6, <2>1 DEF CbList, IsMinPath
  <2> QED BY <2>2
<1>7. CASE CbWatch(c)
  <2>1. /\ UNCHANGED <<pc, self, wait, nodes, expired>> /\ cb[c] = "watch"
        /\ watch' = [watch EXCEPT ![c] = @ \cup ({wait[c]} \cap nodes)]
        /\ cb' = [cb EXCEPT ![c] = IF wait[c] \in nodes THEN "none" ELSE "list"]
    BY <1>7 DEF CbWatch, SetWatch
  <2>2. self[c] # NoNode /\ Before(wait[c], self[c])
    BY <2>1
  <2> QED BY <2>1, <2>2 DEF Before
<1>8. CASE Expire(c) \/ CbThrown(c) \/ Lost(c)
  BY <1>8 DEF Expire, CbThrown, Lost
<1> QED
  BY <1>1, <1>2, <1>3, <1>5, <1>6, <1>7, <1>8 DEF Step, Caller, EventThread

\* Outside of the race between getData and the new latch no caller in await() is ever
\* without somebody to count its latch down, for any number of clients, names and calls,
\* past interrupts, crashes and ended sessions, as long as no call is lost.
THEOREM ChainHolds == Spec => ChainKept
<1>1. Init => PathInv
  BY DEF Init, PathInv, Path
<1>2. TypeOK /\ FirstInv /\ PathInv /\ [Next]_vars
      => [\A c \in Client :
            /\ pc'[c] = "await" /\ latch'[c] # "zero" /\ c \notin expired' /\ faults' = 0
            /\ ~RaceLost(c) /\ (pc[c] = "await" => Linked(c))
            => Linked(c)']_vars
  <2> SUFFICES ASSUME TypeOK, FirstInv, PathInv, NEW c \in Client, Step(c), NEW d \in Client,
                      pc'[d] = "await", latch'[d] # "zero", d \notin expired', faults' = 0,
                      ~RaceLost(d), pc[d] = "await" => Linked(d)
               PROVE  Linked(d)'
    BY DEF Next, Step
  <2>1. faults = 0
    BY NoFaultBefore
  <2>2. Path(d)
    BY <2>1 DEF PathInv
  <2>3. CASE c = d
    BY <2>2, <2>3, OwnLink
  <2>4. CASE c # d
    BY <2>1, <2>4, StepsAside, AsideLinked DEF Aside
  <2> QED BY <2>3, <2>4
<1> QED
  BY <1>1, <1>2, PathStep, TypeInit, TypeStep, FirstInit, FirstStep, PTL DEF Spec, ChainKept
=============================================================================

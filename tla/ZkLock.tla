------------------------------- MODULE ZkLock -------------------------------
(***************************************************************************)
(* The fair lock on ZooKeeper's ephemeral sequential nodes                  *)
(* (zk/lock/ZkLock.java, zk/ZkUtils.java).                                  *)
(*                                                                         *)
(* A Client is one ZkLock object: it has a ZooKeeper session of its own, a  *)
(* caller thread and the session's event thread, which share selfPath,      *)
(* waitPath and latch without synchronisation.  Every ZooKeeper call is one *)
(* step.  All locks live under /lock and getChildren sorts all their nodes, *)
(* by lock name first and by sequence number second.                        *)
(***************************************************************************)
EXTENDS Naturals, FiniteSets

CONSTANTS Client,        \* ZkLock objects
          NameOf,        \* the rank of each object's lock name in the sort order
          NoNode,        \* null
          Methods,       \* what callers use: a subset of {"lock", "try"}
          RootExists,    \* whether /lock exists at the start
          MayInterrupt,  \* whether callers may be interrupted in await()
          Mortal,        \* the clients whose session may be lost
          MaxAsks,       \* how many times lock() or tryLock() is called
          MaxFaults      \* how many calls may end in ConnectionLoss

ASSUME ZkAssumption == /\ NameOf \in [Client -> Nat]
                       /\ Methods \subseteq {"lock", "try"}
                       /\ RootExists \in BOOLEAN /\ MayInterrupt \in BOOLEAN
                       /\ Mortal \subseteq Client
                       /\ MaxAsks \in Nat /\ MaxFaults \in Nat

Node == [owner : Client, seq : Nat]
ASSUME NoNodeAssumption == NoNode \notin Node

VARIABLES root,     \* does /lock exist
          nodes,    \* the children of /lock
          seq,      \* sequence numbers given out so far
          watch,    \* the nodes each session watches for deletion
          events,   \* NodeDeleted events on their way to each client
          expired,  \* the sessions the server has closed
          pc,       \* the caller thread
          method,   \* the call it is in
          self,     \* selfPath
          wait,     \* waitPath
          latch,    \* "null", "up" (count 1) or "zero"
          cb,       \* the event thread in process(): "none", "list" or "watch"
          bogus,    \* lock() returned because of an interrupt
          asks, faults

server == <<root, nodes, seq, watch, events, expired>>
fields == <<self, wait, latch>>
vars   == <<server, fields, pc, method, cb, bogus, asks, faults>>

PC == {"idle", "exists", "mkroot", "create", "list", "watch", "arm", "await",
       "held", "udelete", "crashed"}

TypeOK ==
  /\ root \in BOOLEAN
  /\ nodes \subseteq Node
  /\ seq \in Nat
  /\ \A n \in nodes : n.seq \in 1 .. seq
  /\ \A m, n \in nodes : m.seq = n.seq => m = n
  /\ watch \in [Client -> SUBSET Node]
  /\ \A c \in Client : watch[c] \subseteq nodes
  /\ events \in [Client -> SUBSET Node]
  /\ expired \subseteq Client
  /\ pc \in [Client -> PC]
  /\ method \in [Client -> {"lock", "try"}]
  /\ self \in [Client -> Node \cup {NoNode}]
  /\ wait \in [Client -> Node \cup {NoNode}]
  /\ latch \in [Client -> {"null", "up", "zero"}]
  /\ cb \in [Client -> {"none", "list", "watch"}]
  /\ bogus \subseteq Client
  /\ asks \in 0 .. MaxAsks
  /\ faults \in 0 .. MaxFaults

Init ==
  /\ root = RootExists
  /\ nodes = {}
  /\ seq = 0
  /\ watch = [c \in Client |-> {}]
  /\ events = [c \in Client |-> {}]
  /\ expired = {}
  /\ pc = [c \in Client |-> "idle"]
  /\ method = [c \in Client |-> "lock"]
  /\ self = [c \in Client |-> NoNode]
  /\ wait = [c \in Client |-> NoNode]
  /\ latch = [c \in Client |-> "null"]
  /\ cb = [c \in Client |-> "none"]
  /\ bogus = {}
  /\ asks = 0
  /\ faults = 0

-----------------------------------------------------------------------------
(* ZooKeeper.                                                               *)

\* Mutant: the list is not sorted by sequence number.
BeforeByName(m, n) == NameOf[m.owner] < NameOf[n.owner]

\* The order of Collections.sort on the children's names.
Before(m, n) ==
  \/ NameOf[m.owner] < NameOf[n.owner]
  \/ NameOf[m.owner] = NameOf[n.owner] /\ m.seq < n.seq

Ahead(n) == {m \in nodes : Before(m, n)}

\* The child just before n in the sorted list.
IsPredecessor(m, n) == m \in Ahead(n) /\ \A k \in Ahead(n) : k = m \/ Before(k, m)

\* A watch fires once, when its node is deleted.
Remove(gone) ==
  /\ nodes' = nodes \ gone
  /\ watch' = [c \in Client |-> watch[c] \ gone]
  /\ events' = [c \in Client |-> events[c] \cup (watch[c] \cap gone)]

Goto(c, label) == pc' = [pc EXCEPT ![c] = label]

-----------------------------------------------------------------------------
(* The caller thread.                                                       *)

\* lock() or tryLock() is called; createRootPath comes first.
Ask(c) ==
  /\ pc[c] = "idle"
  /\ asks < MaxAsks
  /\ asks' = asks + 1
  /\ \E how \in Methods : method' = [method EXCEPT ![c] = how]
  /\ Goto(c, "exists")
  /\ UNCHANGED <<server, fields, cb, bogus, faults>>

\* tryLock() answers false: lock() goes on to wait, tryLock() returns and the
\* node it may have created stays.
Refused(c) == Goto(c, IF method[c] = "lock" THEN "arm" ELSE "idle")

RootCheck(c) ==
  /\ pc[c] = "exists" /\ c \notin expired
  /\ Goto(c, IF root THEN "create" ELSE "mkroot")
  /\ UNCHANGED <<server, fields, method, cb, bogus, asks, faults>>

\* Somebody else may have created /lock since the check: NodeExists.
RootCreate(c) ==
  /\ pc[c] = "mkroot" /\ c \notin expired
  /\ root' = TRUE
  /\ IF root THEN Refused(c) ELSE Goto(c, "create")
  /\ UNCHANGED <<nodes, seq, watch, events, expired, fields, method, cb, bogus, asks, faults>>

Create(c) ==
  /\ pc[c] = "create" /\ c \notin expired
  /\ seq' = seq + 1
  /\ nodes' = nodes \cup {[owner |-> c, seq |-> seq + 1]}
  /\ self' = [self EXCEPT ![c] = [owner |-> c, seq |-> seq + 1]]
  /\ Goto(c, "list")
  /\ UNCHANGED <<root, watch, events, expired, wait, latch, method, cb, bogus, asks, faults>>

\* isMinPath(), getChildren and what follows from the answer; answer says what
\* the thread does next when its node is gone, first, or behind another one.
IsMinPath(c, onGone, onFirst, onBehind) ==
  /\ c \notin expired
  /\ \/ /\ self[c] \notin nodes
        /\ onGone
        /\ UNCHANGED <<wait, latch>>
     \/ /\ self[c] \in nodes /\ Ahead(self[c]) = {}
        /\ onFirst
        /\ latch' = [latch EXCEPT ![c] = IF @ = "null" THEN @ ELSE "zero"]
        /\ UNCHANGED wait
     \/ /\ self[c] \in nodes
        /\ \E m \in nodes : /\ IsPredecessor(m, self[c])
                            /\ wait' = [wait EXCEPT ![c] = m]
        /\ onBehind
        /\ UNCHANGED latch
  /\ UNCHANGED <<server, self, method, bogus, asks, faults>>

List(c) ==
  /\ pc[c] = "list"
  /\ IsMinPath(c, Refused(c), Goto(c, "held"), Goto(c, "watch"))
  /\ UNCHANGED cb

\* Mutant: exists() in place of getData() watches an absent node, too.
SetWatchByExists(c) ==
  /\ c \notin expired
  /\ watch' = [watch EXCEPT ![c] = @ \cup {wait[c]}]
  /\ UNCHANGED <<root, nodes, seq, events, expired, fields, method, bogus, asks, faults>>

\* isMinPath(), getData registers the watch; NoNode means: look again.
SetWatch(c) ==
  /\ c \notin expired
  /\ watch' = [watch EXCEPT ![c] = @ \cup ({wait[c]} \cap nodes)]
  /\ UNCHANGED <<root, nodes, seq, events, expired, fields, method, bogus, asks, faults>>

Watch(c) ==
  /\ pc[c] = "watch"
  /\ SetWatch(c)
  /\ IF wait[c] \in nodes THEN Refused(c) ELSE Goto(c, "list")
  /\ UNCHANGED cb

\* lock(): the latch is created after tryLock() has set the watch.
Arm(c) ==
  /\ pc[c] = "arm"
  /\ latch' = [latch EXCEPT ![c] = "up"]
  /\ Goto(c, "await")
  /\ UNCHANGED <<server, self, wait, method, cb, bogus, asks, faults>>

Awake(c) ==
  /\ pc[c] = "await" /\ latch[c] = "zero"
  /\ Goto(c, "held")
  /\ UNCHANGED <<server, fields, method, cb, bogus, asks, faults>>

\* await() is interrupted; lock() logs it and returns as if it had the lock.
Interrupt(c) ==
  /\ MayInterrupt
  /\ pc[c] = "await"
  /\ Goto(c, "held")
  /\ bogus' = bogus \cup {c}
  /\ UNCHANGED <<server, fields, method, cb, asks, faults>>

\* unLock(): exists(selfPath); a null path throws, an absent node returns.
UnlockCheck(c) ==
  /\ pc[c] = "held" /\ c \notin expired
  /\ Goto(c, IF self[c] \in nodes THEN "udelete" ELSE "idle")
  /\ bogus' = IF self[c] \in nodes THEN bogus ELSE bogus \ {c}
  /\ UNCHANGED <<server, fields, method, cb, asks, faults>>

\* unLock(): delete(selfPath).
UnlockDelete(c) ==
  /\ pc[c] = "udelete" /\ c \notin expired
  /\ Remove({self[c]})
  /\ Goto(c, "idle")
  /\ bogus' = bogus \ {c}
  /\ UNCHANGED <<root, seq, expired, fields, method, cb, asks, faults>>

-----------------------------------------------------------------------------
(* The event thread: callbacks run one after the other.                     *)

\* process(): only the deletion of waitPath starts isMinPath().
Process(c) ==
  /\ cb[c] = "none" /\ pc[c] # "crashed"
  /\ \E n \in events[c] :
       /\ events' = [events EXCEPT ![c] = @ \ {n}]
       /\ cb' = [cb EXCEPT ![c] = IF n = wait[c] THEN "list" ELSE "none"]
  /\ UNCHANGED <<root, nodes, seq, watch, expired, fields, pc, method, bogus, asks, faults>>

Callback(c, label) == cb' = [cb EXCEPT ![c] = label]

\* Mutants: process() takes the deletion of waitPath for a grant; process()
\* counts down but does not watch the next node when it is not the first.
CbGrant(c) ==
  /\ cb[c] = "list" /\ c \notin expired
  /\ latch' = [latch EXCEPT ![c] = IF @ = "null" THEN @ ELSE "zero"]
  /\ Callback(c, "none")
  /\ UNCHANGED <<server, self, wait, pc, method, bogus, asks, faults>>
CbListOnce(c) ==
  /\ cb[c] = "list"
  /\ IsMinPath(c, Callback(c, "none"), Callback(c, "none"), Callback(c, "none"))
  /\ UNCHANGED pc

CbList(c) ==
  /\ cb[c] = "list"
  /\ IsMinPath(c, Callback(c, "none"), Callback(c, "none"), Callback(c, "watch"))
  /\ UNCHANGED pc

\* Mutant: a getData that finds no node is not followed by another look.
CbWatchOnce(c) ==
  /\ cb[c] = "watch"
  /\ SetWatch(c)
  /\ Callback(c, "none")
  /\ UNCHANGED pc

CbWatch(c) ==
  /\ cb[c] = "watch"
  /\ SetWatch(c)
  /\ Callback(c, IF wait[c] \in nodes THEN "none" ELSE "list")
  /\ UNCHANGED pc

-----------------------------------------------------------------------------
(* Failures.                                                                *)

\* The server closes a session: its nodes go, and its watches with it.  The
\* client only gets a session event, which process() ignores.
Expire(c) ==
  /\ c \in Mortal \ expired
  /\ expired' = expired \cup {c}
  /\ LET gone == {n \in nodes : n.owner = c}
     IN /\ nodes' = nodes \ gone
        /\ watch' = [d \in Client |-> IF d = c THEN {} ELSE watch[d] \ gone]
        /\ events' = [d \in Client |-> IF d = c THEN events[d]
                                       ELSE events[d] \cup (watch[d] \cap gone)]
  /\ UNCHANGED <<root, seq, fields, pc, method, cb, bogus, asks, faults>>

\* The client's process dies; the server notices by and by (Expire).
Crash(c) ==
  /\ c \in Mortal /\ pc[c] # "crashed"
  /\ Goto(c, "crashed")
  /\ cb' = [cb EXCEPT ![c] = "none"]
  /\ UNCHANGED <<server, fields, method, bogus, asks, faults>>

\* What a call of the caller thread does when it throws a KeeperException:
\* isMinPath() looks again when getData fails, tryLock() answers false, unLock()
\* logs and returns.
Thrown(c) ==
  /\ \/ pc[c] \in {"exists", "mkroot", "create", "list"} /\ Refused(c) /\ UNCHANGED bogus
     \/ pc[c] = "watch" /\ Goto(c, "list") /\ UNCHANGED bogus
     \/ pc[c] \in {"held", "udelete"} /\ Goto(c, "idle") /\ bogus' = bogus \ {c}
  /\ UNCHANGED <<fields, method, cb, asks>>

\* The answer is lost, and perhaps the request too: create and delete may have
\* been executed.
Lost(c) ==
  /\ c \notin expired /\ faults < MaxFaults
  /\ faults' = faults + 1
  /\ Thrown(c)
  /\ \/ UNCHANGED server
     \/ /\ pc[c] = "mkroot"
        /\ root' = TRUE
        /\ UNCHANGED <<nodes, seq, watch, events, expired>>
     \/ /\ pc[c] = "create"
        /\ seq' = seq + 1
        /\ nodes' = nodes \cup {[owner |-> c, seq |-> seq + 1]}
        /\ UNCHANGED <<root, watch, events, expired>>
     \/ /\ pc[c] = "udelete"
        /\ Remove({self[c]})
        /\ UNCHANGED <<root, seq, expired>>

\* Every call on a closed session throws SessionExpired.
Closed(c) == c \in expired /\ Thrown(c) /\ UNCHANGED <<server, faults>>

\* The same on the event thread: process() logs it and is done, unless getData
\* failed, which makes isMinPath() look again.
CbThrown(c) ==
  /\ \/ cb[c] = "list" /\ Callback(c, "none")
     \/ cb[c] = "watch" /\ Callback(c, "list")
  /\ \/ c \in expired /\ UNCHANGED faults
     \/ c \notin expired /\ faults < MaxFaults /\ faults' = faults + 1
  /\ UNCHANGED <<server, fields, pc, method, bogus, asks>>

-----------------------------------------------------------------------------
Caller(c) ==
  \/ RootCheck(c) \/ RootCreate(c) \/ Create(c) \/ List(c) \/ Watch(c)
  \/ Arm(c) \/ Awake(c) \/ UnlockCheck(c) \/ UnlockDelete(c) \/ Closed(c)
EventThread(c) == Process(c) \/ CbList(c) \/ CbWatch(c)

Next == \E c \in Client : \/ Ask(c) \/ Caller(c) \/ EventThread(c)
                          \/ Interrupt(c) \/ Expire(c) \/ Crash(c)
                          \/ Lost(c) \/ CbThrown(c)

Spec == Init /\ [][Next]_vars

\* Both threads of a client run on, and the server closes the session of a
\* dead one after its timeout.
Fairness == \A c \in Client : /\ WF_vars(Caller(c)) /\ WF_vars(EventThread(c))
                              /\ WF_vars(c \in expired /\ CbThrown(c))
                              /\ WF_vars(pc[c] = "crashed" /\ Expire(c))

FairSpec == Spec /\ Fairness

-----------------------------------------------------------------------------
(* Properties.                                                              *)

Holding(c) == pc[c] \in {"held", "udelete"}

\* The caller has been granted the lock and its session is alive.
Valid(c) == Holding(c) /\ c \notin bogus /\ c \notin expired

\* Two granted callers of one lock name never overlap, whatever orphan nodes,
\* lost answers, closed sessions of others and stale callbacks do.
MutualExclusion ==
  \A c, d \in Client :
    Valid(c) /\ Valid(d) /\ NameOf[c] = NameOf[d] => c = d

\* A caller is inside from its grant to the end of unLock() or of its session;
\* an interrupted one never is.
Waiting(c) == pc[c] \in {"exists", "mkroot", "create", "list", "watch", "arm", "await"}
status == [c \in Client |-> IF Valid(c) THEN "in" ELSE IF Waiting(c) THEN "waiting" ELSE "out"]

\* All names of the one directory together implement a lock per name (Mutex):
\* who enters asked for it and finds nobody of its name inside, and nobody is
\* let in a second time by a late callback.
Abstract == INSTANCE Mutex WITH LockOf <- NameOf, status <- status
ImplementsMutex == Abstract!Spec

\* What makes it inductive: a granted caller's node exists and no node of the
\* same name is before it; a latch that is down in await() was counted down
\* for that reason.
First(c) ==
  /\ self[c] \in nodes
  /\ \A n \in nodes : NameOf[n.owner] = NameOf[c] => ~Before(n, self[c])

Granted(c) == Valid(c) \/ (pc[c] = "await" /\ latch[c] = "zero" /\ c \notin expired)

FirstInv ==
  \A c \in Client : /\ Granted(c) => First(c)
                    /\ self[c] # NoNode => self[c].owner = c
                    /\ c \in bogus => Holding(c) \/ pc[c] = "crashed"

\* The lock is fair (note/zk/Zookeeper.md:270): who is granted the lock has no
\* node of the same name before its own.
Fifo ==
  [][\A c \in Client :
       ~Holding(c) /\ Valid(c)' =>
         \A n \in nodes' : NameOf[n.owner] = NameOf[c] => ~Before(n, self'[c])]_vars

\* A caller about to create its latch when nothing is left to count it down:
\* the deletion of waitPath was processed before (or no node was created).
RaceLost(c) ==
  /\ pc[c] = "arm"
  /\ wait[c] \notin watch[c] \cup events[c]
  /\ cb[c] = "none"

\* Something will count down its latch: its event thread is at work, the event that
\* starts it is on its way, or a node before its own is being watched.
Linked(c) == \/ cb[c] # "none" \/ wait[c] \in events[c]
             \/ wait[c] \in watch[c] /\ Before(wait[c], self[c])

\* Nothing but that race unlinks a caller: whoever goes to await() outside of it is
\* linked, and whoever is stays so until its latch is down or its session ends,
\* whatever crashes, interrupts, expiries and calls of others do, in whatever order
\* both its threads write waitPath.  As the watched node is before one's own, no
\* callers wait for each other in a circle.
ChainKept ==
  [][\A c \in Client :
       /\ pc'[c] = "await" /\ latch'[c] # "zero" /\ c \notin expired' /\ faults' = 0
       /\ ~RaceLost(c) /\ (pc[c] = "await" => Linked(c))
       => Linked(c)']_vars

\* The hand-over chain breaks nowhere but in the window between getData and the
\* creation of the latch: if no caller is caught in it, every caller that waits
\* gets the lock, past crashes of those before it, or loses its own session.
OnlyRaceStrands ==
  [](\A c \in Client : ~RaceLost(c)) =>
    \A c \in Client :
      (pc[c] = "await") ~> (Holding(c) \/ c \in expired \/ pc[c] = "crashed")
=============================================================================

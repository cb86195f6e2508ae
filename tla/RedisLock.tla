----------------------------- MODULE RedisLock -----------------------------
(***************************************************************************)
(* The hand-written Redis lock (redis/lock/custom/RedisLock.java): a lease  *)
(* on one key, taken with SETNX + TTL, extended by a background thread and  *)
(* given back with GET followed by DEL.                                     *)
(*                                                                         *)
(* A Client is one RedisLock object.  LockService.getLock builds a new one  *)
(* for every call, so each is locked at most once, its uuid is its own      *)
(* identity, and it lives in one Jvm.  All clients compete for one name.    *)
(* Time is counted in seconds.  A background thread that is due runs at     *)
(* most MaxLag seconds late; this is the only bound on scheduling, pauses   *)
(* and network delay, and it is a parameter.                                *)
(***************************************************************************)
EXTENDS Naturals

CONSTANTS Client,     \* RedisLock objects competing for one key
          Jvm,        \* server processes
          HostOf,     \* the process each client runs in
          NoClient,   \* the value of an absent key
          TTL,        \* DEF_TIME, in seconds
          MaxLag,     \* how late a renewal thread may run, in seconds
          Crashable,  \* the processes that may be killed
          MaxFaults,  \* how many commands of callers may fail
          RenewalMayFail  \* whether a command of a renewal thread may fail

ASSUME ClientAssumption == /\ HostOf \in [Client -> Jvm]
                           /\ NoClient \notin Client
                           /\ Crashable \subseteq Jvm

ASSUME TimeAssumption == TTL \in Nat \ {0} /\ MaxLag \in Nat
ASSUME FaultAssumption == MaxFaults \in Nat /\ RenewalMayFail \in BOOLEAN

VARIABLES key,      \* the uuid stored under the name, or NoClient
          ttl,      \* seconds until Redis drops the key
          pc,       \* where each client's caller is
          renewer,  \* the thread started by renew()
          timer,    \* seconds until that thread must have run
          faults    \* failed commands so far

vars == <<key, ttl, pc, renewer, timer, faults>>

\* Mutant: the thread sleeps for the whole lease.
RenewEveryTTL == TTL

RenewEvery == TTL \div 3      \* sleep(DEF_TIME / 3)
Deadline   == RenewEvery + MaxLag

PC == {"idle", "lock", "once", "timed", "backoff", "held", "delete",
       "refused", "failed", "done", "crashed"}
Trying == {"lock", "once", "timed"}
Live   == {"starting", "sleeping"}

TypeOK ==
  /\ key \in Client \cup {NoClient}
  /\ ttl \in 0 .. TTL
  /\ (key = NoClient) <=> (ttl = 0)
  /\ pc \in [Client -> PC]
  /\ renewer \in [Client -> {"none", "starting", "sleeping", "exited"}]
  /\ timer \in [Client -> 0 .. Deadline]
  /\ faults \in 0 .. MaxFaults

Init ==
  /\ key = NoClient
  /\ ttl = 0
  /\ pc = [c \in Client |-> "idle"]
  /\ renewer = [c \in Client |-> "none"]
  /\ timer = [c \in Client |-> 0]
  /\ faults = 0

-----------------------------------------------------------------------------
(* The caller's thread.                                                     *)

Goto(c, label) == pc' = [pc EXCEPT ![c] = label]

\* A caller enters lock(), tryLock() or tryLock(time, unit).
Request(c) ==
  /\ pc[c] = "idle"
  /\ \E how \in Trying : Goto(c, how)
  /\ UNCHANGED <<key, ttl, renewer, timer, faults>>

\* Mutant: the key and its timeout are written in two steps.
AcquireKeyOnly(c) ==
  /\ pc[c] \in Trying
  /\ key = NoClient
  /\ key' = c
  /\ ttl' = 0
  /\ Goto(c, "held")
  /\ renewer' = [renewer EXCEPT ![c] = "starting"]
  /\ timer' = [timer EXCEPT ![c] = MaxLag]
  /\ UNCHANGED faults

\* setIfAbsent(name, uuid, 10 s) succeeds; renew() hands its loop to a new thread.
Acquire(c) ==
  /\ pc[c] \in Trying
  /\ key = NoClient
  /\ key' = c
  /\ ttl' = TTL
  /\ Goto(c, "held")
  /\ renewer' = [renewer EXCEPT ![c] = "starting"]
  /\ timer' = [timer EXCEPT ![c] = MaxLag]
  /\ UNCHANGED faults

\* setIfAbsent answers false: lock() sleeps, tryLock() gives up, the timed
\* form gives up or, before its deadline, tries again at once.
Refuse(c) ==
  /\ key # NoClient
  /\ \/ pc[c] = "lock" /\ Goto(c, "backoff")
     \/ pc[c] \in {"once", "timed"} /\ Goto(c, "refused")
     \/ pc[c] = "timed" /\ UNCHANGED pc
  /\ UNCHANGED <<key, ttl, renewer, timer, faults>>

\* The 100 ms sleep between two attempts of lock() is over.
Retry(c) ==
  /\ pc[c] = "backoff"
  /\ Goto(c, "lock")
  /\ UNCHANGED <<key, ttl, renewer, timer, faults>>

\* Mutant: unlock() does not compare the uuid.
UnlockUnchecked(c) ==
  /\ pc[c] \in {"held", "refused"}
  /\ Goto(c, "delete")
  /\ UNCHANGED <<key, ttl, renewer, timer, faults>>

\* unlock(), first command: does the key still hold my uuid?  A caller that was
\* refused may call it too; one whose attempt threw does not (OrderService
\* locks before its try block).
UnlockGet(c) ==
  /\ pc[c] \in {"held", "refused"}
  /\ Goto(c, IF key = c THEN "delete" ELSE "done")
  /\ UNCHANGED <<key, ttl, renewer, timer, faults>>

\* unlock(), second command: DEL removes whatever is stored by now.
UnlockDelete(c) ==
  /\ pc[c] = "delete"
  /\ key' = NoClient
  /\ ttl' = 0
  /\ Goto(c, "done")
  /\ UNCHANGED <<renewer, timer, faults>>

-----------------------------------------------------------------------------
(* The thread started by renew().  It reads the key once; the loop then     *)
(* tests that first answer for ever.                                        *)

RenewGet(c) ==
  /\ renewer[c] = "starting"
  /\ IF key = c
     THEN /\ renewer' = [renewer EXCEPT ![c] = "sleeping"]
          /\ timer' = [timer EXCEPT ![c] = Deadline]
     ELSE /\ renewer' = [renewer EXCEPT ![c] = "exited"]
          /\ timer' = [timer EXCEPT ![c] = 0]
  /\ UNCHANGED <<key, ttl, pc, faults>>

\* Mutants: EXPIRE creates the key; SET name uuid EX in place of EXPIRE.
RenewBlind(c) ==
  /\ renewer[c] = "sleeping"
  /\ timer[c] <= MaxLag
  /\ ttl' = TTL
  /\ timer' = [timer EXCEPT ![c] = Deadline]
  /\ UNCHANGED <<key, pc, renewer, faults>>
RenewBySet(c) ==
  /\ renewer[c] = "sleeping"
  /\ timer[c] <= MaxLag
  /\ key' = c
  /\ ttl' = TTL
  /\ timer' = [timer EXCEPT ![c] = Deadline]
  /\ UNCHANGED <<pc, renewer, faults>>

\* The sleep is over: EXPIRE the key, whoever owns it; no effect when absent.
RenewExpire(c) ==
  /\ renewer[c] = "sleeping"
  /\ timer[c] <= MaxLag
  /\ ttl' = IF key = NoClient THEN 0 ELSE TTL
  /\ timer' = [timer EXCEPT ![c] = Deadline]
  /\ UNCHANGED <<key, pc, renewer, faults>>

-----------------------------------------------------------------------------
(* The environment: time, failing commands and killed processes.            *)

Tick ==
  /\ ttl > 0 \/ \E c \in Client : renewer[c] \in Live
  /\ \A c \in Client : renewer[c] \in Live => timer[c] > 0
  /\ ttl' = IF ttl = 0 THEN 0 ELSE ttl - 1
  /\ key' = IF ttl = 1 THEN NoClient ELSE key
  /\ timer' = [c \in Client |-> IF renewer[c] \in Live THEN timer[c] - 1 ELSE timer[c]]
  /\ UNCHANGED <<pc, renewer, faults>>

\* A command of the caller throws; SETNX may have been executed all the same.
CallerFault(c) ==
  /\ faults < MaxFaults
  /\ pc[c] \in Trying \cup {"held", "delete"}
  /\ Goto(c, "failed")
  /\ \/ UNCHANGED <<key, ttl>>
     \/ pc[c] \in Trying /\ key = NoClient /\ key' = c /\ ttl' = TTL
  /\ faults' = faults + 1
  /\ UNCHANGED <<renewer, timer>>

\* A command of the renewal thread throws: the submitted task ends silently.
RenewerFault(c) ==
  /\ RenewalMayFail
  /\ renewer[c] \in Live
  /\ renewer' = [renewer EXCEPT ![c] = "exited"]
  /\ timer' = [timer EXCEPT ![c] = 0]
  /\ UNCHANGED <<key, ttl, pc, faults>>

\* The process is killed: its callers and its renewal threads stop for good.
Crash(j) ==
  /\ j \in Crashable
  /\ \E c \in Client : HostOf[c] = j /\ pc[c] # "crashed"
  /\ pc' = [c \in Client |-> IF HostOf[c] = j THEN "crashed" ELSE pc[c]]
  /\ renewer' = [c \in Client |-> IF HostOf[c] = j THEN "exited" ELSE renewer[c]]
  /\ timer' = [c \in Client |-> IF HostOf[c] = j THEN 0 ELSE timer[c]]
  /\ UNCHANGED <<key, ttl, faults>>

-----------------------------------------------------------------------------
Caller(c)  == Acquire(c) \/ Refuse(c) \/ Retry(c) \/ UnlockGet(c) \/ UnlockDelete(c)
Renewal(c) == RenewGet(c) \/ RenewExpire(c)

Next ==
  \/ \E c \in Client : \/ Request(c)
                       \/ Caller(c)
                       \/ Renewal(c)
                       \/ CallerFault(c)
                       \/ RenewerFault(c)
  \/ \E j \in Jvm : Crash(j)
  \/ Tick

Spec == Init /\ [][Next]_vars

\* Every thread of a live process runs on, Redis's clock advances; nobody has
\* to ask for the lock, and nothing has to fail.
\* A caller that holds the lock leaves its critical section, by unlock().
Running(c) == \/ Acquire(c) \/ Refuse(c) \/ Retry(c) \/ UnlockDelete(c)
              \/ pc[c] = "held" /\ UnlockGet(c)

Fairness == /\ \A c \in Client : WF_vars(Running(c)) /\ WF_vars(Renewal(c))
            /\ WF_vars(Tick)

FairSpec == Spec /\ Fairness

-----------------------------------------------------------------------------
(* Properties.                                                              *)

\* The caller is between a successful lock call and the end of unlock().
Holding(c) == pc[c] \in {"held", "delete"}
Terminal   == {"done", "refused", "failed", "crashed"}

\* What the lease rests on: renewals that do not fail, and a first renewal
\* (late in starting, late in waking up) that precedes the first expiry.
Prompt == ~RenewalMayFail /\ MaxLag + Deadline < TTL

\* Mutual exclusion, for as long a critical section as the caller likes:
\* whatever zombie renewals, killed processes and failing commands of other
\* callers do, the lease of a holder is extended before it runs out.
MutualExclusion ==
  \A c, d \in Client : Holding(c) /\ Holding(d) => c = d

\* The comment at RedisLock.java:77 ("避免释放别人的锁"): unlock() releases
\* no lock but the caller's own, although GET and DEL are two commands.
DeleteOnlyOwn ==
  [][\A c \in Client : UnlockDelete(c) => key = c]_vars

\* The strengthening that is inductive: a holder owns the key, its renewal
\* thread is alive, and the lease outlasts the time that thread may still take
\* (until its first EXPIRE while it is starting); and whoever was never let in
\* does not own the key.
Covered(c) ==
  /\ key = c
  /\ \/ renewer[c] = "starting" /\ ttl > timer[c] + Deadline
     \/ renewer[c] = "sleeping" /\ ttl > timer[c]
Outside == {"idle", "backoff", "refused"} \cup Trying
LeaseInv == \A c \in Client : /\ Holding(c) => Covered(c)
                              /\ pc[c] \in Outside => key # c

\* The lock implements the abstract one: whoever enters finds nobody inside.
status == [c \in Client |-> IF Holding(c) THEN "in"
                           ELSE IF pc[c] \in Trying \cup {"backoff"} THEN "waiting"
                           ELSE "out"]

Abstract == INSTANCE Mutex WITH LockOf <- [c \in Client |-> 0], status <- status
ImplementsMutex == Abstract!Spec

\* If no process dies and no command of a caller fails, every caller that asks
\* for the lock is through its critical section, or turned away, in the end,
\* whether the renewal threads of earlier callers live on or die.
NoCallerFails == \A c \in Client : pc[c] \notin {"failed", "crashed"}
EveryCallerServed ==
  []NoCallerFails => \A c \in Client : (pc[c] \in Trying) ~> (pc[c] \in Terminal)

\* A lock left behind by a killed process expires if no renewal thread that
\* entered its loop is left running (the case the code's lease is made for).
OrphanExpires ==
  \A c \in Client :
    (key = c /\ pc[c] = "crashed" /\ \A d \in Client : renewer[d] # "sleeping")
       ~> (key # c)
=============================================================================

---------------------------- MODULE OrderService ----------------------------
(***************************************************************************)
(* Grabbing an order (redis/lock/service/OrderService.java) under the lease *)
(* lock: lock(), read the order's flag in CACHE, sleep, write the flag if   *)
(* the value read was FALSE, unlock() in finally.                           *)
(*                                                                         *)
(* The lock name contains the order id, so orders do not interact: this is  *)
(* one order and the calls of grabOrder for it.  CACHE is a static map: one *)
(* per process.                                                             *)
(***************************************************************************)
EXTENDS RedisLock

VARIABLES sold,   \* CACHE.get(orderId) in each process
          step,   \* progress of each call inside the lock
          flag,   \* the local variable flag of grab()
          won     \* the calls whose grab() returned true

shop  == <<sold, step, flag, won>>
ovars == <<vars, shop>>

OrderTypeOK ==
  /\ TypeOK
  /\ sold \in [Jvm -> BOOLEAN]
  /\ step \in [Client -> {"enter", "read", "left"}]
  /\ flag \in [Client -> BOOLEAN]
  /\ won \subseteq Client

OrderInit ==
  /\ Init
  /\ sold = [j \in Jvm |-> FALSE]
  /\ step = [c \in Client |-> "enter"]
  /\ flag = [c \in Client |-> FALSE]
  /\ won = {}

\* lock(); an exception here leaves grabOrder before its try block.
Lock(c) ==
  /\ \/ Request(c) /\ pc'[c] = "lock"
     \/ Acquire(c)
     \/ Refuse(c)
     \/ Retry(c)
     \/ pc[c] = "lock" /\ CallerFault(c)
  /\ UNCHANGED shop

\* Mutant: the flag is read before the lock is taken.
GrabReadFirst(c) ==
  /\ pc[c] = "lock" /\ step[c] = "enter"
  /\ flag' = [flag EXCEPT ![c] = sold[HostOf[c]]]
  /\ step' = [step EXCEPT ![c] = "read"]
  /\ UNCHANGED <<vars, sold, won>>

\* grab(): CACHE.get(orderId); a sleep of up to four seconds follows.
GrabRead(c) ==
  /\ pc[c] = "held" /\ step[c] = "enter"
  /\ flag' = [flag EXCEPT ![c] = sold[HostOf[c]]]
  /\ step' = [step EXCEPT ![c] = "read"]
  /\ UNCHANGED <<vars, sold, won>>

\* grab(): CACHE.put if the flag read before the sleep was FALSE.
GrabWrite(c) ==
  /\ pc[c] = "held" /\ step[c] = "read"
  /\ step' = [step EXCEPT ![c] = "left"]
  /\ IF flag[c]
     THEN UNCHANGED <<sold, won>>
     ELSE /\ sold' = [sold EXCEPT ![HostOf[c]] = TRUE]
          /\ won' = won \cup {c}
  /\ UNCHANGED <<vars, flag>>

\* The sleep is interrupted: grab() throws, finally still unlocks.
GrabInterrupted(c) ==
  /\ pc[c] = "held" /\ step[c] = "read"
  /\ step' = [step EXCEPT ![c] = "left"]
  /\ UNCHANGED <<vars, sold, flag, won>>

\* finally { lock.unlock() }
Unlock(c) ==
  /\ step[c] = "left"
  /\ UnlockGet(c) \/ UnlockDelete(c) \/ (pc[c] \in {"held", "delete"} /\ CallerFault(c))
  /\ UNCHANGED shop

\* Renewal threads, time and killed processes; a renewal that fails.
Background ==
  /\ \/ \E c \in Client : Renewal(c) \/ RenewerFault(c)
     \/ \E j \in Jvm : Crash(j)
     \/ Tick
  /\ UNCHANGED shop

OrderNext ==
  \/ \E c \in Client : \/ Lock(c) \/ Unlock(c)
                       \/ GrabRead(c) \/ GrabWrite(c) \/ GrabInterrupted(c)
  \/ Background

OrderSpec == OrderInit /\ [][OrderNext]_ovars

-----------------------------------------------------------------------------
\* An order is grabbed at most once in a process, although reading the flag
\* and writing it are seconds apart.
OneWinner ==
  \A c, d \in won : HostOf[c] = HostOf[d] => c = d

\* What was read before the sleep is still true after it, and a call that read
\* FALSE has no winner beside it.
NoStaleRead ==
  \A c \in Client :
    pc[c] = "held" /\ step[c] = "read" => flag[c] = sold[HostOf[c]]

\* A call that is not in the lock yet has not started its grab.
NotInsideYet ==
  \A c \in Client :
    pc[c] \in {"idle", "backoff"} \cup Trying => step[c] = "enter"

\* With these facts OneWinner is inductive, given the lock's LeaseInv.
OrderInv ==
  /\ NoStaleRead
  /\ OneWinner
  /\ \A c \in won : sold[HostOf[c]]
  /\ NotInsideYet
=============================================================================

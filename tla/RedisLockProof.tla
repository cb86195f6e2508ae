--------------------------- MODULE RedisLockProof ---------------------------
(***************************************************************************)
(* The lease lock of RedisLock for any number of callers and processes, any *)
(* lease and any lag: the lock is exclusive whenever Prompt holds.          *)
(***************************************************************************)
EXTENDS RedisLock, TLAPS

\* The renewal period is a whole number of seconds within the lease.
LEMMA PeriodIsNat == RenewEvery \in Nat /\ Deadline \in Nat /\ MaxLag \in 0 .. Deadline
  BY TimeAssumption, SMT DEF RenewEvery, Deadline

LEMMA TypeInit == Init => TypeOK
  BY ClientAssumption, TimeAssumption, FaultAssumption, PeriodIsNat
  DEF Init, TypeOK, PC

LEMMA TypeStep == TypeOK /\ [Next]_vars => TypeOK'
<1> SUFFICES ASSUME TypeOK, [Next]_vars PROVE TypeOK'
  OBVIOUS
<1> USE ClientAssumption, TimeAssumption, FaultAssumption, PeriodIsNat
    DEF TypeOK, PC, Trying, Live, Goto
<1>1. ASSUME NEW c \in Client, Request(c) PROVE TypeOK'
  BY <1>1 DEF Request
<1>2. ASSUME NEW c \in Client, Acquire(c) PROVE TypeOK'
  BY <1>2 DEF Acquire
<1>3. ASSUME NEW c \in Client, Refuse(c) PROVE TypeOK'
  BY <1>3 DEF Refuse
<1>4. ASSUME NEW c \in Client, Retry(c) PROVE TypeOK'
  BY <1>4 DEF Retry
<1>5. ASSUME NEW c \in Client, UnlockGet(c) PROVE TypeOK'
  BY <1>5 DEF UnlockGet
<1>6. ASSUME NEW c \in Client, UnlockDelete(c) PROVE TypeOK'
  BY <1>6 DEF UnlockDelete
<1>7. ASSUME NEW c \in Client, RenewGet(c) PROVE TypeOK'
  BY <1>7 DEF RenewGet
<1>8. ASSUME NEW c \in Client, RenewExpire(c) PROVE TypeOK'
  BY <1>8 DEF RenewExpire
<1>9. ASSUME NEW c \in Client, CallerFault(c) PROVE TypeOK'
  BY <1>9 DEF CallerFault
<1>10. ASSUME NEW c \in Client, RenewerFault(c) PROVE TypeOK'
  BY <1>10 DEF RenewerFault
<1>11. ASSUME NEW j \in Jvm, Crash(j) PROVE TypeOK'
  BY <1>11 DEF Crash
<1>12. CASE Tick
  BY <1>12 DEF Tick
<1>13. CASE UNCHANGED vars
  BY <1>13 DEF vars
<1> QED
  BY <1>1, <1>2, <1>3, <1>4, <1>5, <1>6, <1>7, <1>8, <1>9, <1>10, <1>11, <1>12, <1>13
  DEF Next, Caller, Renewal

\* The variables keep to their types, and a key without a lease does not exist.
THEOREM TypeCorrect == Spec => []TypeOK
<1>1. QED
  BY TypeInit, TypeStep, PTL DEF Spec

-----------------------------------------------------------------------------
LEMMA LeaseInit == Init => LeaseInv
  BY ClientAssumption DEF Init, LeaseInv, Holding, Outside, Trying

\* The lease of a holder outlasts its renewal thread over every step.  Other
\* callers' threads only lengthen it; the clock takes one second from the lease
\* and one from the thread's time, and cannot pass a thread that is due.
LEMMA LeaseStep ==
  ASSUME Prompt, TypeOK, TypeOK', LeaseInv, [Next]_vars
  PROVE  LeaseInv'
<1> SUFFICES ASSUME NEW d \in Client
             PROVE  /\ Holding(d)' => Covered(d)'
                    /\ pc'[d] \in Outside => key' # d
  BY DEF LeaseInv
<1> USE ClientAssumption, TimeAssumption, PeriodIsNat
    DEF TypeOK, LeaseInv, Holding, Covered, Outside, Trying, Live, Goto, PC
<1>1. ASSUME NEW c \in Client, Request(c) \/ Refuse(c) \/ Retry(c)
      PROVE  Holding(d)' => Covered(d)'
  BY <1>1 DEF Request, Refuse, Retry
<1>2. ASSUME NEW c \in Client, Request(c) \/ Refuse(c) \/ Retry(c)
      PROVE  pc'[d] \in Outside => key' # d
  BY <1>2 DEF Request, Refuse, Retry
<1>3. ASSUME NEW c \in Client, Acquire(c)
      PROVE  /\ Holding(d)' => Covered(d)'
             /\ pc'[d] \in Outside => key' # d
  <2>1. CASE d = c
    BY <1>3, <2>1 DEF Acquire, Prompt
  <2>2. CASE d # c
    BY <1>3, <2>2 DEF Acquire
  <2> QED BY <2>1, <2>2
<1>4. ASSUME NEW c \in Client, UnlockGet(c)
      PROVE  /\ Holding(d)' => Covered(d)'
             /\ pc'[d] \in Outside => key' # d
  BY <1>4 DEF UnlockGet
<1>5. ASSUME NEW c \in Client, UnlockDelete(c)
      PROVE  /\ Holding(d)' => Covered(d)'
             /\ pc'[d] \in Outside => key' # d
  BY <1>5 DEF UnlockDelete
<1>6. ASSUME NEW c \in Client, RenewGet(c)
      PROVE  /\ Holding(d)' => Covered(d)'
             /\ pc'[d] \in Outside => key' # d
  BY <1>6 DEF RenewGet
<1>7. ASSUME NEW c \in Client, RenewExpire(c)
      PROVE  /\ Holding(d)' => Covered(d)'
             /\ pc'[d] \in Outside => key' # d
  BY <1>7 DEF RenewExpire, Prompt
<1>8. ASSUME NEW c \in Client, CallerFault(c)
      PROVE  /\ Holding(d)' => Covered(d)'
             /\ pc'[d] \in Outside => key' # d
  BY <1>8 DEF CallerFault
<1>9. ASSUME NEW c \in Client, RenewerFault(c)
      PROVE  FALSE
  BY <1>9 DEF RenewerFault, Prompt
<1>10. ASSUME NEW j \in Jvm, Crash(j)
       PROVE  /\ Holding(d)' => Covered(d)'
              /\ pc'[d] \in Outside => key' # d
  BY <1>10 DEF Crash
<1>11. CASE Tick
  <2>1. Holding(d) => ttl > 1
    BY <1>11 DEF Tick
  <2> QED BY <1>11, <2>1 DEF Tick
<1>12. CASE UNCHANGED vars
  BY <1>12 DEF vars
<1> QED
  BY <1>1, <1>2, <1>3, <1>4, <1>5, <1>6, <1>7, <1>8, <1>9, <1>10, <1>11, <1>12
  DEF Next, Caller, Renewal

\* The strengthened invariant holds for every number of callers.
THEOREM LeaseOutlastsRenewal ==
  ASSUME Prompt
  PROVE  Spec => []LeaseInv
<1>1. LeaseInv /\ TypeOK /\ TypeOK' /\ [Next]_vars => LeaseInv'
  BY LeaseStep
<1> QED
  BY <1>1, LeaseInit, TypeCorrect, PTL DEF Spec

\* At most one caller is between lock() and the end of unlock(): two holders
\* would both be the value of the key.
THEOREM Exclusive ==
  ASSUME Prompt
  PROVE  Spec => []MutualExclusion
<1>1. LeaseInv => MutualExclusion
  BY DEF LeaseInv, MutualExclusion, Covered
<1> QED
  BY <1>1, LeaseOutlastsRenewal, PTL

\* unlock() deletes only its caller's key: the caller's renewal keeps the key
\* alive between the GET and the DEL.
THEOREM DeletesOwn ==
  ASSUME Prompt
  PROVE  Spec => DeleteOnlyOwn
<1>1. LeaseInv => \A c \in Client : UnlockDelete(c) => key = c
  BY DEF LeaseInv, UnlockDelete, Covered, Holding
<1> QED
  BY <1>1, LeaseOutlastsRenewal, PTL DEF DeleteOnlyOwn

-----------------------------------------------------------------------------
\* Every step of the lease lock is a step of the abstract lock or invisible.
LEMMA MutexStep ==
  ASSUME TypeOK, LeaseInv, [Next]_vars
  PROVE  [Abstract!Next]_status
<1> USE ClientAssumption
    DEF TypeOK, status, Holding, Trying, Goto, Abstract!Leave
<1>1. ASSUME NEW c \in Client, Request(c)
      PROVE  Abstract!Ask(c)
  BY <1>1 DEF Request, Abstract!Ask
<1>2. ASSUME NEW c \in Client, Acquire(c)
      PROVE  Abstract!Enter(c)
  <2>1. \A d \in Client : ~Holding(d)
    BY <1>2 DEF Acquire, LeaseInv, Covered
  <2> QED BY <1>2, <2>1 DEF Acquire, Abstract!Enter
<1>3. ASSUME NEW c \in Client, Refuse(c) \/ UnlockGet(c) \/ UnlockDelete(c) \/ CallerFault(c)
      PROVE  Abstract!Leave({c}) \/ UNCHANGED status
  <2>1. CASE Refuse(c)
    BY <2>1 DEF Refuse
  <2>2. CASE UnlockGet(c)
    BY <2>2 DEF UnlockGet, LeaseInv, Outside
  <2>3. CASE UnlockDelete(c)
    BY <2>3 DEF UnlockDelete
  <2>4. CASE CallerFault(c)
    BY <2>4 DEF CallerFault
  <2> QED BY <1>3, <2>1, <2>2, <2>3, <2>4
<1>4. ASSUME NEW c \in Client, Retry(c) \/ Renewal(c) \/ RenewerFault(c)
      PROVE  UNCHANGED status
  BY <1>4 DEF Retry, Renewal, RenewGet, RenewExpire, RenewerFault
<1>5. ASSUME NEW j \in Jvm, Crash(j)
      PROVE  Abstract!Leave({c \in Client : HostOf[c] = j})
  BY <1>5 DEF Crash
<1>6. CASE Tick \/ UNCHANGED vars
  BY <1>6 DEF Tick, vars
<1> HIDE DEF TypeOK, status, Abstract!Leave
<1>7. ASSUME NEW S \in SUBSET Client, Abstract!Leave(S)
      PROVE  Abstract!Next
  BY <1>7 DEF Abstract!Next
<1> QED
  BY <1>1, <1>2, <1>3, <1>4, <1>5, <1>6, <1>7 DEF Next, Caller, Abstract!Next

\* The lease lock implements the lock that the Lock interface promises.
THEOREM Implements ==
  ASSUME Prompt
  PROVE  Spec => ImplementsMutex
<1>1. Init => Abstract!Init
  BY DEF Init, Abstract!Init, status, Holding, Trying
<1>2. TypeOK /\ LeaseInv /\ [Next]_vars => [Abstract!Next]_status
  BY MutexStep
<1> QED
  BY <1>1, <1>2, TypeCorrect, LeaseOutlastsRenewal, PTL
  DEF Spec, ImplementsMutex, Abstract!Spec
=============================================================================

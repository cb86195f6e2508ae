-------------------------- MODULE OrderServiceProof --------------------------
(***************************************************************************)
(* An order is grabbed once per process, for any number of calls: what the  *)
(* lease lock proves about itself carries over to the service that uses it. *)
(***************************************************************************)
EXTENDS OrderService, RedisLockProof

LEMMA OrderTypeInit == OrderInit => OrderTypeOK
  BY TypeInit DEF OrderInit, OrderTypeOK

\* Every step of the service is a step of the lock, or leaves the lock alone.
LEMMA OrderStepIsLockStep == [OrderNext]_ovars => [Next]_vars
  BY DEF OrderNext, ovars, Lock, Unlock, GrabRead, GrabWrite, GrabInterrupted,
         Background, Next, Caller

LEMMA OrderImplementsLock == OrderSpec => Spec
<1>1. OrderInit => Init
  BY DEF OrderInit
<1> QED
  BY <1>1, OrderStepIsLockStep, PTL DEF OrderSpec, Spec

LEMMA OrderTypeStep == OrderTypeOK /\ [OrderNext]_ovars => OrderTypeOK'
<1> SUFFICES ASSUME OrderTypeOK, [OrderNext]_ovars PROVE OrderTypeOK'
  OBVIOUS
<1>1. TypeOK'
  BY TypeStep, OrderStepIsLockStep DEF OrderTypeOK
<1>2. CASE UNCHANGED shop
  BY <1>1, <1>2 DEF OrderTypeOK, shop
<1>3. ASSUME NEW c \in Client, GrabRead(c) \/ GrabWrite(c) \/ GrabInterrupted(c)
      PROVE  OrderTypeOK'
  BY <1>1, <1>3, ClientAssumption
  DEF OrderTypeOK, GrabRead, GrabWrite, GrabInterrupted
<1> QED
  BY <1>2, <1>3 DEF OrderNext, ovars, Lock, Unlock, Background

\* Only calls inside the lock touch the map, and the lock admits one of them.
LEMMA OrderInvStep ==
  ASSUME OrderTypeOK, OrderTypeOK', LeaseInv, OrderInv, [OrderNext]_ovars
  PROVE  OrderInv'
<1> USE ClientAssumption DEF OrderTypeOK, OrderInv, NoStaleRead, OneWinner, NotInsideYet, Trying
<1>1. \A c, d \in Client : pc[c] = "held" /\ pc[d] = "held" => c = d
  BY DEF LeaseInv, Holding, Covered
<1>2. ASSUME NEW c \in Client, GrabRead(c)
      PROVE  OrderInv'
  BY <1>2 DEF GrabRead, vars
<1>3. ASSUME NEW c \in Client, GrabWrite(c)
      PROVE  OrderInv'
  <2>1. CASE flag[c]
    BY <1>3, <2>1 DEF GrabWrite, vars
  <2>2. CASE ~flag[c]
    <3>1. NoStaleRead'
      BY <1>1, <1>3, <2>2 DEF GrabWrite, vars
    <3>2. ~sold[HostOf[c]]
      BY <1>3, <2>2 DEF GrabWrite
    <3>3. OneWinner'
      BY <1>3, <2>2, <3>2 DEF GrabWrite
    <3>4. (\A d \in won : sold[HostOf[d]])'
      BY <1>3, <2>2 DEF GrabWrite
    <3>5. NotInsideYet'
      BY <1>3 DEF GrabWrite, vars
    <3> QED BY <3>1, <3>3, <3>4, <3>5
  <2> QED BY <2>1, <2>2
<1>4. ASSUME NEW c \in Client, GrabInterrupted(c)
      PROVE  OrderInv'
  BY <1>4 DEF GrabInterrupted, vars
<1>5. ASSUME UNCHANGED shop,
             \A c \in Client : pc'[c] = "held" => pc[c] = "held" \/ step[c] = "enter",
             \A c \in Client : pc'[c] \in {"idle", "backoff"} \cup Trying => step[c] = "enter"
      PROVE  OrderInv'
  BY <1>5 DEF shop
<1>6. ASSUME NEW c \in Client, Lock(c) \/ Unlock(c)
      PROVE  OrderInv'
  <2>1. /\ \A d \in Client : pc'[d] = "held" => pc[d] = "held" \/ step[d] = "enter"
        /\ \A d \in Client : pc'[d] \in {"idle", "backoff"} \cup Trying => step[d] = "enter"
    BY <1>6 DEF TypeOK, Goto, Lock, Unlock, Request, Acquire, Refuse, Retry,
                UnlockGet, UnlockDelete, CallerFault, Trying
  <2> QED BY <1>5, <1>6, <2>1 DEF Lock, Unlock
<1>7. CASE Background
  <2>1. \A d \in Client : pc'[d] # pc[d] => pc'[d] = "crashed"
    BY <1>7 DEF TypeOK, Background, Renewal, RenewGet, RenewExpire, RenewerFault,
                Crash, Tick
  <2> QED BY <1>5, <1>7, <2>1 DEF Background, Trying
<1>8. CASE UNCHANGED ovars
  BY <1>5, <1>8 DEF ovars, vars
<1> QED
  BY <1>2, <1>3, <1>4, <1>6, <1>7, <1>8 DEF OrderNext

LEMMA OrderInvariant ==
  ASSUME Prompt
  PROVE  OrderSpec => []OrderInv
<1>1. OrderInit => OrderInv
  BY DEF OrderInit, OrderInv, OneWinner, NoStaleRead, NotInsideYet, Init
<1>2. OrderTypeOK /\ OrderTypeOK' /\ LeaseInv /\ OrderInv /\ [OrderNext]_ovars => OrderInv'
  BY OrderInvStep
<1> QED
  BY <1>1, <1>2, OrderTypeInit, OrderTypeStep, OrderImplementsLock,
     LeaseOutlastsRenewal, PTL DEF OrderSpec

\* The variables of the service and of its lock keep to their types.
THEOREM OrderTypeCorrect == OrderSpec => []OrderTypeOK
  BY OrderTypeInit, OrderTypeStep, PTL DEF OrderSpec

\* No order is grabbed twice in one process, however long the call sleeps
\* between reading the flag and writing it.
THEOREM GrabbedOnce ==
  ASSUME Prompt
  PROVE  OrderSpec => []OneWinner
<1>1. OrderInv => OneWinner
  BY DEF OrderInv
<1> QED
  BY <1>1, OrderInvariant, PTL

\* The flag a caller read before the sleep is still what the map says when the
\* caller decides by it, whatever other callers and processes do meanwhile.
THEOREM FlagStaysFresh ==
  ASSUME Prompt
  PROVE  OrderSpec => []NoStaleRead
<1>1. OrderInv => NoStaleRead
  BY DEF OrderInv
<1> QED
  BY <1>1, OrderInvariant, PTL
=============================================================================

-------------------------- MODULE MqttClientProof ---------------------------
(***************************************************************************)
(* The key of MqttClient, for any number of connections and of failures.    *)
(***************************************************************************)
EXTENDS MqttClient, FiniteSetTheorems, TLAPS

\* Types, with the time a callback has to start, the executors the field may hold and
\* where connectServer() knows that there is no connection.
TypeInv ==
  /\ TypeOK
  /\ \A i \in Conn : timer["complete"][i] <= MaxLag /\ timer["lost"][i] <= MaxLag
  /\ current # 0 => pool[current] # "none"
  /\ pc \in {"get", "connect"} => ~up

LEMMA Seconds ==
  /\ MaxConns \in Nat \ {0} /\ MaxLag \in Nat /\ MaxFaults \in Nat
  /\ RenewWithin \in Nat /\ MaxLag \in 0 .. RenewWithin
  /\ FirstRenewal + MaxLag \in 0 .. RenewWithin /\ 0 \in 0 .. RenewWithin
  /\ "complete" \in Job /\ "lost" \in Job /\ "pool" \in Job
  BY MqttAssumption DEF RenewWithin, RenewDelay, FirstRenewal, Job

\* One timer is set.
LEMMA TimerSet ==
  ASSUME timer \in [Job -> [Conn -> 0 .. RenewWithin]],
         NEW j \in Job, NEW i \in Conn, NEW n \in 0 .. RenewWithin,
         timer' = [timer EXCEPT ![j][i] = n]
  PROVE  /\ timer' \in [Job -> [Conn -> 0 .. RenewWithin]]
         /\ timer'[j][i] = n
         /\ \A k \in Job, l \in Conn : k # j \/ l # i => timer'[k][l] = timer[k][l]
<1>1. timer' = [timer EXCEPT ![j] = [timer[j] EXCEPT ![i] = n]]
  OBVIOUS
<1>2. [timer[j] EXCEPT ![i] = n] \in [Conn -> 0 .. RenewWithin]
  OBVIOUS
<1> HIDE DEF RenewWithin
<1>3. /\ timer' \in [Job -> [Conn -> 0 .. RenewWithin]]
      /\ timer'[j] = [timer[j] EXCEPT ![i] = n]
      /\ \A k \in Job : k # j => timer'[k] = timer[k]
  BY <1>1, <1>2
<1> QED BY <1>3

LEMMA TypeInit == Init => TypeInv
<1> SUFFICES ASSUME Init PROVE TypeInv
  OBVIOUS
<1>1. /\ timer \in [Job -> [Conn -> 0 .. RenewWithin]]
      /\ \A i \in Conn : timer["complete"][i] = 0 /\ timer["lost"][i] = 0
  BY Seconds DEF Init
<1>2. \A i \in Conn : i > 0
  BY DEF Conn
<1>3. /\ complete \in [Conn -> {"none", "due", "subscribe", "done"}]
      /\ lost \in [Conn -> {"none", "due", "deleted", "done"}]
      /\ pool \in [Conn -> PoolState]
      /\ current = 0 /\ conns = 0
  BY DEF Init, PoolState
<1>4. /\ up = FALSE /\ registered = FALSE /\ subscribed = FALSE /\ ttl = 0 /\ faults = 0
      /\ pc = "get" /\ delay = 0 /\ run = "init"
  BY DEF Init
<1>5. \A i \in Conn : complete[i] = "none" /\ lost[i] = "none" /\ pool[i] = "none"
  BY DEF Init
<1>6. \A i \in Conn : /\ complete[i] # "none" <=> i <= conns
                      /\ lost[i] # "none" <=> i < conns \/ (i = conns /\ ~up)
                      /\ pool[i] # "none" <=> complete[i] \in {"subscribe", "done"}
  BY <1>2, <1>3, <1>5, Seconds DEF Conn
<1>7. /\ ttl \in 0 .. Expire /\ delay \in 0 .. Period
      /\ conns \in 0 .. MaxConns /\ current \in 0 .. MaxConns /\ faults \in 0 .. MaxFaults
  BY <1>3, <1>4, Seconds DEF Expire, Period
<1>8. TypeOK
  BY <1>1, <1>3, <1>4, <1>6, <1>7 DEF TypeOK
<1> QED BY <1>1, <1>3, <1>4, <1>8, Seconds DEF TypeInv

\* The return of connectServer(), to sleep or to the end.
LEMMA MainType ==
  ASSUME TypeInv, Sleep \/ Throw
  PROVE  /\ pc' \in {"asleep", "stopped"}
         /\ delay' \in 0 .. Period
         /\ run' \in {"init", "first", "later"}
  BY DEF TypeInv, TypeOK, Sleep, Throw, Period

LEMMA TypeStep == TypeInv /\ [Next]_vars => TypeInv'
<1> SUFFICES ASSUME TypeInv, [Next]_vars PROVE TypeInv'
  OBVIOUS
<1> USE Seconds
\* Only connectServer(), time or Redis moves.
<1>1. ASSUME UNCHANGED <<up, conns, subscribed, back, timer>>, registered' \in BOOLEAN, ttl' \in 0 .. Expire,
             faults' \in 0 .. MaxFaults,
             pc' \in {"asleep", "get", "connect", "register", "stopped"},
             delay' \in 0 .. Period, run' \in {"init", "first", "later"},
             pc' \in {"get", "connect"} => ~up
      PROVE  TypeInv'
  BY <1>1 DEF TypeInv, TypeOK, back
<1>2. CASE Wake \/ Get \/ Register \/ CallFails
  <2>1. /\ UNCHANGED <<up, conns, subscribed, back, timer>>
        /\ registered' \in BOOLEAN /\ ttl' \in 0 .. Expire /\ faults' \in 0 .. MaxFaults
    BY <1>2 DEF Wake, Get, Register, CallFails, SetKey, TypeInv, TypeOK, link, Expire
  <2>2. Sleep \/ Throw \/ (pc' \in {"get", "connect"} /\ UNCHANGED <<delay, run>>)
    BY <1>2 DEF Wake, Get, Register, CallFails
  <2>3. /\ pc' \in {"asleep", "get", "connect", "register", "stopped"}
        /\ delay' \in 0 .. Period /\ run' \in {"init", "first", "later"}
    BY <2>2, MainType DEF TypeInv, TypeOK
  <2>4. pc' \in {"get", "connect"} => ~up
    <3>1. CASE Sleep \/ Throw
      BY <3>1, MainType
    <3>2. CASE pc' \in {"get", "connect"} /\ ~(Sleep \/ Throw)
      BY <1>2, <3>2 DEF Wake, Get, Register, CallFails, TypeInv
    <3> QED BY <2>2, <3>1, <3>2
  <2> QED BY <1>1, <2>1, <2>3, <2>4
<1>3. CASE Connect
  <2>0. conns + 1 \in Conn /\ conns \in Nat
    BY <1>3 DEF Connect, TypeInv, TypeOK, Conn
  <2>1. timer' = [timer EXCEPT !["complete"][conns + 1] = MaxLag]
    BY <1>3 DEF Connect
  <2>2. /\ timer' \in [Job -> [Conn -> 0 .. RenewWithin]]
        /\ \A i \in Conn : timer'["complete"][i] <= MaxLag /\ timer'["lost"][i] <= MaxLag
    BY <2>0, <2>1, TimerSet DEF TypeInv, TypeOK
  <2>3. /\ complete' \in [Conn -> {"none", "due", "subscribe", "done"}]
        /\ \A i \in Conn : complete'[i] = IF i = conns + 1 THEN "due" ELSE complete[i]
    BY <1>3 DEF Connect, TypeInv, TypeOK
  <2>4. \A i \in Conn : /\ complete'[i] # "none" <=> i <= conns'
                        /\ lost[i] # "none" <=> i < conns' \/ (i = conns' /\ ~up')
                        /\ pool[i] # "none" <=> complete'[i] \in {"subscribe", "done"}
    <3> SUFFICES ASSUME NEW i \in Conn
                 PROVE  /\ complete'[i] # "none" <=> i <= conns'
                        /\ lost[i] # "none" <=> i < conns' \/ (i = conns' /\ ~up')
                        /\ pool[i] # "none" <=> complete'[i] \in {"subscribe", "done"}
      OBVIOUS
    <3>1. i \in Nat /\ ~up /\ up' /\ conns' = conns + 1
      BY <1>3, <2>0 DEF Connect, Conn, TypeInv
    <3> QED BY <2>0, <2>3, <3>1 DEF TypeInv, TypeOK
  <2>5. /\ UNCHANGED <<ttl, delay, run, lost, pool, current, faults>> /\ pc' = "register"
        /\ up' = TRUE /\ registered' = FALSE /\ subscribed' = FALSE /\ conns' \in 0 .. MaxConns
    BY <1>3, <2>0 DEF Connect, Conn
  <2> QED BY <2>2, <2>3, <2>4, <2>5 DEF TypeInv, TypeOK
<1>4. CASE Drop
  <2>1. conns \in Conn \/ conns = 0
    BY DEF TypeInv, TypeOK, Conn
  <2>2. /\ timer' \in [Job -> [Conn -> 0 .. RenewWithin]]
        /\ \A i \in Conn : timer'["complete"][i] <= MaxLag /\ timer'["lost"][i] <= MaxLag
    <3>1. CASE conns \in Conn
      <4>1. timer' = [timer EXCEPT !["lost"][conns] = MaxLag]
        BY <1>4 DEF Drop
      <4> QED BY <3>1, <4>1, TimerSet DEF TypeInv, TypeOK
    <3>2. CASE conns = 0
      <4>1. timer' = timer
        BY <1>4, <3>2 DEF Drop, TypeInv, TypeOK, Conn
      <4> QED BY <4>1 DEF TypeInv, TypeOK
    <3> QED BY <2>1, <3>1, <3>2
  <2> QED BY <1>4, <2>2 DEF Drop, TypeInv, TypeOK, main, Conn
<1>5. ASSUME NEW i \in Conn, Renew(i) PROVE TypeInv'
  <2>1. timer' = [timer EXCEPT !["complete"] = [timer["complete"] EXCEPT ![i] = 0],
                               !["pool"] = [timer["pool"] EXCEPT ![i] = FirstRenewal + MaxLag]]
    BY <1>5 DEF Renew, Job
  <2>2. /\ [timer["complete"] EXCEPT ![i] = 0] \in [Conn -> 0 .. RenewWithin]
        /\ [timer["pool"] EXCEPT ![i] = FirstRenewal + MaxLag] \in [Conn -> 0 .. RenewWithin]
    BY DEF TypeInv, TypeOK, Job
  <2>3. /\ timer' \in [Job -> [Conn -> 0 .. RenewWithin]]
        /\ timer'["complete"] = [timer["complete"] EXCEPT ![i] = 0]
        /\ timer'["lost"] = timer["lost"]
    BY <2>1, <2>2 DEF TypeInv, TypeOK, Job
  <2>4. \A l \in Conn : timer'["complete"][l] <= MaxLag /\ timer'["lost"][l] <= MaxLag
    BY <2>3 DEF TypeInv, TypeOK, Job
  <2>5. /\ complete' \in [Conn -> {"none", "due", "subscribe", "done"}] /\ pool' \in [Conn -> PoolState]
        /\ \A l \in Conn : complete'[l] # "none" <=> complete[l] # "none"
        /\ \A l \in Conn : pool'[l] # "none" <=> complete'[l] \in {"subscribe", "done"}
    <3>1. complete \in [Conn -> {"none", "due", "subscribe", "done"}] /\ pool \in [Conn -> PoolState]
      BY DEF TypeInv, TypeOK
    <3>2. /\ complete' = [complete EXCEPT ![i] = "subscribe"] /\ pool' = [pool EXCEPT ![i] = "idle"]
          /\ complete[i] = "due"
      BY <1>5 DEF Renew
    <3>3. \A l \in Conn : pool[l] # "none" <=> complete[l] \in {"subscribe", "done"}
      BY DEF TypeInv, TypeOK
    <3>4. /\ complete' \in [Conn -> {"none", "due", "subscribe", "done"}] /\ pool' \in [Conn -> PoolState]
      BY <3>1, <3>2 DEF PoolState
    <3>5. ASSUME NEW l \in Conn PROVE complete'[l] # "none" <=> complete[l] # "none"
      BY <3>1, <3>2
    <3>6. ASSUME NEW l \in Conn PROVE pool'[l] # "none" <=> complete'[l] \in {"subscribe", "done"}
      <4>1. CASE l = i
        BY <3>1, <3>2, <4>1
      <4>2. CASE l # i
        BY <3>1, <3>2, <3>3, <4>2
      <4> QED BY <4>1, <4>2
    <3> QED BY <3>4, <3>5, <3>6
  <2>6. UNCHANGED <<link, ttl, main, lost, faults>> /\ current' = i /\ pool'[i] # "none" /\ i \in 0 .. MaxConns
    BY <1>5 DEF Renew, TypeInv, TypeOK, Conn
  <2> QED BY <2>3, <2>4, <2>5, <2>6 DEF TypeInv, TypeOK, link, main
<1>6. ASSUME NEW i \in Conn, Subscribe(i) PROVE TypeInv'
  BY <1>6 DEF Subscribe, TypeInv, TypeOK, main
<1>7. ASSUME NEW i \in Conn, Delete(i) PROVE TypeInv'
  <2>1. timer' = [timer EXCEPT !["lost"][i] = 0]
    BY <1>7 DEF Delete
  <2>2. /\ timer' \in [Job -> [Conn -> 0 .. RenewWithin]]
        /\ \A l \in Conn : timer'["complete"][l] <= MaxLag /\ timer'["lost"][l] <= MaxLag
    BY <2>1, TimerSet DEF TypeInv, TypeOK
  <2> QED BY <1>7, <2>2 DEF Delete, TypeInv, TypeOK, link, main, Expire
<1>8. ASSUME NEW i \in Conn, Shutdown(i) PROVE TypeInv'
  <2>1. CASE current = 0
    BY <1>8, <2>1 DEF Shutdown, TypeInv, TypeOK, link, main
  <2>2. CASE current # 0
    <3>1. current \in Conn /\ pool[current] # "none"
      BY <2>2 DEF TypeInv, TypeOK, Conn
    <3>2. timer["pool"][current] \in 0 .. RenewWithin
      BY <3>1 DEF TypeInv, TypeOK
    <3>3. \E n \in 0 .. RenewWithin : timer' = [timer EXCEPT !["pool"][current] = n]
      BY <1>8, <2>2, <3>2 DEF Shutdown
    <3>4. /\ timer' \in [Job -> [Conn -> 0 .. RenewWithin]]
          /\ \A l \in Conn : timer'["complete"][l] <= MaxLag /\ timer'["lost"][l] <= MaxLag
      BY <3>1, <3>3, TimerSet DEF TypeInv, TypeOK
    <3>5. /\ pool' \in [Conn -> PoolState] /\ \A l \in Conn : pool'[l] = "none" <=> pool[l] = "none"
      BY <1>8, <2>2, <3>1 DEF Shutdown, TypeInv, TypeOK, PoolState
    <3> QED BY <1>8, <3>1, <3>4, <3>5 DEF Shutdown, TypeInv, TypeOK, link, main
  <2> QED BY <2>1, <2>2
<1>9. ASSUME NEW i \in Conn, RenewCheck(i) \/ RenewExpire(i) \/ RenewFails(i) PROVE TypeInv'
  <2>0. pool[i] # "none"
    BY <1>9 DEF RenewCheck, RenewExpire, RenewFails
  <2>1. UNCHANGED timer \/ \E n \in {0, RenewWithin} : timer' = [timer EXCEPT !["pool"][i] = n]
    BY <1>9 DEF RenewCheck, RenewExpire, RenewFails, Rest
  <2>2. /\ timer' \in [Job -> [Conn -> 0 .. RenewWithin]]
        /\ \A l \in Conn : timer'["complete"][l] <= MaxLag /\ timer'["lost"][l] <= MaxLag
    BY <2>1, TimerSet DEF TypeInv, TypeOK
  <2>3. /\ pool' \in [Conn -> PoolState] /\ \A l \in Conn : pool'[l] = "none" <=> pool[l] = "none"
    BY <1>9, <2>0 DEF RenewCheck, RenewExpire, RenewFails, Rest, TypeInv, TypeOK, PoolState
  <2>4. /\ UNCHANGED <<link, main, complete, lost, current>>
        /\ ttl' \in 0 .. Expire /\ faults' \in 0 .. MaxFaults
    BY <1>9 DEF RenewCheck, RenewExpire, RenewFails, TypeInv, TypeOK, Expire
  <2>5. /\ UNCHANGED <<up, conns, registered, subscribed, pc, delay, run, complete, lost, current>>
        /\ current # 0 => pool'[current] # "none"
    <3>1. current # 0 => current \in Conn /\ pool[current] # "none"
      BY DEF TypeInv, TypeOK, Conn
    <3> QED BY <2>3, <2>4, <3>1 DEF link, main
  <2>6. \A l \in Conn : pool'[l] # "none" <=> complete'[l] \in {"subscribe", "done"}
    BY <2>3, <2>5 DEF TypeInv, TypeOK
  <2> QED BY <2>2, <2>3, <2>4, <2>5, <2>6 DEF TypeInv, TypeOK
<1>10. CASE Tick
  <2>1. /\ timer' \in [Job -> [Conn -> 0 .. RenewWithin]]
        /\ \A j \in Job, l \in Conn : timer'[j][l] <= timer[j][l]
    <3>1. \A j \in Job, l \in Conn :
            /\ timer[j][l] \in 0 .. RenewWithin
            /\ timer'[j][l] = IF Ticking(j, l) THEN timer[j][l] - 1 ELSE timer[j][l]
            /\ Ticking(j, l) => timer[j][l] > 0
      BY <1>10 DEF Tick, TypeInv, TypeOK
    <3>2. \A j \in Job, l \in Conn : timer'[j][l] \in 0 .. RenewWithin /\ timer'[j][l] <= timer[j][l]
      BY <3>1
    <3>3. timer' = [j \in Job |-> [l \in Conn |-> timer'[j][l]]]
      BY <1>10 DEF Tick
    <3> QED BY <3>2, <3>3
  <2>2. \A l \in Conn : timer'["complete"][l] <= MaxLag /\ timer'["lost"][l] <= MaxLag
    <3> SUFFICES ASSUME NEW l \in Conn
                 PROVE  timer'["complete"][l] <= MaxLag /\ timer'["lost"][l] <= MaxLag
      OBVIOUS
    <3>1. /\ timer["complete"][l] \in Nat /\ timer["lost"][l] \in Nat
          /\ timer'["complete"][l] \in Nat /\ timer'["lost"][l] \in Nat
      BY <2>1 DEF TypeInv, TypeOK
    <3> QED BY <2>1, <3>1 DEF TypeInv
  <2>3. ttl' \in 0 .. Expire /\ delay' \in 0 .. Period
    BY <1>10 DEF Tick, TypeInv, TypeOK, Expire, Period
  <2> QED BY <1>10, <2>1, <2>2, <2>3 DEF Tick, TypeInv, TypeOK, link, back
<1>11. CASE UNCHANGED vars
  BY <1>11 DEF vars, link, main, back, TypeInv, TypeOK
<1> QED
  BY <1>2, <1>3, <1>4, <1>5, <1>6, <1>7, <1>8, <1>9, <1>10, <1>11
  DEF Next, ConnectServer, Callback, Renewal

\* The variables keep to their types, and callbacks and executors belong to
\* connections that were made.
THEOREM TypeCorrect == Spec => []TypeOK
<1>1. TypeInv => TypeOK
  BY DEF TypeInv
<1> QED BY <1>1, TypeInit, TypeStep, PTL DEF Spec

-----------------------------------------------------------------------------
\* An executor renews, or is about to be made; one has been stopped, or is about to.
Alive(i) == pool[i] \in {"idle", "checked"}
Stopped  == {i \in Conn : pool[i] \in {"last", "shut"}}
Finished == {i \in Conn : lost[i] = "done"}

\* How long the key lasts after the next renewal is due at the latest.
Margin == Expire - RenewDelay - MaxLag

\* What holds while no call has failed.
Registered == up => registered \/ pc = "register"
NoneDead   == \A i \in Conn : pool[i] # "dead"
Renewed    ==
  up /\ registered => \A i \in Conn :
    /\ Alive(i) => ttl >= timer["pool"][i] + Margin
    /\ complete[i] = "due" => ttl >= timer["complete"][i] + FirstRenewal + MaxLag + Margin
    /\ lost[i] # "due"
\* A DEL comes before the key can be found gone.
DeletedFirst ==
  \A i \in Conn : lost[i] = "due" =>
    /\ ttl > timer["lost"][i] \/ (pc = "register" /\ ~up)
    /\ \A j \in Conn : lost[j] = "due" => i = j

KeyInv ==
  /\ TypeInv
  /\ Cardinality(Stopped) <= Cardinality(Finished)
  /\ pc \in {"connect", "register"} => ttl = 0
  /\ up => conns > 0
  /\ faults = 0 => Registered /\ NoneDead /\ Renewed /\ DeletedFirst

LEMMA Clock ==
  ASSUME TypeInv
  PROVE  /\ ttl \in 0 .. 9 /\ conns \in 0 .. MaxConns /\ faults \in Nat
         /\ \A i \in Conn : /\ timer["pool"][i] \in 0 .. 6 + MaxLag
                            /\ timer["complete"][i] \in 0 .. MaxLag
                            /\ timer["lost"][i] \in 0 .. MaxLag
<1>1. /\ ttl \in 0 .. 9 /\ conns \in 0 .. MaxConns /\ faults \in Nat
  BY Seconds DEF TypeInv, TypeOK, Expire
<1>2. ASSUME NEW i \in Conn
      PROVE  /\ timer["pool"][i] \in 0 .. RenewWithin
             /\ timer["complete"][i] \in 0 .. RenewWithin
             /\ timer["lost"][i] \in 0 .. RenewWithin
  BY Seconds DEF TypeInv, TypeOK
<1> QED BY <1>1, <1>2, Seconds DEF TypeInv, RenewWithin, RenewDelay

LEMMA FewStopped ==
  /\ IsFiniteSet(Conn) /\ IsFiniteSet(Stopped) /\ IsFiniteSet(Finished)
  /\ Cardinality(Stopped) \in Nat /\ Cardinality(Finished) \in Nat
<1>1. IsFiniteSet(Conn)
  BY Seconds, FS_Interval DEF Conn
<1>2. Stopped \subseteq Conn /\ Finished \subseteq Conn
  BY DEF Stopped, Finished
<1> QED BY <1>1, <1>2, FS_Subset, FS_CardinalityType

\* Fewer executors have been stopped than connections were made, so one renews the
\* key of a connection that is up, or will.
LEMMA SomebodyRenews ==
  ASSUME KeyInv, up, NoneDead
  PROVE  \E i \in Conn : Alive(i) \/ complete[i] = "due"
<1> SUFFICES ASSUME \A i \in Conn : ~Alive(i) /\ complete[i] # "due" PROVE FALSE
  OBVIOUS
<1>1. conns \in Nat \ {0} /\ conns <= MaxConns /\ 1 .. conns \subseteq Conn
  BY Clock, Seconds DEF KeyInv, Conn
<1>2. 1 .. conns \subseteq Stopped
  <2> SUFFICES ASSUME NEW i \in 1 .. conns PROVE i \in Stopped
    OBVIOUS
  <2>1. i \in Conn /\ i <= conns
    BY <1>1
  <2>2. pool[i] \in PoolState /\ complete[i] \in {"none", "due", "subscribe", "done"}
    BY <2>1 DEF KeyInv, TypeInv, TypeOK
  <2>3. complete[i] # "none" /\ (pool[i] # "none" <=> complete[i] \in {"subscribe", "done"})
    BY <2>1 DEF KeyInv, TypeInv, TypeOK
  <2> QED BY <2>1, <2>2, <2>3 DEF Stopped, Alive, NoneDead, PoolState
<1>3. Finished \subseteq 1 .. conns - 1
  <2> SUFFICES ASSUME NEW i \in Finished PROVE i \in 1 .. conns - 1
    OBVIOUS
  <2>1. i \in Conn /\ lost[i] # "none"
    BY DEF Finished
  <2>2. i < conns
    BY <2>1 DEF KeyInv, TypeInv, TypeOK
  <2> QED BY <2>1, <2>2, <1>1 DEF Conn
<1>4. conns <= Cardinality(Stopped)
  <2>1. Cardinality(1 .. conns) = conns
    BY <1>1, FS_Interval
  <2> QED BY <1>2, <2>1, FewStopped, FS_Subset
<1>5. Cardinality(Finished) <= conns - 1
  <2>1. IsFiniteSet(1 .. conns - 1) /\ Cardinality(1 .. conns - 1) = conns - 1
    <3>1. /\ conns - 1 \in Int /\ 1 \in Int
          /\ (IF 1 > conns - 1 THEN 0 ELSE (conns - 1) - 1 + 1) = conns - 1
      BY <1>1
    <3> QED BY <3>1, FS_Interval
  <2> QED BY <1>3, <2>1, FS_Subset
<1> QED BY <1>1, <1>4, <1>5, FewStopped DEF KeyInv

LEMMA KeyKept ==
  ASSUME KeyInv, up, registered, faults = 0
  PROVE  ttl >= 3 - MaxLag
<1>1. PICK i \in Conn : Alive(i) \/ complete[i] = "due"
  BY SomebodyRenews DEF KeyInv
<1>2. /\ Alive(i) => ttl >= timer["pool"][i] + Margin
      /\ complete[i] = "due" => ttl >= timer["complete"][i] + FirstRenewal + MaxLag + Margin
  BY DEF KeyInv, Renewed
<1> QED BY <1>1, <1>2, Clock, Seconds DEF Margin, Expire, RenewDelay, FirstRenewal, KeyInv

\* No DEL is due while the client is connected.
LEMMA NoDeleteWhileUp ==
  ASSUME KeyInv, up, faults = 0, NEW i \in Conn
  PROVE  lost[i] # "due"
<1>1. CASE registered
  BY <1>1 DEF KeyInv, Renewed
<1>2. CASE pc = "register"
  <2>1. ttl = 0
    BY <1>2 DEF KeyInv
  <2>2. lost[i] = "due" => ttl > timer["lost"][i]
    BY DEF KeyInv, DeletedFirst
  <2> QED BY <2>1, <2>2, Clock DEF KeyInv
<1> QED BY <1>1, <1>2 DEF KeyInv, Registered

-----------------------------------------------------------------------------
\* The four other parts of the invariant, one lemma each.
LEMMA KeyInit == Init => KeyInv
<1> SUFFICES ASSUME Init PROVE KeyInv
  OBVIOUS
<1>1. TypeInv
  BY TypeInit
<1>2. Stopped = {} /\ Finished = {}
  BY DEF Init, Stopped, Finished
<1> QED BY <1>1, <1>2, FS_EmptySet
        DEF Init, KeyInv, Registered, NoneDead, Renewed, DeletedFirst

LEMMA StoppedStep ==
  ASSUME KeyInv, [Next]_vars
  PROVE  (Cardinality(Stopped) <= Cardinality(Finished))'
<1> USE DEF KeyInv, TypeInv, TypeOK
<1>1. ASSUME Stopped' \subseteq Stopped, Finished \subseteq Finished'
      PROVE  (Cardinality(Stopped) <= Cardinality(Finished))'
  <2>1. Finished' \subseteq Conn /\ Stopped' \subseteq Conn
    BY DEF Finished, Stopped
  <2>2. IsFiniteSet(Finished') /\ IsFiniteSet(Stopped')
    BY <2>1, FewStopped, FS_Subset
  <2>3. Cardinality(Stopped') <= Cardinality(Stopped) /\ Cardinality(Finished) <= Cardinality(Finished')
    BY <1>1, <2>2, FewStopped, FS_Subset
  <2>4. Cardinality(Stopped') \in Nat /\ Cardinality(Finished') \in Nat
    BY <2>2, FS_CardinalityType
  <2>5. Cardinality(Stopped') <= Cardinality(Finished')
    BY <2>3, <2>4, FewStopped
  <2> QED BY <2>5
<1>2. CASE ConnectServer \/ CallFails \/ Tick \/ UNCHANGED vars
  <2>1. UNCHANGED <<pool, lost>>
    BY <1>2 DEF ConnectServer, Wake, Get, Connect, Register, CallFails, Tick, vars, back
  <2> QED BY <1>1, <2>1 DEF Stopped, Finished
<1>3. CASE Drop
  <2>1. pool' = pool /\ lost' = [lost EXCEPT ![conns] = "due"] /\ up
    BY <1>3 DEF Drop
  <2>2. conns \in Conn => lost[conns] = "none"
    BY <2>1, Clock DEF Conn
  <2>3. \A i \in Conn : lost[i] = "done" => lost'[i] = "done"
    BY <2>1, <2>2
  <2> QED BY <1>1, <2>1, <2>3 DEF Stopped, Finished
<1>4. ASSUME NEW i \in Conn, Renew(i) \/ Subscribe(i) \/ Delete(i)
      PROVE  (Cardinality(Stopped) <= Cardinality(Finished))'
  <2>1. UNCHANGED pool \/ pool' = [pool EXCEPT ![i] = "idle"]
    BY <1>4 DEF Renew, Subscribe, Delete
  <2>2. UNCHANGED lost \/ \E v \in {"deleted", "done"} : lost[i] = "due" /\ lost' = [lost EXCEPT ![i] = v]
    BY <1>4 DEF Renew, Subscribe, Delete
  <2>3. Stopped' \subseteq Stopped
    BY <2>1 DEF Stopped
  <2>4. Finished \subseteq Finished'
    BY <2>2 DEF Finished
  <2> QED BY <1>1, <2>3, <2>4
\* The one action that stops an executor ends a callback.
<1>5. ASSUME NEW i \in Conn, Shutdown(i)
      PROVE  (Cardinality(Stopped) <= Cardinality(Finished))'
  <2>1. lost[i] = "deleted" /\ lost' = [lost EXCEPT ![i] = "done"]
    BY <1>5 DEF Shutdown
  <2>2. i \notin Finished /\ Finished' = Finished \cup {i}
    BY <2>1 DEF Finished
  <2>3. Cardinality(Finished') = Cardinality(Finished) + 1
    BY <2>2, FewStopped, FS_AddElement
  <2>4. Stopped' \subseteq Stopped \cup {current}
    <3>1. UNCHANGED pool \/ \E v \in {"last", "shut"} : pool' = [pool EXCEPT ![current] = v]
      BY <1>5 DEF Shutdown
    <3> QED BY <3>1 DEF Stopped
  <2>5. IsFiniteSet(Stopped \cup {current}) /\ Cardinality(Stopped \cup {current}) <= Cardinality(Stopped) + 1
    <3>1. /\ IsFiniteSet(Stopped \cup {current})
          /\ Cardinality(Stopped \cup {current}) =
               IF current \in Stopped THEN Cardinality(Stopped) ELSE Cardinality(Stopped) + 1
      BY FewStopped, FS_AddElement
    <3> QED BY <3>1, FewStopped
  <2>6. IsFiniteSet(Stopped') /\ Cardinality(Stopped') <= Cardinality(Stopped \cup {current})
    BY <2>4, <2>5, FS_Subset
  <2>7. Cardinality(Stopped') \in Nat /\ Cardinality(Stopped \cup {current}) \in Nat
    BY <2>5, <2>6, FS_CardinalityType
  <2>8. Cardinality(Stopped') <= Cardinality(Finished')
    BY <2>3, <2>5, <2>6, <2>7, FewStopped
  <2> QED BY <2>8
<1>6. ASSUME NEW i \in Conn, RenewCheck(i) \/ RenewExpire(i) \/ RenewFails(i)
      PROVE  (Cardinality(Stopped) <= Cardinality(Finished))'
  <2>1. lost' = lost
    BY <1>6 DEF RenewCheck, RenewExpire, RenewFails
  <2>2. \/ UNCHANGED pool
        \/ \E v \in {"idle", "checked", "dead"} : pool' = [pool EXCEPT ![i] = v]
        \/ pool[i] = "last" /\ pool' = [pool EXCEPT ![i] = "shut"]
    BY <1>6 DEF RenewCheck, RenewExpire, RenewFails, Rest
  <2>3. Stopped' \subseteq Stopped
    BY <2>2 DEF Stopped
  <2> QED BY <1>1, <2>1, <2>3 DEF Finished
<1> QED BY <1>2, <1>3, <1>4, <1>5, <1>6 DEF Next, Callback, Renewal

LEMMA QuietStep ==
  ASSUME KeyInv, [Next]_vars
  PROVE  /\ pc' \in {"connect", "register"} => ttl' = 0
         /\ up' => conns' > 0
<1> USE DEF KeyInv
<1>1. CASE ConnectServer \/ CallFails
  <2>1. pc' \in {"connect", "register"} => ttl' = 0
    BY <1>1 DEF ConnectServer, Wake, Get, Connect, Register, CallFails, Sleep, Throw,
                TypeInv, TypeOK
  <2>2. up' => conns' > 0
    <3>1. UNCHANGED <<up, conns>> \/ conns' = conns + 1
      BY <1>1 DEF ConnectServer, Wake, Get, Connect, Register, CallFails, link
    <3>2. conns \in Nat /\ (up => conns > 0)
      BY Clock, Seconds
    <3>3. (up' = up /\ conns' = conns) \/ conns' = conns + 1
      BY <3>1
    <3>4. conns' = conns + 1 => conns' > 0
      BY <3>2
    <3> QED BY <3>2, <3>3, <3>4, Zenon
  <2> QED BY <2>1, <2>2
<1>2. CASE Drop \/ Tick \/ UNCHANGED vars
  BY <1>2 DEF Drop, Tick, vars, link, main
<1>3. ASSUME NEW i \in Conn, Callback(i) \/ Renewal(i) \/ RenewFails(i)
      PROVE  /\ pc' \in {"connect", "register"} => ttl' = 0
             /\ up' => conns' > 0
  <2>1. UNCHANGED <<pc, up, conns>> /\ (ttl = 0 => ttl' = 0)
    BY <1>3 DEF Callback, Renewal, Renew, Subscribe, Delete, Shutdown,
                RenewCheck, RenewExpire, RenewFails, link, main
  <2> QED BY <2>1
<1> QED BY <1>1, <1>2, <1>3 DEF Next

\* What a step without a failing call can be.
Faultless == \/ ConnectServer \/ Drop \/ Tick \/ UNCHANGED vars
             \/ \E i \in Conn : Callback(i) \/ Renewal(i)

LEMMA FaultlessStep ==
  ASSUME KeyInv, [Next]_vars, faults' = 0
  PROVE  faults = 0 /\ Faultless
<1>1. Faultless
  BY Clock DEF Faultless, Next, CallFails, RenewFails, KeyInv
<1>2. faults = 0
  BY <1>1, Clock DEF KeyInv, Faultless, ConnectServer, Wake, Get, Connect, Register, Drop, Tick,
     vars, Callback, Renewal, Renew, Subscribe, Delete, Shutdown, RenewCheck, RenewExpire
<1> QED BY <1>1, <1>2

LEMMA NeverDead ==
  ASSUME KeyInv, Faultless, faults = 0
  PROVE  NoneDead'
<1>1. Faultless
  OBVIOUS
<1>2. NoneDead /\ pool \in [Conn -> PoolState]
  BY DEF KeyInv, TypeInv, TypeOK
<1>4. \/ UNCHANGED pool
      \/ \E i \in Conn \cup {current}, v \in {"idle", "checked", "last", "shut"} :
           pool' = [pool EXCEPT ![i] = v]
  <2>1. CASE ConnectServer \/ Drop \/ Tick \/ UNCHANGED vars
    BY <2>1 DEF ConnectServer, Wake, Get, Connect, Register, Drop, Tick, vars, back
  <2>2. ASSUME NEW i \in Conn, Callback(i)
        PROVE  \/ UNCHANGED pool
               \/ \E k \in Conn \cup {current}, v \in {"idle", "checked", "last", "shut"} :
                    pool' = [pool EXCEPT ![k] = v]
    <3>1. CASE Renew(i) \/ Subscribe(i) \/ Delete(i)
      BY <3>1 DEF Renew, Subscribe, Delete
    <3>2. CASE Shutdown(i)
      BY <3>2 DEF Shutdown
    <3> QED BY <2>2, <3>1, <3>2 DEF Callback
  <2>3. ASSUME NEW i \in Conn, Renewal(i)
        PROVE  \/ UNCHANGED pool
               \/ \E k \in Conn \cup {current}, v \in {"idle", "checked", "last", "shut"} :
                    pool' = [pool EXCEPT ![k] = v]
    BY <2>3 DEF Renewal, RenewCheck, RenewExpire, Rest
  <2> QED BY <1>1, <2>1, <2>2, <2>3 DEF Faultless
<1> QED BY <1>2, <1>4 DEF NoneDead

LEMMA RegisteredStep ==
  ASSUME KeyInv, Faultless, Registered
  PROVE  Registered'
<1> USE DEF Registered
<1>1. CASE ConnectServer
  <2>1. CASE Wake \/ Get
    BY <2>1 DEF Wake, Get, Sleep, link, KeyInv, TypeInv
  <2>2. CASE Connect
    BY <2>2 DEF Connect
  <2>3. CASE Register
    BY <2>3 DEF Register, SetKey
  <2> QED BY <1>1, <2>1, <2>2, <2>3 DEF ConnectServer
<1>2. CASE Drop \/ Tick \/ UNCHANGED vars
  BY <1>2 DEF Drop, Tick, vars, link, main
<1>3. ASSUME NEW i \in Conn, Callback(i) \/ Renewal(i) PROVE Registered'
  <2>1. UNCHANGED <<pc, up, registered>>
    BY <1>3 DEF Callback, Renewal, Renew, Subscribe, Delete, Shutdown,
                RenewCheck, RenewExpire, link, main
  <2> QED BY <2>1
<1> QED BY <1>1, <1>2, <1>3 DEF Faultless

\* What the next two lemmas say of one connection.
Covered(i) ==
  /\ Alive(i) => ttl >= timer["pool"][i] + Margin
  /\ complete[i] = "due" => ttl >= timer["complete"][i] + FirstRenewal + MaxLag + Margin
  /\ lost[i] # "due"

\* The only assumption: callbacks and renewals are at most a second late.
LEMMA RenewedStep ==
  ASSUME KeyInv, Faultless, faults = 0, TypeInv', MaxLag <= 1
  PROVE  Renewed'
<1> SUFFICES ASSUME up', registered', NEW l \in Conn PROVE Covered(l)'
  BY DEF Renewed, Covered
<1>0. /\ TypeInv /\ Registered /\ NoneDead /\ DeletedFirst
      /\ pc = "register" => ttl = 0
      /\ up /\ registered => Covered(l)
  BY DEF KeyInv, Renewed, Covered
<1>1. /\ FirstRenewal = 1 /\ Margin = 3 - MaxLag /\ MaxLag \in 0 .. 1
  BY Seconds DEF FirstRenewal, Margin, Expire, RenewDelay
<1>2. /\ ttl \in 0 .. 9 /\ timer["pool"][l] \in 0 .. 6 + MaxLag
      /\ timer["complete"][l] \in 0 .. MaxLag /\ timer["lost"][l] \in 0 .. MaxLag
  BY <1>0, Clock
<1>3. /\ ttl' \in 0 .. 9 /\ timer'["pool"][l] \in 0 .. 6 + MaxLag
      /\ timer'["complete"][l] \in 0 .. MaxLag /\ timer'["lost"][l] \in 0 .. MaxLag
  <2>1. /\ ttl' \in 0 .. Expire
        /\ timer' \in [Job -> [Conn -> 0 .. RenewWithin]]
        /\ timer'["complete"][l] <= MaxLag /\ timer'["lost"][l] <= MaxLag
    BY DEF TypeInv, TypeOK
  <2>2. /\ timer'["pool"][l] \in 0 .. RenewWithin
        /\ timer'["complete"][l] \in 0 .. RenewWithin
        /\ timer'["lost"][l] \in 0 .. RenewWithin
    BY <2>1, Seconds
  <2> QED BY <2>1, <2>2, Seconds DEF Expire, RenewWithin, RenewDelay
<1>4. ASSUME up, registered, UNCHANGED <<complete, lost, pool>>, ttl' >= ttl,
             timer'["pool"][l] <= timer["pool"][l],
             timer'["complete"][l] <= timer["complete"][l]
      PROVE  Covered(l)'
  BY <1>0, <1>1, <1>2, <1>3, <1>4 DEF Covered, Alive
<1>5. CASE ConnectServer
  <2>1. CASE Wake \/ Get
    <3>1. UNCHANGED <<up, registered, complete, lost, pool, ttl, timer>>
      BY <2>1 DEF Wake, Get, link, back
    <3> QED BY <1>4, <1>2, <3>1
  <2>2. CASE Connect
    BY <2>2 DEF Connect
  <2>3. CASE Register
    <3>1. ttl' = 9 /\ up /\ UNCHANGED <<complete, lost, pool>>
      BY <1>0, <2>3 DEF Register, SetKey, Expire, back
    <3>2. lost[l] # "due"
      BY <3>1, NoDeleteWhileUp
    <3> QED BY <1>1, <1>3, <3>1, <3>2 DEF Covered, Alive
  <2> QED BY <1>5, <2>1, <2>2, <2>3 DEF ConnectServer
<1>6. CASE Drop
  BY <1>6 DEF Drop
<1>7. CASE UNCHANGED vars
  BY <1>4, <1>2, <1>3, <1>7 DEF vars, link, back
<1>8. CASE Tick
  <2>1. up /\ registered /\ UNCHANGED <<complete, lost, pool>>
    BY <1>8 DEF Tick, link, back
  <2>2. /\ Alive(l) => timer["pool"][l] > 0 /\ timer'["pool"][l] = timer["pool"][l] - 1
        /\ complete[l] = "due" => /\ timer["complete"][l] > 0
                                  /\ timer'["complete"][l] = timer["complete"][l] - 1
    BY <1>8, Seconds DEF Tick, Ticking, Alive
  <2>3. ttl' = IF ttl = 0 THEN 0 ELSE ttl - 1
    BY <1>8 DEF Tick
  <2> QED BY <1>0, <1>1, <1>2, <1>3, <2>1, <2>2, <2>3 DEF Covered, Alive
<1>9. ASSUME NEW i \in Conn, Callback(i) PROVE Covered(l)'
  <2>1. up /\ registered /\ Covered(l)
    BY <1>0, <1>9 DEF Callback, Renew, Subscribe, Delete, Shutdown, link
  <2>2. CASE Renew(i)
    <3>1. /\ ttl' = ttl /\ lost' = lost
          /\ complete[i] = "due" /\ complete' = [complete EXCEPT ![i] = "subscribe"]
          /\ pool' = [pool EXCEPT ![i] = "idle"]
          /\ timer' = [timer EXCEPT !["complete"] = [timer["complete"] EXCEPT ![i] = 0],
                                    !["pool"] = [timer["pool"] EXCEPT ![i] = FirstRenewal + MaxLag]]
      BY <2>2 DEF Renew, TypeInv, TypeOK, Job
    <3>2. /\ timer'["complete"] = [timer["complete"] EXCEPT ![i] = 0]
          /\ timer'["pool"] = [timer["pool"] EXCEPT ![i] = FirstRenewal + MaxLag]
      BY <1>0, <3>1, Seconds DEF TypeInv, TypeOK
    <3>3. CASE l = i
      <4>1. /\ complete'[l] = "subscribe" /\ pool'[l] = "idle" /\ lost'[l] = lost[l]
            /\ timer'["pool"][l] = FirstRenewal + MaxLag
        BY <1>0, <3>1, <3>2, <3>3, Seconds DEF TypeInv, TypeOK
      <4> QED BY <1>1, <1>2, <1>3, <2>1, <3>1, <3>3, <4>1 DEF Covered, Alive
    <3>4. CASE l # i
      <4>1. /\ complete'[l] = complete[l] /\ pool'[l] = pool[l] /\ lost'[l] = lost[l]
            /\ timer'["pool"][l] = timer["pool"][l] /\ timer'["complete"][l] = timer["complete"][l]
        BY <1>0, <3>1, <3>2, <3>4, Seconds DEF TypeInv, TypeOK
      <4> QED BY <2>1, <3>1, <4>1 DEF Covered, Alive
    <3> QED BY <3>3, <3>4
  <2>3. CASE Subscribe(i)
    <3>1. UNCHANGED <<ttl, lost, pool, timer>> /\ complete'[l] = "due" => complete[l] = "due"
      BY <1>0, <2>3 DEF Subscribe, TypeInv, TypeOK
    <3> QED BY <2>1, <2>3, <3>1 DEF Covered, Alive, Subscribe
  <2>4. CASE Delete(i)
    BY <2>1, <2>4, NoDeleteWhileUp DEF Delete
  <2>5. CASE Shutdown(i)
    <3>1. ttl' = ttl /\ complete' = complete /\ lost'[l] # "due"
      BY <1>0, <2>1, <2>5 DEF Shutdown, TypeInv, TypeOK, Covered
    <3>2. /\ timer'["complete"][l] = timer["complete"][l]
          /\ Alive(l)' => Alive(l) /\ timer'["pool"][l] = timer["pool"][l]
      <4>1. CASE current = 0
        BY <2>5, <4>1 DEF Shutdown, Alive
      <4>2. CASE current # 0
        <5>1. current \in Conn /\ timer["pool"][current] \in 0 .. RenewWithin
          BY <1>0, <4>2, Seconds DEF TypeInv, TypeOK, Conn
        <5>2. \E n \in 0 .. RenewWithin : timer' = [timer EXCEPT !["pool"][current] = n]
          BY <2>5, <4>2, <5>1, Seconds DEF Shutdown
        <5>3. \A k \in Job, m \in Conn : k # "pool" \/ m # current => timer'[k][m] = timer[k][m]
          BY <1>0, <5>1, <5>2, TimerSet, Seconds DEF TypeInv, TypeOK
        <5>4. pool'[current] \notin {"idle", "checked"} /\ (l # current => pool'[l] = pool[l])
          BY <1>0, <2>5, <4>2, <5>1 DEF Shutdown, TypeInv, TypeOK
        <5> QED BY <5>1, <5>3, <5>4, Seconds DEF Alive
      <4> QED BY <4>1, <4>2
    <3> QED BY <1>1, <1>2, <1>3, <2>1, <3>1, <3>2 DEF Covered
  <2> QED BY <1>9, <2>2, <2>3, <2>4, <2>5 DEF Callback
<1>10. ASSUME NEW i \in Conn, Renewal(i) PROVE Covered(l)'
  <2>1. up /\ registered /\ Covered(l)
    BY <1>0, <1>10 DEF Renewal, RenewCheck, RenewExpire, link
  <2>2. CASE RenewCheck(i)
    <3>1. UNCHANGED <<ttl, timer, complete, lost>> /\ (Alive(l)' => Alive(l))
      BY <1>0, <2>1, <2>2 DEF RenewCheck, Alive, TypeInv, TypeOK
    <3> QED BY <2>1, <3>1 DEF Covered
  <2>3. CASE RenewExpire(i)
    <3>1. UNCHANGED <<complete, lost>> /\ (Alive(l)' => Alive(l)) /\ ttl' = IF ttl = 0 THEN 0 ELSE 9
      BY <1>0, <2>3 DEF RenewExpire, Rest, Alive, TypeInv, TypeOK, Expire
    <3>2. Alive(l) \/ complete[l] = "due" => ttl > 0
      BY <1>1, <1>2, <2>1 DEF Covered
    <3> QED BY <1>1, <1>3, <2>1, <3>1, <3>2 DEF Covered
  <2> QED BY <1>10, <2>2, <2>3 DEF Renewal
<1> QED BY <1>5, <1>6, <1>7, <1>8, <1>9, <1>10 DEF Faultless

LEMMA DeletedStep ==
  ASSUME KeyInv, Faultless, faults = 0, TypeInv', MaxLag <= 1
  PROVE  DeletedFirst'
<1>0. /\ TypeInv /\ Registered /\ DeletedFirst
      /\ pc \in {"connect", "register"} => ttl = 0
      /\ ttl \in 0 .. 9 /\ ttl' \in Nat /\ MaxLag \in 0 .. 1
      /\ \A i \in Conn : timer["lost"][i] \in 0 .. MaxLag
  BY Clock, Seconds DEF KeyInv, TypeInv, TypeOK, Expire
\* Nothing is due that was not, and the key lives as long.
<1>1. ASSUME \A i \in Conn : lost'[i] = "due" => lost[i] = "due" /\ timer'["lost"][i] = timer["lost"][i],
             ttl' >= ttl,
             pc = "register" => (pc' = "register" /\ up' = up) \/ ttl' = 9
      PROVE  DeletedFirst'
  BY <1>0, <1>1 DEF DeletedFirst
<1>2. ASSUME \A i \in Conn : lost'[i] # "due" PROVE DeletedFirst'
  BY <1>2 DEF DeletedFirst
<1>3. CASE ConnectServer
  <2>1. CASE Wake \/ Get
    <3>1. UNCHANGED <<up, ttl, lost, timer>> /\ pc # "register"
      BY <2>1 DEF Wake, Get, link, back
    <3> QED BY <1>0, <1>1, <3>1
  <2>2. CASE Connect
    <3>1. ttl = 0 /\ lost' = lost /\ pc # "register"
      BY <1>0, <2>2 DEF Connect
    <3> QED BY <1>0, <1>2, <3>1 DEF DeletedFirst
  <2>3. CASE Register
    <3>1. ttl = 0 /\ ttl' = 9 /\ UNCHANGED <<lost, timer>>
      BY <1>0, <2>3 DEF Register, SetKey, Expire, back
    <3> QED BY <1>1, <3>1
  <2> QED BY <1>3, <2>1, <2>2, <2>3 DEF ConnectServer
\* A connection breaks with no other DEL to come, and with seconds left for its own.
<1>4. CASE Drop
  <2>1. \A i \in Conn : lost[i] # "due"
    BY <1>4, NoDeleteWhileUp DEF Drop
  <2>2. conns \in Conn
    BY <1>4, Clock DEF Drop, KeyInv, Conn
  <2>3. /\ lost' = [lost EXCEPT ![conns] = "due"] /\ ~up' /\ pc' = pc /\ ttl' = ttl
        /\ timer' = [timer EXCEPT !["lost"][conns] = MaxLag]
    BY <1>4 DEF Drop, main
  <2>4. \A i \in Conn : lost'[i] = "due" => i = conns
    BY <1>0, <2>1, <2>2, <2>3 DEF TypeInv, TypeOK
  <2>5. timer'["lost"][conns] = MaxLag
    BY <1>0, <2>2, <2>3, TimerSet, Seconds DEF TypeInv, TypeOK
  <2>6. ttl > MaxLag \/ pc = "register"
    <3>1. CASE registered
      BY <1>0, <1>4, <3>1, KeyKept DEF Drop
    <3> QED BY <1>0, <1>4, <3>1 DEF Drop, Registered
  <2> QED BY <2>3, <2>4, <2>5, <2>6 DEF DeletedFirst
<1>5. CASE UNCHANGED vars
  <2>1. UNCHANGED <<up, pc, ttl, lost, timer>>
    BY <1>5 DEF vars, link, main, back
  <2> QED BY <1>0, <1>1, <2>1
<1>6. CASE Tick
  <2>1. UNCHANGED <<up, pc, lost>>
    BY <1>6 DEF Tick, link, back
  <2>2. \A i \in Conn : lost[i] = "due" => /\ timer["lost"][i] > 0
                                           /\ timer'["lost"][i] = timer["lost"][i] - 1
    BY <1>6, Seconds DEF Tick, Ticking
  <2>3. ttl' = IF ttl = 0 THEN 0 ELSE ttl - 1
    BY <1>6 DEF Tick
  <2> QED BY <1>0, <2>1, <2>2, <2>3 DEF DeletedFirst
<1>7. ASSUME NEW i \in Conn, Callback(i) PROVE DeletedFirst'
  <2>1. CASE Renew(i)
    <3>1. timer' = [timer EXCEPT !["complete"] = [timer["complete"] EXCEPT ![i] = 0],
                                 !["pool"] = [timer["pool"] EXCEPT ![i] = FirstRenewal + MaxLag]]
      BY <2>1 DEF Renew
    <3>2. timer'["lost"] = timer["lost"]
      BY <1>0, <3>1, Seconds DEF TypeInv, TypeOK
    <3> QED BY <1>0, <1>1, <2>1, <3>2 DEF Renew, link, main
  <2>2. CASE Subscribe(i)
    <3>1. UNCHANGED <<up, pc, ttl, lost, timer>>
      BY <2>2 DEF Subscribe, main
    <3> QED BY <1>0, <1>1, <3>1
  <2>3. CASE Delete(i)
    <3>1. lost[i] = "due" /\ \E v \in {"deleted", "done"} : lost' = [lost EXCEPT ![i] = v]
      BY <2>3 DEF Delete
    <3>2. \A j \in Conn : lost[j] = "due" => j = i
      BY <1>0, <3>1 DEF DeletedFirst
    <3> QED BY <1>0, <1>2, <3>1, <3>2 DEF TypeInv, TypeOK
  <2>4. CASE Shutdown(i)
    <3>1. UNCHANGED <<up, pc, ttl>> /\ \A j \in Conn : lost'[j] = "due" => lost[j] = "due"
      BY <1>0, <2>4 DEF Shutdown, TypeInv, TypeOK, link, main
    <3>2. \A j \in Conn : timer'["lost"][j] = timer["lost"][j]
      <4>1. CASE current = 0
        BY <2>4, <4>1 DEF Shutdown
      <4>2. CASE current # 0
        <5>1. current \in Conn /\ timer["pool"][current] \in 0 .. RenewWithin
          BY <1>0, <4>2, Seconds DEF TypeInv, TypeOK, Conn
        <5>2. \E n \in 0 .. RenewWithin : timer' = [timer EXCEPT !["pool"][current] = n]
          BY <2>4, <4>2, <5>1, Seconds DEF Shutdown
        <5> QED BY <1>0, <5>1, <5>2, TimerSet, Seconds DEF TypeInv, TypeOK
      <4> QED BY <4>1, <4>2
    <3> QED BY <1>0, <1>1, <3>1, <3>2
  <2> QED BY <1>7, <2>1, <2>2, <2>3, <2>4 DEF Callback
<1>8. ASSUME NEW i \in Conn, Renewal(i) PROVE DeletedFirst'
  <2>1. UNCHANGED <<up, pc, lost>> /\ ttl' >= ttl
    BY <1>0, <1>8 DEF Renewal, RenewCheck, RenewExpire, link, main, Expire
  <2>2. UNCHANGED timer \/ \E n \in 0 .. RenewWithin : timer' = [timer EXCEPT !["pool"][i] = n]
    BY <1>8, Seconds DEF Renewal, RenewCheck, RenewExpire, Rest
  <2>3. \A j \in Conn : timer'["lost"][j] = timer["lost"][j]
    BY <1>0, <2>2, TimerSet, Seconds DEF TypeInv, TypeOK
  <2> QED BY <1>0, <1>1, <2>1, <2>3
<1> QED BY <1>3, <1>4, <1>5, <1>6, <1>7, <1>8 DEF Faultless

LEMMA KeyStep ==
  ASSUME KeyInv, [Next]_vars, MaxLag <= 1
  PROVE  KeyInv'
<1>1. TypeInv'
  BY TypeStep DEF KeyInv
<1>2. ASSUME faults' = 0 PROVE (Registered /\ NoneDead /\ Renewed /\ DeletedFirst)'
  <2>1. faults = 0 /\ Faultless
    BY <1>2, FaultlessStep
  <2>2. Registered
    BY <2>1 DEF KeyInv
  <2>3. Registered' /\ NoneDead' /\ Renewed' /\ DeletedFirst'
    BY <1>1, <2>1, <2>2, RegisteredStep, NeverDead, RenewedStep, DeletedStep
  <2> QED BY <2>3
<1>3. (Cardinality(Stopped) <= Cardinality(Finished))'
  BY StoppedStep
<1> QED BY <1>1, <1>2, <1>3, QuietStep DEF KeyInv

\* While the client is connected its key stays in Redis, for any number of
\* connections made and lost before, as long as no call fails and neither a
\* callback nor a renewal is more than a second late.
THEOREM KeyStays ==
  ASSUME MaxLag <= 1
  PROVE  Spec => []Kept
<1>1. KeyInv => Kept
  BY KeyKept, Clock, Seconds DEF Kept, KeyInv
<1>2. KeyInv /\ [Next]_vars => KeyInv'
  BY KeyStep
<1> QED BY KeyInit, <1>1, <1>2, PTL DEF Spec

-----------------------------------------------------------------------------
\* A task of an executor that has seen isConnected() and not yet called EXPIRE.
Running(i) == pool[i] \in {"checked", "last"}

\* When no DEL is to come, the key ends before the next attempt, also if a task that
\* is under way extends it once more.
EndsInTime ==
  /\ pc = "get" => ttl = 0
  /\ pc = "asleep" => /\ ttl <= delay
                      /\ \A i \in Conn : Running(i) /\ ttl > 0 => delay >= Expire + timer["pool"][i]

GoneInv ==
  /\ \A i \in Conn : Running(i) => timer["pool"][i] <= MaxLag
  /\ faults = 0 /\ ~up /\ run = "later" /\ (\A i \in Conn : lost[i] # "due") => EndsInTime

LEMMA GoneInit == Init => GoneInv
  BY DEF Init, GoneInv, Running

\* Tasks under way are as late as they may be, or less.
LEMMA RunningStep ==
  ASSUME KeyInv, GoneInv, [Next]_vars, NEW l \in Conn, Running(l)'
  PROVE  timer'["pool"][l] <= MaxLag /\ (~up => Running(l) /\ timer'["pool"][l] <= timer["pool"][l])
<1>0. /\ TypeInv /\ (Running(l) => timer["pool"][l] <= MaxLag)
      /\ timer["pool"][l] \in Nat /\ MaxLag \in Nat
  BY Clock, Seconds DEF KeyInv, GoneInv
<1>1. ASSUME Running(l), timer'["pool"][l] = timer["pool"][l]
      PROVE  timer'["pool"][l] <= MaxLag /\ (~up => Running(l) /\ timer'["pool"][l] <= timer["pool"][l])
  BY <1>0, <1>1
<1>2. CASE Wake \/ Get \/ Register \/ CallFails \/ UNCHANGED vars \/ \E i \in Conn : Subscribe(i)
  <2>1. UNCHANGED <<pool, timer>>
    BY <1>2 DEF Wake, Get, Register, CallFails, vars, back, Subscribe
  <2> QED BY <1>1, <2>1 DEF Running
<1>3. CASE Connect
  <2>1. conns + 1 \in Conn /\ timer' = [timer EXCEPT !["complete"][conns + 1] = MaxLag] /\ pool' = pool
    BY <1>0, <1>3, Clock, Seconds DEF Connect, Conn
  <2> QED BY <1>0, <1>1, <2>1, TimerSet, Seconds DEF Running, TypeInv, TypeOK
<1>4. CASE Drop
  <2>1. conns \in Conn
    BY <1>4, Clock DEF Drop, KeyInv, Conn
  <2>2. timer' = [timer EXCEPT !["lost"][conns] = MaxLag] /\ pool' = pool
    BY <1>4 DEF Drop
  <2> QED BY <1>0, <1>1, <2>1, <2>2, TimerSet, Seconds DEF Running, TypeInv, TypeOK
<1>5. CASE Tick
  <2>1. pool' = pool /\ timer'["pool"][l] = timer["pool"][l] - 1
    BY <1>5, Seconds DEF Tick, back, Ticking, Running
  <2> QED BY <1>0, <2>1 DEF Running
<1>6. ASSUME NEW i \in Conn, Renew(i)
      PROVE  timer'["pool"][l] <= MaxLag /\ (~up => Running(l) /\ timer'["pool"][l] <= timer["pool"][l])
  <2>1. /\ pool' = [pool EXCEPT ![i] = "idle"]
        /\ timer' = [timer EXCEPT !["complete"] = [timer["complete"] EXCEPT ![i] = 0],
                                  !["pool"] = [timer["pool"] EXCEPT ![i] = FirstRenewal + MaxLag]]
    BY <1>6 DEF Renew
  <2>2. timer'["pool"] = [timer["pool"] EXCEPT ![i] = FirstRenewal + MaxLag]
    BY <1>0, <2>1, Seconds DEF TypeInv, TypeOK
  <2>3. l # i /\ Running(l)
    BY <1>0, <2>1 DEF Running, TypeInv, TypeOK
  <2> QED BY <1>0, <1>1, <2>2, <2>3, Seconds DEF TypeInv, TypeOK
<1>7. ASSUME NEW i \in Conn, Delete(i)
      PROVE  timer'["pool"][l] <= MaxLag /\ (~up => Running(l) /\ timer'["pool"][l] <= timer["pool"][l])
  <2>1. timer' = [timer EXCEPT !["lost"][i] = 0] /\ pool' = pool
    BY <1>7 DEF Delete
  <2> QED BY <1>0, <1>1, <2>1, TimerSet, Seconds DEF Running, TypeInv, TypeOK
<1>8. ASSUME NEW i \in Conn, Shutdown(i)
      PROVE  timer'["pool"][l] <= MaxLag /\ (~up => Running(l) /\ timer'["pool"][l] <= timer["pool"][l])
  <2>1. CASE current = 0
    BY <1>1, <1>8, <2>1 DEF Shutdown, Running
  <2>2. CASE current # 0
    <3>1. current \in Conn /\ timer["pool"][current] \in 0 .. RenewWithin
      BY <1>0, <2>2, Seconds DEF TypeInv, TypeOK, Conn
    <3>2. /\ pool' = [pool EXCEPT ![current] = IF Running(current) THEN "last" ELSE "shut"]
          /\ timer' = [timer EXCEPT !["pool"][current] = IF pool'[current] = "last" THEN timer["pool"][current] ELSE 0]
      BY <1>8, <2>2, <3>1 DEF Shutdown, Running, TypeInv, TypeOK
    <3>3. CASE l # current
      <4>1. pool'[l] = pool[l]
        BY <1>0, <3>2, <3>3 DEF TypeInv, TypeOK
      <4>2. timer'["pool"][l] = timer["pool"][l]
        BY <1>0, <3>1, <3>2, <3>3, TimerSet, Seconds DEF TypeInv, TypeOK
      <4> QED BY <1>1, <4>1, <4>2 DEF Running
    <3>4. CASE l = current
      <4>1. Running(l) /\ pool'[l] = "last"
        BY <1>0, <3>1, <3>2, <3>4 DEF Running, TypeInv, TypeOK
      <4>2. timer'["pool"][l] = timer["pool"][l]
        BY <1>0, <3>1, <3>2, <3>4, <4>1, TimerSet, Seconds DEF TypeInv, TypeOK
      <4> QED BY <1>1, <4>1, <4>2
    <3> QED BY <3>3, <3>4
  <2> QED BY <2>1, <2>2
<1>9. ASSUME NEW i \in Conn, RenewCheck(i)
      PROVE  timer'["pool"][l] <= MaxLag /\ (~up => Running(l) /\ timer'["pool"][l] <= timer["pool"][l])
  <2>1. CASE up
    <3>1. pool' = [pool EXCEPT ![i] = "checked"] /\ timer' = timer /\ timer["pool"][i] <= MaxLag
      BY <1>9, <2>1 DEF RenewCheck
    <3> QED BY <1>0, <2>1, <3>1 DEF Running, TypeInv, TypeOK
  <2>2. CASE ~up
    <3>1. /\ pool' = [pool EXCEPT ![i] = "idle"]
          /\ timer' = [timer EXCEPT !["pool"][i] = RenewWithin]
      BY <1>9, <2>2 DEF RenewCheck, Rest
    <3>2. l # i /\ Running(l)
      BY <1>0, <3>1 DEF Running, TypeInv, TypeOK
    <3> QED BY <1>0, <1>1, <3>1, <3>2, TimerSet, Seconds DEF TypeInv, TypeOK
  <2> QED BY <2>1, <2>2
<1>10. ASSUME NEW i \in Conn, RenewExpire(i) \/ RenewFails(i)
       PROVE  timer'["pool"][l] <= MaxLag /\ (~up => Running(l) /\ timer'["pool"][l] <= timer["pool"][l])
  <2>1. /\ \E v \in {"idle", "shut", "dead"} : pool' = [pool EXCEPT ![i] = v]
        /\ \E n \in {0, RenewWithin} : timer' = [timer EXCEPT !["pool"][i] = n]
    BY <1>10 DEF RenewExpire, RenewFails, Rest
  <2>2. l # i /\ Running(l)
    BY <1>0, <2>1 DEF Running, TypeInv, TypeOK
  <2> QED BY <1>0, <1>1, <2>1, <2>2, TimerSet, Seconds DEF TypeInv, TypeOK
<1> QED
  BY <1>2, <1>3, <1>4, <1>5, <1>6, <1>7, <1>8, <1>9, <1>10
  DEF Next, ConnectServer, Callback, Renewal

LEMMA GoneStep ==
  ASSUME KeyInv, KeyInv', GoneInv, [Next]_vars, MaxLag <= 1
  PROVE  GoneInv'
<1>1. \A l \in Conn : Running(l)' => timer'["pool"][l] <= MaxLag
  BY RunningStep
<1> SUFFICES ASSUME faults' = 0, ~up', run' = "later", \A i \in Conn : lost'[i] # "due"
             PROVE  EndsInTime'
  BY <1>1 DEF GoneInv
<1>2. /\ faults = 0 /\ Faultless
  BY FaultlessStep
<1>3. /\ TypeInv /\ ttl \in 0 .. 9 /\ ttl' \in 0 .. 9 /\ delay \in 0 .. 10
      /\ pc = "register" => ttl = 0
      /\ MaxLag \in 0 .. 1 /\ Expire = 9 /\ Period = 10
      /\ \A l \in Conn : timer["pool"][l] \in Nat /\ timer'["pool"][l] \in Nat
  <2>1. \A l \in Conn : timer'["pool"][l] \in 0 .. RenewWithin
    BY Seconds DEF KeyInv, TypeInv, TypeOK
  <2> QED BY <2>1, Clock, Seconds DEF KeyInv, TypeInv, TypeOK, Expire, Period
<1>4. \A l \in Conn : Running(l)' /\ ~up => Running(l) /\ timer'["pool"][l] <= timer["pool"][l]
  BY RunningStep
\* A key that begins its pause with the client has ended when the pause has.
<1>5. ASSUME pc' = "asleep", delay' = 10 PROVE EndsInTime'
  BY <1>1, <1>3, <1>5 DEF EndsInTime
\* The key is gone.
<1>6. ASSUME ttl' = 0, delay' \in Nat PROVE EndsInTime'
  BY <1>6 DEF EndsInTime
\* The end of a lost connection is not yet known while the client is up.
<1>7. delay' \in Nat
  BY DEF KeyInv, TypeInv, TypeOK, Period
<1>8. ASSUME ~up, UNCHANGED <<pc, run, lost>>, ttl' <= ttl \/ ttl' = 9, ttl = 0 => ttl' = 0,
             ttl' # ttl => \E i \in Conn : Running(i), UNCHANGED delay
      PROVE  EndsInTime'
  <2>1. EndsInTime
    BY <1>2, <1>8 DEF GoneInv
  <2> QED BY <1>3, <1>4, <1>8, <2>1 DEF EndsInTime
<1>9. CASE ConnectServer
  <2>1. CASE Wake
    <3>1. ~up /\ lost' = lost /\ ttl' = ttl /\ pc = "asleep" /\ delay = 0 /\ pc' = "get" /\ run' = run
      BY <2>1 DEF Wake, link, back
    <3>2. ttl = 0
      BY <1>2, <1>3, <3>1 DEF GoneInv, EndsInTime
    <3> QED BY <1>6, <1>7, <3>1, <3>2
  <2>2. CASE Get
    <3>1. CASE ttl > 0
      <4>1. pc = "get" /\ ~up /\ lost' = lost /\ Sleep
        BY <2>2, <3>1 DEF Get, link, back
      <4>2. run # "later"
        BY <1>2, <3>1, <4>1 DEF GoneInv, EndsInTime
      <4> QED BY <1>3, <1>5, <4>1, <4>2 DEF Sleep
    <3>2. CASE ~(ttl > 0)
      <4>1. ttl' = 0
        BY <1>3, <2>2, <3>2 DEF Get
      <4> QED BY <1>6, <1>7, <4>1
    <3> QED BY <3>1, <3>2
  <2>3. CASE Connect
    BY <2>3 DEF Connect
  <2>4. CASE Register
    <3>1. Sleep
      BY <1>3, <2>4 DEF Register
    <3> QED BY <1>3, <1>5, <3>1 DEF Sleep
  <2> QED BY <1>9, <2>1, <2>2, <2>3, <2>4 DEF ConnectServer
<1>10. CASE Drop
  <2>1. conns \in Conn /\ lost' = [lost EXCEPT ![conns] = "due"]
    BY <1>10, Clock DEF Drop, KeyInv, Conn
  <2> QED BY <1>3, <2>1 DEF TypeInv, TypeOK
<1>11. CASE Tick
  <2>1. ~up /\ UNCHANGED <<pc, run, lost>> /\ EndsInTime
    BY <1>2, <1>11 DEF Tick, link, back, GoneInv
  <2>2. /\ ttl' = IF ttl = 0 THEN 0 ELSE ttl - 1
        /\ delay' = IF delay = 0 THEN 0 ELSE delay - 1
    BY <1>11 DEF Tick
  <2>3. \A l \in Conn : Running(l)' => Running(l) /\ timer["pool"][l] > 0
                                       /\ timer'["pool"][l] = timer["pool"][l] - 1
    BY <1>11, Seconds DEF Tick, back, Ticking, Running
  <2> QED BY <1>3, <2>1, <2>2, <2>3 DEF EndsInTime
<1>12. ASSUME NEW i \in Conn, Callback(i) PROVE EndsInTime'
  <2>1. CASE Delete(i)
    BY <1>6, <1>7, <1>2, <2>1 DEF Delete
  <2>2. CASE Renew(i) \/ Subscribe(i)
    <3>1. ~up /\ UNCHANGED <<pc, run, lost, ttl, delay>>
      BY <2>2 DEF Renew, Subscribe, link, main
    <3> QED BY <1>3, <1>8, <3>1
  <2>3. CASE Shutdown(i)
    <3>1. /\ ~up /\ UNCHANGED <<pc, run, ttl, delay>>
          /\ lost[i] = "deleted" /\ lost' = [lost EXCEPT ![i] = "done"]
      BY <2>3 DEF Shutdown, link, main
    <3>2. \A j \in Conn : lost[j] # "due"
      BY <1>3, <3>1 DEF TypeInv, TypeOK
    <3>3. EndsInTime
      BY <1>2, <3>1, <3>2 DEF GoneInv
    <3> QED BY <1>3, <1>4, <3>1, <3>3 DEF EndsInTime
  <2> QED BY <1>12, <2>1, <2>2, <2>3 DEF Callback
<1>13. ASSUME NEW i \in Conn, Renewal(i) PROVE EndsInTime'
  <2>1. /\ ~up /\ UNCHANGED <<pc, run, lost, delay>>
        /\ ttl' = ttl \/ (Running(i) /\ ttl' = IF ttl = 0 THEN 0 ELSE 9)
    BY <1>13, <1>3 DEF Renewal, RenewCheck, RenewExpire, Running, link, main
  <2> QED BY <1>3, <1>8, <2>1
<1>14. CASE UNCHANGED vars
  <2>1. ~up /\ UNCHANGED <<pc, run, lost, ttl, delay>>
    BY <1>14 DEF vars, link, main, back
  <2> QED BY <1>3, <1>8, <2>1
<1> QED BY <1>2, <1>9, <1>10, <1>11, <1>12, <1>13, <1>14 DEF Faultless

\* An attempt that finds no connection and no DEL to come finds no key of an earlier
\* connection either, for any number of connections, although SETNX may come after
\* the DEL and a renewal after both.
THEOREM NoKeyLeft ==
  ASSUME MaxLag <= 1
  PROVE  Spec => []RetryFindsKeyGone
<1>1. KeyInv /\ [Next]_vars => KeyInv'
  BY KeyStep
<1>2. KeyInv /\ KeyInv' /\ GoneInv /\ [Next]_vars => GoneInv'
  BY GoneStep
<1>3. KeyInv /\ GoneInv => RetryFindsKeyGone
  BY DEF KeyInv, TypeInv, GoneInv, EndsInTime, RetryFindsKeyGone
<1> QED BY KeyInit, GoneInit, <1>1, <1>2, <1>3, PTL DEF Spec

-----------------------------------------------------------------------------
\* While callbacks do not overlap and no call fails, only the executor the field
\* holds can renew, and none whose connectionLost is done.
OnlyCurrent ==
  /\ \A i \in Conn : Alive(i) => i = current
  /\ \A i \in Conn : lost[i] = "done" => ~Alive(i)

Orderly == ~Overlap /\ faults = 0
AtMostOne == Cardinality({i \in Conn : pool[i] \in {"idle", "checked"}}) <= 1

LEMMA OnlyCurrentStep ==
  ASSUME TypeInv, OnlyCurrent, Orderly, faults' = 0, [Next]_vars
  PROVE  OnlyCurrent'
<1>0. /\ complete \in [Conn -> {"none", "due", "subscribe", "done"}]
      /\ lost \in [Conn -> {"none", "due", "deleted", "done"}]
      /\ pool \in [Conn -> PoolState]
      /\ faults = 0 /\ conns \in Nat
  BY DEF TypeInv, TypeOK, Orderly
<1>1. ASSUME current' = current, \A i \in Conn : Alive(i)' => Alive(i),
             \A i \in Conn : lost'[i] = "done" => lost[i] = "done"
      PROVE  OnlyCurrent'
  BY <1>1 DEF OnlyCurrent
<1>2. CASE ConnectServer \/ CallFails \/ Tick \/ UNCHANGED vars
  <2>1. UNCHANGED <<pool, lost, current>>
    BY <1>2 DEF ConnectServer, Wake, Get, Connect, Register, CallFails, Tick, vars, back
  <2> QED BY <1>1, <2>1 DEF Alive
<1>3. CASE Drop
  BY <1>0, <1>1, <1>3 DEF Drop, Alive
\* The new executor finds the one before it shut down: were it not, its connection's
\* connectionLost would be to come or under way.
<1>4. ASSUME NEW i \in Conn, Renew(i) PROVE OnlyCurrent'
  <2>1. /\ complete[i] = "due" /\ pool' = [pool EXCEPT ![i] = "idle"]
        /\ current' = i /\ lost' = lost
    BY <1>4 DEF Renew
  <2>2. lost[i] = "none" /\ \A j \in Conn : lost[j] \notin {"due", "deleted"}
    BY <2>1 DEF Orderly, Overlap
  <2>3. i = conns
    BY <2>1, <2>2 DEF TypeInv, TypeOK, Conn
  <2>4. ASSUME NEW j \in Conn, j # i PROVE ~Alive(j)
    <3>1. complete[j] # "none" => j < conns
      BY <2>3, <2>4 DEF TypeInv, TypeOK, Conn
    <3>2. complete[j] # "none" => lost[j] = "done"
      BY <1>0, <2>2, <3>1 DEF TypeInv, TypeOK
    <3>3. complete[j] = "none" => pool[j] = "none"
      BY DEF TypeInv, TypeOK
    <3> QED BY <3>2, <3>3 DEF OnlyCurrent, Alive
  <2> QED BY <1>0, <2>1, <2>2, <2>4 DEF OnlyCurrent, Alive
<1>5. ASSUME NEW i \in Conn, Subscribe(i) \/ Delete(i) PROVE OnlyCurrent'
  BY <1>0, <1>1, <1>5 DEF Subscribe, Delete, Alive
<1>6. ASSUME NEW i \in Conn, Shutdown(i) PROVE OnlyCurrent'
  <2>1. /\ lost' = [lost EXCEPT ![i] = "done"] /\ current' = current
        /\ current # 0 => \E v \in {"last", "shut"} : pool' = [pool EXCEPT ![current] = v]
        /\ current = 0 => pool' = pool
    BY <1>6 DEF Shutdown
  <2>2. current = 0 \/ current \in Conn
    BY Seconds DEF TypeInv, TypeOK, Conn
  <2>3. ASSUME NEW j \in Conn PROVE pool'[j] \notin {"idle", "checked"}
    <3>1. CASE j = current
      <4>1. current # 0
        BY <3>1, Seconds DEF Conn
      <4>2. PICK v \in {"last", "shut"} : pool' = [pool EXCEPT ![current] = v]
        BY <2>1, <4>1
      <4> QED BY <1>0, <3>1, <4>2
    <3>2. CASE j # current
      <4>1. pool'[j] = pool[j]
        BY <1>0, <2>1, <2>2, <3>2
      <4> QED BY <3>2, <4>1 DEF OnlyCurrent, Alive
    <3> QED BY <3>1, <3>2
  <2>4. \A j \in Conn : ~Alive(j)'
    BY <2>3 DEF Alive
  <2> QED BY <2>4 DEF OnlyCurrent
<1>7. ASSUME NEW i \in Conn, RenewCheck(i) \/ RenewExpire(i) \/ RenewFails(i) PROVE OnlyCurrent'
  <2>1. UNCHANGED <<lost, current>>
    BY <1>7 DEF RenewCheck, RenewExpire, RenewFails
  <2>2. \/ \E v \in {"idle", "checked"} : pool[i] \in {"idle", "checked"} /\ pool' = [pool EXCEPT ![i] = v]
        \/ \E v \in {"shut", "dead"} : pool' = [pool EXCEPT ![i] = v]
    BY <1>7, <1>0 DEF RenewCheck, RenewExpire, RenewFails, Rest
  <2> QED BY <1>0, <1>1, <2>1, <2>2 DEF Alive
<1> QED
  BY <1>2, <1>3, <1>4, <1>5, <1>6, <1>7 DEF Next, Callback, Renewal

\* Executors do not pile up, for any number of connections, unless callbacks overlap
\* or a call fails.
THEOREM ExecutorsDoNotPileUp == Spec => OneRenewal
<1>1. Init => OnlyCurrent
  BY DEF Init, OnlyCurrent, Alive
<1>2. TypeInv /\ OnlyCurrent /\ Orderly /\ Orderly' /\ [Next]_vars => OnlyCurrent'
  BY OnlyCurrentStep DEF Orderly
<1>3. OnlyCurrent => AtMostOne
  <2> SUFFICES ASSUME OnlyCurrent PROVE AtMostOne
    OBVIOUS
  <2>1. {i \in Conn : pool[i] \in {"idle", "checked"}} \in SUBSET {current}
    BY DEF OnlyCurrent, Alive
  <2>2. IsFiniteSet({current}) /\ Cardinality({current}) = 1
    BY FS_Singleton
  <2> QED BY <2>1, <2>2, FS_Subset DEF AtMostOne
<1>4. Spec => ([]Orderly => []AtMostOne)
  BY TypeInit, TypeStep, <1>1, <1>2, <1>3, PTL DEF Spec
<1> QED BY <1>4, PTL DEF OneRenewal, Orderly, AtMostOne
=============================================================================

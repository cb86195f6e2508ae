----------------------------- MODULE MqttClient -----------------------------
(***************************************************************************)
(* mqtt/spring: a client that keeps itself connected to an MQTT broker and, *)
(* while it is, a key with a timeout in Redis (AbstractClientService and    *)
(* the v3 and v5 MqttClientService).                                        *)
(*                                                                         *)
(* Four kinds of threads meet: connectServer(), first on the main thread    *)
(* and then every 10 s on the scheduler; the client library's callbacks     *)
(* connectComplete and connectionLost (v5: disconnected), which may run on  *)
(* different threads; and one renewal executor per connectComplete.  The    *)
(* client id, and with it lock and key, is random per process: nobody else  *)
(* uses them.  Connection i is the i-th the client made.  Time is counted   *)
(* in seconds; callbacks and renewals run at most MaxLag late.              *)
(***************************************************************************)
EXTENDS Naturals, FiniteSets

CONSTANTS MaxConns,   \* how many connections are made
          MaxLag,     \* how late a callback or a renewal may run, in seconds
          MaxFaults   \* how many calls to broker or Redis fail

ASSUME MqttAssumption == MaxConns \in Nat \ {0} /\ MaxLag \in Nat /\ MaxFaults \in Nat

Conn == 1 .. MaxConns

\* Mutants: a key that outlives the pause between two attempts; a renewal too late.
ExpireLong == 12
RenewDelayLong == 9

Expire       == 9      \* EXPIRE
FirstRenewal == 1      \* scheduleWithFixedDelay(..., 1, 6, SECONDS)
RenewDelay   == 6
Period       == 10     \* @Scheduled(fixedDelayString = "10000")

VARIABLES up,          \* mqttClient.isConnected()
          conns,       \* connections made so far
          ttl,         \* seconds the client key has to live; 0 when absent
          registered,  \* history: the key was set on this connection
          subscribed,  \* the broker knows this connection's subscription
          pc,          \* where connectServer() is
          delay,       \* seconds until its next run
          run,         \* is it the run of init(), the first scheduled one or a later one
          complete,    \* per connection: the connectComplete callback
          lost,        \* per connection: the connectionLost callback
          pool,        \* per connection: the executor made by its connectComplete
          current,     \* the field scheduledExecutorService
          timer,       \* seconds until complete, lost, pool must have moved on; else 0
          faults

link == <<up, conns, registered, subscribed>>
main == <<pc, delay, run>>
back == <<complete, lost, pool, current>>
vars == <<link, ttl, main, back, timer, faults>>

\* A pool's task waits, has seen isConnected(), has seen it when the pool was
\* shut down, has ended with an exception; or the pool is shut down.
PoolState == {"none", "idle", "checked", "last", "dead", "shut"}
Job == {"complete", "lost", "pool"}
RenewWithin == RenewDelay + MaxLag

TypeOK ==
  /\ up \in BOOLEAN /\ registered \in BOOLEAN /\ subscribed \in BOOLEAN
  /\ conns \in 0 .. MaxConns
  /\ ttl \in 0 .. Expire
  /\ pc \in {"asleep", "get", "connect", "register", "stopped"}
  /\ delay \in 0 .. Period
  /\ run \in {"init", "first", "later"}
  /\ complete \in [Conn -> {"none", "due", "subscribe", "done"}]
  /\ lost \in [Conn -> {"none", "due", "deleted", "done"}]
  /\ pool \in [Conn -> PoolState]
  /\ current \in 0 .. MaxConns
  /\ timer \in [Job -> [Conn -> 0 .. RenewWithin]]
  /\ faults \in 0 .. MaxFaults
  \* What has been done for a connection presupposes that it was made and lost.
  /\ \A i \in Conn : /\ complete[i] # "none" <=> i <= conns
                     /\ lost[i] # "none" <=> i < conns \/ (i = conns /\ ~up)
                     /\ pool[i] # "none" <=> complete[i] \in {"subscribe", "done"}

Init ==
  /\ up = FALSE /\ registered = FALSE /\ subscribed = FALSE
  /\ conns = 0
  /\ ttl = 0
  /\ pc = "get" /\ delay = 0 /\ run = "init"
  /\ complete = [i \in Conn |-> "none"]
  /\ lost = [i \in Conn |-> "none"]
  /\ pool = [i \in Conn |-> "none"]
  /\ current = 0
  /\ timer = [j \in Job |-> [i \in Conn |-> 0]]
  /\ faults = 0

-----------------------------------------------------------------------------
(* connectServer().                                                         *)

\* It returns, and the scheduler starts it again after a pause; the first
\* scheduled run follows init() at once.
Sleep ==
  /\ pc' = "asleep"
  /\ delay' = IF run = "init" THEN 0 ELSE Period
  /\ run' = IF run = "init" THEN "first" ELSE "later"

\* Mutant: a run that throws is the last one.
ThrowEnds == pc' = "stopped" /\ UNCHANGED <<delay, run>>

\* It throws: the scheduler logs that, but init() fails the start of the program.
Throw ==
  IF run = "init" THEN pc' = "stopped" /\ UNCHANGED <<delay, run>> ELSE Sleep

Wake ==
  /\ pc = "asleep" /\ delay = 0
  /\ IF up THEN Sleep ELSE pc' = "get" /\ UNCHANGED <<delay, run>>
  /\ UNCHANGED <<link, ttl, back, timer, faults>>

\* lock.tryLock(), which nobody contends for, and GET: is there a key?
Get ==
  /\ pc = "get"
  /\ IF ttl > 0 THEN Sleep ELSE pc' = "connect" /\ UNCHANGED <<delay, run>>
  /\ UNCHANGED <<link, ttl, back, timer, faults>>

\* connect() waits for the broker's answer; the library will call connectComplete.
Connect ==
  /\ pc = "connect"
  /\ conns < MaxConns
  /\ up' = TRUE /\ registered' = FALSE /\ subscribed' = FALSE
  /\ conns' = conns + 1
  /\ complete' = [complete EXCEPT ![conns + 1] = "due"]
  /\ timer' = [timer EXCEPT !["complete"][conns + 1] = MaxLag]
  /\ pc' = "register"
  /\ UNCHANGED <<ttl, delay, run, lost, pool, current, faults>>

\* setIfAbsent(key, id, 9 s).
SetKey ==
  /\ ttl' = IF ttl = 0 THEN Expire ELSE ttl
  /\ registered' = up

\* Where it answers FALSE, disconnect() follows, which disconnects nobody: it does
\* nothing while connected and throws otherwise.
Register ==
  /\ pc = "register"
  /\ SetKey
  /\ IF ttl > 0 /\ ~up THEN Throw ELSE Sleep
  /\ UNCHANGED <<up, conns, subscribed, back, timer, faults>>

\* A call throws; SETNX may have been executed all the same.
CallFails ==
  /\ faults < MaxFaults
  /\ pc \in {"get", "connect", "register"}
  /\ faults' = faults + 1
  /\ \/ UNCHANGED <<ttl, registered>>
     \/ pc = "register" /\ SetKey
  /\ Throw
  /\ UNCHANGED <<up, conns, subscribed, back, timer>>

-----------------------------------------------------------------------------
(* The callbacks.                                                           *)

\* Mutants: renew() keeps an executor that exists; it makes none once the
\* connection has gone.
RenewOnce(i) ==
  /\ complete[i] = "due"
  /\ complete' = [complete EXCEPT ![i] = "subscribe"]
  /\ pool' = [pool EXCEPT ![i] = IF current = 0 THEN "idle" ELSE "shut"]
  /\ current' = IF current = 0 THEN i ELSE current
  /\ timer' = [timer EXCEPT !["complete"][i] = 0,
                           !["pool"][i] = IF current = 0 THEN FirstRenewal + MaxLag ELSE 0]
  /\ UNCHANGED <<link, ttl, main, lost, faults>>

RenewIfUp(i) ==
  /\ complete[i] = "due"
  /\ complete' = [complete EXCEPT ![i] = "subscribe"]
  /\ pool' = IF up THEN [pool EXCEPT ![i] = "idle"] ELSE pool
  /\ current' = IF up THEN i ELSE current
  /\ timer' = [timer EXCEPT !["complete"][i] = 0, !["pool"][i] = IF up THEN FirstRenewal + MaxLag ELSE 0]
  /\ UNCHANGED <<link, ttl, main, lost, faults>>

\* connectComplete: renew() makes a new executor and forgets the one before,
Renew(i) ==
  /\ complete[i] = "due"
  /\ complete' = [complete EXCEPT ![i] = "subscribe"]
  /\ pool' = [pool EXCEPT ![i] = "idle"]
  /\ current' = i
  /\ timer' = [timer EXCEPT !["complete"][i] = 0, !["pool"][i] = FirstRenewal + MaxLag]
  /\ UNCHANGED <<link, ttl, main, lost, faults>>

\* and then subscribes, on whatever connection there is; a failure is logged.
Subscribe(i) ==
  /\ complete[i] = "subscribe"
  /\ complete' = [complete EXCEPT ![i] = "done"]
  /\ \/ subscribed' = up /\ UNCHANGED faults
     \/ faults < MaxFaults /\ faults' = faults + 1 /\ UNCHANGED subscribed
  /\ UNCHANGED <<up, conns, registered, ttl, main, lost, pool, current, timer>>

\* The connection breaks; the library will call connectionLost.
Drop ==
  /\ up /\ conns < MaxConns
  /\ up' = FALSE /\ registered' = FALSE /\ subscribed' = FALSE
  /\ lost' = [lost EXCEPT ![conns] = "due"]
  /\ timer' = [timer EXCEPT !["lost"][conns] = MaxLag]
  /\ UNCHANGED <<conns, ttl, main, complete, pool, current, faults>>

\* disconnected(): DEL, and if that throws nothing else.
Delete(i) ==
  /\ lost[i] = "due"
  /\ \/ ttl' = 0
        /\ lost' = [lost EXCEPT ![i] = "deleted"]
        /\ UNCHANGED faults
     \/ /\ faults < MaxFaults
        /\ ttl' \in {0, ttl}
        /\ lost' = [lost EXCEPT ![i] = "done"]
        /\ faults' = faults + 1
  /\ timer' = [timer EXCEPT !["lost"][i] = 0]
  /\ UNCHANGED <<link, main, complete, pool, current>>

\* Mutant: the executor is not shut down.
ShutdownForgotten(i) ==
  /\ lost[i] = "deleted"
  /\ lost' = [lost EXCEPT ![i] = "done"]
  /\ UNCHANGED <<link, ttl, main, complete, pool, current, timer, faults>>

\* shutdown() of the executor the field holds by now; a running task ends first.
Shutdown(i) ==
  /\ lost[i] = "deleted"
  /\ lost' = [lost EXCEPT ![i] = "done"]
  /\ IF current = 0 THEN UNCHANGED <<pool, timer>>
     ELSE /\ pool' = [pool EXCEPT ![current] = IF @ \in {"checked", "last"} THEN "last" ELSE "shut"]
          /\ timer' = [timer EXCEPT !["pool"][current] = IF pool'[current] = "last" THEN @ ELSE 0]
  /\ UNCHANGED <<link, ttl, main, complete, current, faults>>

-----------------------------------------------------------------------------
(* A renewal executor: isConnected(), then EXPIRE.                          *)

Rest(i, state) ==
  /\ pool' = [pool EXCEPT ![i] = state]
  /\ timer' = [timer EXCEPT !["pool"][i] = IF state = "idle" THEN RenewWithin ELSE 0]

RenewCheck(i) ==
  /\ pool[i] = "idle" /\ timer["pool"][i] <= MaxLag
  /\ IF up THEN pool' = [pool EXCEPT ![i] = "checked"] /\ UNCHANGED timer
           ELSE Rest(i, "idle")
  /\ UNCHANGED <<link, ttl, main, complete, lost, current, faults>>

RenewExpire(i) ==
  /\ pool[i] \in {"checked", "last"}
  /\ ttl' = IF ttl = 0 THEN 0 ELSE Expire
  /\ Rest(i, IF pool[i] = "last" THEN "shut" ELSE "idle")
  /\ UNCHANGED <<link, main, complete, lost, current, faults>>

\* EXPIRE throws, executed or not: the executor drops the task and nobody is told.
RenewFails(i) ==
  /\ faults < MaxFaults
  /\ pool[i] \in {"checked", "last"}
  /\ Rest(i, IF pool[i] = "last" THEN "shut" ELSE "dead")
  /\ faults' = faults + 1
  /\ ttl' = ttl \/ ttl' = IF ttl = 0 THEN 0 ELSE Expire
  /\ UNCHANGED <<link, main, complete, lost, current>>

-----------------------------------------------------------------------------
Ticking(job, i) ==
  \/ job = "complete" /\ complete[i] = "due"
  \/ job = "lost" /\ lost[i] = "due"
  \/ job = "pool" /\ pool[i] \in {"idle", "checked", "last"}

Tick ==
  /\ \A job \in Job, i \in Conn : Ticking(job, i) => timer[job][i] > 0
  /\ ttl' = IF ttl = 0 THEN 0 ELSE ttl - 1
  /\ delay' = IF delay = 0 THEN 0 ELSE delay - 1
  /\ timer' = [job \in Job |-> [i \in Conn |->
                 IF Ticking(job, i) THEN timer[job][i] - 1 ELSE timer[job][i]]]
  /\ UNCHANGED <<link, pc, run, back, faults>>

ConnectServer == Wake \/ Get \/ Connect \/ Register
Callback(i) == Renew(i) \/ Subscribe(i) \/ Delete(i) \/ Shutdown(i)
Renewal(i) == RenewCheck(i) \/ RenewExpire(i)

Next == \/ ConnectServer \/ CallFails \/ Drop \/ Tick
        \/ \E i \in Conn : Callback(i) \/ Renewal(i) \/ RenewFails(i)

Spec == Init /\ [][Next]_vars

\* Every thread runs on and time passes; connections need not break.
FairSpec == /\ Spec
            /\ WF_vars(ConnectServer) /\ WF_vars(Tick)
            /\ \A i \in Conn : WF_vars(Callback(i)) /\ WF_vars(Renewal(i))

-----------------------------------------------------------------------------
\* The key is there as long as the connection it was set for, whatever late
\* callbacks of earlier connections delete or shut down.
Kept == up /\ registered /\ faults = 0 => ttl > 0

\* When connectServer() looks for the key with no connection and no DEL to come,
\* no key of an earlier connection is left to send it away for another round:
\* EXPIRE is shorter than the pause, although SETNX may come after the DEL.  Only
\* the run that follows init() without a pause may find the key of init().
RetryFindsKeyGone ==
  /\ pc = "get" /\ run = "later"
  /\ faults = 0 /\ \A i \in Conn : lost[i] # "due"
  => ttl = 0

\* connectComplete makes its executor while connectionLost, of the same or an
\* earlier connection, is not finished, or after it.
Overlap == \E i \in Conn : /\ complete[i] = "due"
                           /\ \/ lost[i] # "none"
                              \/ \E j \in Conn : lost[j] \in {"due", "deleted"}

\* Executors do not pile up: at most one renews, unless the callbacks overlapped
\* or a call failed.
OneRenewal ==
  [](~Overlap /\ faults = 0) =>
    [](Cardinality({i \in Conn : pool[i] \in {"idle", "checked"}}) <= 1)

\* Once connections stop breaking, a client whose init() returned is connected
\* for good, whatever calls have failed.
Reconnects == <>(run # "init") => <>[]up

\* If no call fails, it is also subscribed and has its key.
ComesOnline == [](faults = 0) => <>[](up /\ subscribed /\ ttl > 0)
=============================================================================

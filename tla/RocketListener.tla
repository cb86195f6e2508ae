--------------------------- MODULE RocketListener ---------------------------
(***************************************************************************)
(* rocketmq/core: AbstractRocketMQListener, which retries, hands over to an *)
(* error handler and, with RepeatConsumeProcessor, is meant to drop         *)
(* repeated deliveries.  A Consumer is a consuming thread of one group; the *)
(* push consumer and the broker are external: at-least-once delivery, one   *)
(* reply for a whole batch, reconsumeTimes counted per message.             *)
(***************************************************************************)
EXTENDS Naturals, Sequences, Functions

CONSTANTS Messages,      \* how many messages the topic gets
          Consumer,      \* consuming threads of the group
          Orderly,       \* MessageListenerOrderly or MessageListenerConcurrently
          BatchMax,      \* consumeMessageBatchMaxSize
          MaxReconsume,  \* getMaxReconsumeTimes() of the listener
          ConsumerMax,   \* maxReconsumeTimes of the push consumer
          MaxMoves       \* how many rebalances and crashes may happen

\* checkAndSet gives the consumer the listener's limit unless it has its own.
ASSUME SizeAssumption == /\ Messages \in Nat /\ BatchMax \in Nat \ {0}
                         /\ Orderly \in BOOLEAN /\ MaxMoves \in Nat
ASSUME LimitAssumption == /\ MaxReconsume \in Nat /\ ConsumerMax \in Nat
                          /\ MaxReconsume <= ConsumerMax

Msg == 1 .. Messages      \* in the order they were sent

VARIABLES times,    \* reconsumeTimes of each message at the broker
          fate,     \* ready for delivery, taken by a consumer, acked or dead
          batch,    \* per consumer: the messages of the call in progress
          pos,      \* the one onMessage works on
          pc,       \* where it is
          lost,     \* the queue went to another consumer meanwhile
          moves,    \* rebalances and crashes so far
          seen,     \* messages whose repeat key is in Redis
          done,     \* messages handleMessage returned for
          tried,    \* how often handleMessage threw, up to the limit
          errored   \* messages the error handler was called for

broker == <<times, fate, moves>>
call   == <<batch, pos, pc, lost>>
books  == <<seen, done, tried, errored>>
vars   == <<broker, call, books>>

PC == {"idle", "before", "handle", "after", "error", "success", "later"}
Entry == [msg : Msg, times : 0 .. ConsumerMax]   \* a MessageExt

Least(a, b) == IF a < b THEN a ELSE b

TypeOK ==
  /\ times \in [Msg -> 0 .. ConsumerMax]
  /\ fate \in [Msg -> {"ready", "taken", "acked", "dead"}]
  /\ pc \in [Consumer -> PC]
  /\ batch \in [Consumer -> Seq(Entry)]
  /\ \A c \in Consumer : Len(batch[c]) <= BatchMax
  /\ pos \in [Consumer -> 1 .. BatchMax]
  /\ \A c \in Consumer : pc[c] \notin {"idle", "success"} => pos[c] <= Len(batch[c])
  /\ lost \in [Consumer -> BOOLEAN]
  /\ moves \in 0 .. MaxMoves
  /\ tried \in [Msg -> 0 .. MaxReconsume + 1]
  /\ seen \subseteq Msg /\ done \subseteq Msg /\ errored \subseteq Msg

Init ==
  /\ times = [m \in Msg |-> 0]
  /\ fate = [m \in Msg |-> "ready"]
  /\ batch = [c \in Consumer |-> << >>]
  /\ pos = [c \in Consumer |-> 1]
  /\ pc = [c \in Consumer |-> "idle"]
  /\ lost = [c \in Consumer |-> FALSE]
  /\ moves = 0
  /\ seen = {} /\ done = {} /\ errored = {}
  /\ tried = [m \in Msg |-> 0]

-----------------------------------------------------------------------------
(* The broker and the push consumer.                                        *)

Unsettled == {m \in Msg : fate[m] \in {"ready", "taken"}}

\* An ordered queue is locked by one consumer and delivered from its head; the
\* concurrent consumer takes ready messages, first deliveries and retries from
\* different topics.
Deliverable(b) ==
  IF Orderly
  THEN /\ \A m \in Msg : fate[m] # "taken"
       /\ \A i \in DOMAIN b : \A m \in Unsettled :
            m < b[i] => \E j \in 1 .. i - 1 : b[j] = m
  ELSE \A i, j \in DOMAIN b : times[b[i]] = 0 <=> times[b[j]] = 0

Deliver(c) ==
  /\ pc[c] = "idle"
  /\ \E k \in 1 .. BatchMax :
       \E b \in [1 .. k -> {m \in Msg : fate[m] = "ready"}] :
         /\ IsInjective(b)
         /\ Deliverable(b)
         /\ batch' = [batch EXCEPT ![c] =
                        [i \in 1 .. k |-> [msg |-> b[i], times |-> times[b[i]]]]]
         /\ fate' = [m \in Msg |-> IF m \in Range(b) THEN "taken" ELSE fate[m]]
  /\ pos' = [pos EXCEPT ![c] = 1]
  /\ pc' = [pc EXCEPT ![c] = "before"]
  /\ UNCHANGED <<times, moves, lost, books>>

InBatch(c) == {batch[c][i].msg : i \in DOMAIN batch[c]}

\* The broker takes the queue away; an ordered one is redelivered as new, for
\* the retries of an ordered message are counted in its consumer's memory.
Reassign(c) ==
  /\ moves < MaxMoves
  /\ pc[c] # "idle" /\ ~lost[c]
  /\ moves' = moves + 1
  /\ fate' = [m \in Msg |-> IF m \in InBatch(c) THEN "ready" ELSE fate[m]]
  /\ times' = [m \in Msg |-> IF Orderly /\ m \in InBatch(c) THEN 0 ELSE times[m]]

Rebalance(c) ==
  /\ Reassign(c)
  /\ lost' = [lost EXCEPT ![c] = TRUE]
  /\ UNCHANGED <<batch, pos, pc, books>>

EndCall(c) ==
  /\ pc' = [pc EXCEPT ![c] = "idle"]
  /\ batch' = [batch EXCEPT ![c] = << >>]
  /\ pos' = [pos EXCEPT ![c] = 1]
  /\ lost' = [lost EXCEPT ![c] = FALSE]

Crash(c) == Reassign(c) /\ EndCall(c) /\ UNCHANGED books

\* CONSUME_SUCCESS or SUCCESS settles the batch, but not a lost one.
ReplySuccess(c) ==
  /\ pc[c] = "success"
  /\ fate' = [m \in Msg |-> IF m \in InBatch(c) /\ ~lost[c] THEN "acked" ELSE fate[m]]
  /\ EndCall(c)
  /\ UNCHANGED <<times, moves, books>>

\* RECONSUME_LATER or SUSPEND_CURRENT_QUEUE_A_MOMENT sends the whole batch
\* again; what had all its retries goes to the dead letter topic.
ReplyLater(c) ==
  /\ pc[c] = "later"
  /\ LET again == IF lost[c] THEN {} ELSE InBatch(c)
         spent == {m \in again : times[m] >= ConsumerMax}
     IN  /\ times' = [m \in Msg |-> IF m \in again
                                    THEN Least(times[m] + 1, ConsumerMax)
                                    ELSE times[m]]
         /\ fate' = [m \in Msg |-> IF m \notin again THEN fate[m]
                                   ELSE IF m \notin spent THEN "ready"
                                   ELSE IF Orderly /\ spent # again THEN "ready"
                                   ELSE "dead"]
  /\ EndCall(c)
  /\ UNCHANGED <<moves, books>>

-----------------------------------------------------------------------------
(* The listener: consumeMessage runs onMessage over the batch.              *)

Current(c) == batch[c][pos[c]].msg
Retries(c) == batch[c][pos[c]].times

\* Mutant: the loop runs one index too far.
AdvanceTooFar(c) ==
  IF pos[c] <= Len(batch[c])
  THEN /\ pos' = [pos EXCEPT ![c] = @ + 1]
       /\ pc' = [pc EXCEPT ![c] = "before"]
  ELSE /\ pc' = [pc EXCEPT ![c] = "success"]
       /\ UNCHANGED pos

\* onMessage returned: the next message, or the end of the loop.
Advance(c) ==
  IF pos[c] < Len(batch[c])
  THEN /\ pos' = [pos EXCEPT ![c] = @ + 1]
       /\ pc' = [pc EXCEPT ![c] = "before"]
  ELSE /\ pc' = [pc EXCEPT ![c] = "success"]
       /\ UNCHANGED pos

\* before: a message whose key exists is dropped, unless Redis fails.
Before(c) ==
  /\ pc[c] = "before"
  /\ \E redisAnswers \in BOOLEAN :
       IF redisAnswers /\ Current(c) \in seen
       THEN Advance(c)
       ELSE pc' = [pc EXCEPT ![c] = "handle"] /\ UNCHANGED pos
  /\ UNCHANGED <<broker, batch, lost, books>>

HandleReturns(c) ==
  /\ pc[c] = "handle"
  /\ done' = done \cup {Current(c)}
  /\ pc' = [pc EXCEPT ![c] = "after"]
  /\ UNCHANGED <<broker, batch, pos, lost, seen, tried, errored>>

\* Mutants: one retry too many; one too few; no limit.
RetryOneMore(c) == Retries(c) <= MaxReconsume
RetryOneLess(c) == Retries(c) + 1 < MaxReconsume
RetryAlways(c)  == Retries(c) \in Nat

MayRetry(c) == Retries(c) < MaxReconsume

Failed(c) ==
  /\ pc[c] = "handle"
  /\ tried' = [tried EXCEPT ![Current(c)] = Least(@ + 1, MaxReconsume + 1)]

\* Mutant: the loop goes on with the rest of the batch after a failure, and
\* replies for the batch from its last message.
ThrowGoesOn(c) ==
  /\ Failed(c)
  /\ MayRetry(c)
  /\ IF pos[c] < Len(batch[c]) THEN Advance(c)
     ELSE pc' = [pc EXCEPT ![c] = "later"] /\ UNCHANGED pos
  /\ UNCHANGED <<broker, batch, lost, seen, done, errored>>

\* doConvertMessage or handleMessage throws: the whole call is to be repeated,
HandleThrows(c) ==
  /\ Failed(c)
  /\ MayRetry(c)
  /\ pc' = [pc EXCEPT ![c] = "later"]
  /\ UNCHANGED <<broker, batch, pos, lost, seen, done, errored>>

\* or, after the last retry, the error handler is to be called.
HandleGivesUp(c) ==
  /\ Failed(c)
  /\ ~MayRetry(c)
  /\ pc' = [pc EXCEPT ![c] = "error"]
  /\ UNCHANGED <<broker, batch, pos, lost, seen, done, errored>>

\* after() calls beforeHandle, which only looks the key up.
After(c) ==
  /\ pc[c] = "after"
  /\ Advance(c)
  /\ UNCHANGED <<broker, batch, lost, books>>

\* What the error handler throws is swallowed.
Error(c) ==
  /\ pc[c] = "error"
  /\ errored' = errored \cup {Current(c)}
  /\ Advance(c)
  /\ UNCHANGED <<broker, batch, lost, seen, done, tried>>

Listen(c) ==
  \/ Before(c) \/ HandleReturns(c) \/ HandleThrows(c) \/ HandleGivesUp(c)
  \/ After(c) \/ Error(c)
  \/ ReplySuccess(c) \/ ReplyLater(c)

Next == \E c \in Consumer : Listen(c) \/ Deliver(c) \/ Rebalance(c) \/ Crash(c)

Spec == Init /\ [][Next]_vars

\* The broker keeps delivering and a consuming thread keeps running.
FairSpec ==
  /\ Spec
  /\ \A c \in Consumer : WF_vars(Listen(c))
  /\ WF_vars(\E c \in Consumer : Deliver(c))

-----------------------------------------------------------------------------
\* No message is acknowledged and forgotten: what left the queue was handled
\* or shown to the error handler, by this consumer or by an earlier one.
NoSilentDrop == \A m \in Msg : fate[m] = "acked" => m \in done \cup errored

\* onMessage stops throwing before the broker gives up, so no message reaches
\* the dead letter topic behind the error handler's back.
NoDeadLetter == \A m \in Msg : fate[m] # "dead"

\* A message is given up only after its own handling failed once and then as
\* often again as it may be redelivered.
RetryBudget ==
  \A m \in Msg : m \in errored \/ fate[m] = "dead" => tried[m] > MaxReconsume

\* With an ordered listener, handling of a message starts only when every
\* earlier one has been handled or given up, across retries, rebalances and
\* crashes.
Started(m) == m \in done \/ tried[m] > 0
InOrder ==
  Orderly => \A m, n \in Msg : m < n /\ Started(n) => m \in done \cup errored

\* At-least-once delivery (Delivery): seen from outside, a message leaves the
\* queue only after the listener has dealt with it, and never comes back.
status == [m \in Msg |->
             IF fate[m] \in {"acked", "dead"} THEN "gone"
             ELSE IF m \in done \cup errored THEN "handled" ELSE "waiting"]

D == INSTANCE Delivery WITH Msg <- Msg, status <- status
AtLeastOnce == D!Spec

\* Repeat check: a message that was handled is not let through again.
RepeatRejected ==
  [][\A c \in Consumer :
       pc[c] = "before" /\ pc'[c] = "handle" => Current(c) \notin done]_vars

\* Every message is in the end handled or shown to the error handler, however
\* often it fails, and then leaves the queue: none blocks those behind it.
EveryMessageSettled ==
  \A m \in Msg : <>(fate[m] = "acked" /\ m \in done \cup errored)
=============================================================================

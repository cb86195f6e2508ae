------------------------ MODULE RocketListenerProof -------------------------
(***************************************************************************)
(* The listener of RocketListener, for any number of messages, consuming    *)
(* threads, retries, rebalances and crashes.                                *)
(***************************************************************************)
EXTENDS RocketListener, TLAPS

LEMMA TypeInit == Init => TypeOK
  BY SizeAssumption, LimitAssumption DEF Init, TypeOK, PC, Entry

\* A thread at work has a current message.
LEMMA AtWork ==
  ASSUME TypeOK, NEW c \in Consumer, pc[c] \notin {"idle", "success"}
  PROVE  /\ pos[c] \in DOMAIN batch[c]
         /\ Current(c) \in Msg /\ Retries(c) \in 0 .. ConsumerMax
<1>1. pos[c] \in 1 .. Len(batch[c])
  BY SizeAssumption DEF TypeOK
<1>2. batch[c][pos[c]] \in Entry
  BY <1>1 DEF TypeOK
<1> QED BY <1>1, <1>2 DEF TypeOK, Entry, Current, Retries

\* Advance() keeps the position within the batch.
LEMMA AdvanceType ==
  ASSUME TypeOK, NEW c \in Consumer, pc[c] \notin {"idle", "success"}, Advance(c),
         UNCHANGED <<broker, batch, lost>>,
         seen' \subseteq Msg, done' \subseteq Msg, errored' \subseteq Msg,
         tried' \in [Msg -> 0 .. MaxReconsume + 1]
  PROVE  TypeOK'
<1>0. /\ pos[c] \in 1 .. Len(batch[c]) /\ Len(batch[c]) \in 1 .. BatchMax
      /\ pos \in [Consumer -> 1 .. BatchMax] /\ pc \in [Consumer -> PC]
      /\ \A d \in Consumer : pc[d] \notin {"idle", "success"} => pos[d] <= Len(batch[d])
  BY SizeAssumption DEF TypeOK
<1>1. CASE /\ pos[c] < Len(batch[c])
           /\ pos' = [pos EXCEPT ![c] = pos[c] + 1] /\ pc' = [pc EXCEPT ![c] = "before"]
  <2>1. pos[c] + 1 \in 1 .. BatchMax /\ pos[c] + 1 <= Len(batch[c])
    BY <1>0, <1>1, SizeAssumption
  <2>2. pos' \in [Consumer -> 1 .. BatchMax] /\ pc' \in [Consumer -> PC]
    BY <1>0, <1>1, <2>1 DEF PC
  <2>3. \A d \in Consumer : pc'[d] \notin {"idle", "success"} => pos'[d] <= Len(batch[d])
    BY <1>0, <1>1, <2>1
  <2> QED BY <2>2, <2>3 DEF TypeOK, broker
<1>2. CASE pc' = [pc EXCEPT ![c] = "success"] /\ UNCHANGED pos
  BY <1>0, <1>2 DEF TypeOK, PC, broker
<1> QED BY <1>1, <1>2 DEF Advance

LEMMA TypeStep == TypeOK /\ [Next]_vars => TypeOK'
<1> SUFFICES ASSUME TypeOK, [Next]_vars PROVE TypeOK'
  OBVIOUS
<1> USE SizeAssumption, LimitAssumption
<1>1. ASSUME NEW c \in Consumer, Deliver(c) PROVE TypeOK'
  <2> PICK k \in 1 .. BatchMax : \E b \in [1 .. k -> Msg] :
        /\ batch' = [batch EXCEPT ![c] = [i \in 1 .. k |-> [msg |-> b[i], times |-> times[b[i]]]]]
        /\ fate' = [m \in Msg |-> IF m \in Range(b) THEN "taken" ELSE fate[m]]
    <3>1. {m \in Msg : fate[m] = "ready"} \subseteq Msg
      OBVIOUS
    <3>2. \A k \in 1 .. BatchMax : [1 .. k -> {m \in Msg : fate[m] = "ready"}] \subseteq [1 .. k -> Msg]
      BY <3>1
    <3> QED BY <1>1, <3>2 DEF Deliver
  <2> PICK b \in [1 .. k -> Msg] :
        /\ batch' = [batch EXCEPT ![c] = [i \in 1 .. k |-> [msg |-> b[i], times |-> times[b[i]]]]]
        /\ fate' = [m \in Msg |-> IF m \in Range(b) THEN "taken" ELSE fate[m]]
    OBVIOUS
  <2>1. [i \in 1 .. k |-> [msg |-> b[i], times |-> times[b[i]]]] \in Seq(Entry)
    BY DEF TypeOK, Entry
  <2>2. Len([i \in 1 .. k |-> [msg |-> b[i], times |-> times[b[i]]]]) = k
    OBVIOUS
  <2>3. batch' \in [Consumer -> Seq(Entry)] /\ \A d \in Consumer : Len(batch'[d]) <= BatchMax
    BY <2>1, <2>2 DEF TypeOK
  <2>4. \A d \in Consumer : pc'[d] \notin {"idle", "success"} => pos'[d] <= Len(batch'[d])
    BY <1>1, <2>2 DEF Deliver, TypeOK
  <2> QED BY <1>1, <2>3, <2>4 DEF Deliver, TypeOK, PC, books
\* EndCall() leaves a consumer without a batch.
<1>2. ASSUME NEW c \in Consumer, EndCall(c), UNCHANGED books,
             times' \in [Msg -> 0 .. ConsumerMax], moves' \in 0 .. MaxMoves,
             fate' \in [Msg -> {"ready", "taken", "acked", "dead"}]
      PROVE  TypeOK'
  <2>1. batch' \in [Consumer -> Seq(Entry)] /\ \A d \in Consumer : Len(batch'[d]) <= BatchMax
    BY <1>2 DEF EndCall, TypeOK
  <2>2. \A d \in Consumer : pc'[d] \notin {"idle", "success"} => pos'[d] <= Len(batch'[d])
    BY <1>2 DEF EndCall, TypeOK
  <2> QED BY <1>2, <2>1, <2>2 DEF EndCall, TypeOK, PC, books
<1>3. ASSUME NEW c \in Consumer, Reassign(c)
      PROVE  /\ times' \in [Msg -> 0 .. ConsumerMax] /\ moves' \in 0 .. MaxMoves
             /\ fate' \in [Msg -> {"ready", "taken", "acked", "dead"}]
  BY <1>3 DEF Reassign, TypeOK
<1>4. ASSUME NEW c \in Consumer, Rebalance(c) PROVE TypeOK'
  BY <1>3, <1>4 DEF Rebalance, TypeOK, books
<1>5. ASSUME NEW c \in Consumer, Crash(c) PROVE TypeOK'
  BY <1>2, <1>3, <1>5 DEF Crash
<1>6. ASSUME NEW c \in Consumer, ReplySuccess(c) PROVE TypeOK'
  <2>1. fate' \in [Msg -> {"ready", "taken", "acked", "dead"}]
    BY <1>6 DEF ReplySuccess, TypeOK
  <2> QED BY <1>2, <1>6, <2>1 DEF ReplySuccess, TypeOK
<1>7. ASSUME NEW c \in Consumer, ReplyLater(c) PROVE TypeOK'
  <2>1. fate' \in [Msg -> {"ready", "taken", "acked", "dead"}]
    BY <1>7 DEF ReplyLater, TypeOK
  <2>2. times' \in [Msg -> 0 .. ConsumerMax]
    BY <1>7 DEF ReplyLater, TypeOK, Least
  <2> QED BY <1>2, <1>7, <2>1, <2>2 DEF ReplyLater, TypeOK
<1>8. ASSUME NEW c \in Consumer, Before(c) \/ After(c) \/ Error(c) PROVE TypeOK'
  <2>0. pc[c] \notin {"idle", "success"}
    BY <1>8 DEF Before, After, Error
  <2>1. CASE Advance(c)
    <3>1. /\ UNCHANGED <<broker, batch, lost, seen, done, tried>>
          /\ errored' \subseteq Msg
      BY <1>8, <2>0, AtWork DEF Before, After, Error, books, TypeOK
    <3> QED BY <2>0, <2>1, <3>1, AdvanceType DEF TypeOK
  <2>2. CASE pc' = [pc EXCEPT ![c] = "handle"] /\ UNCHANGED pos /\ Before(c)
    BY <2>0, <2>2 DEF Before, TypeOK, PC, broker, books
  <2> QED BY <1>8, <2>1, <2>2 DEF Before, After, Error
<1>9. ASSUME NEW c \in Consumer, HandleReturns(c) PROVE TypeOK'
  <2>1. Current(c) \in Msg
    BY <1>9, AtWork DEF HandleReturns
  <2> QED BY <1>9, <2>1 DEF HandleReturns, TypeOK, PC, broker
<1>10. ASSUME NEW c \in Consumer, HandleThrows(c) \/ HandleGivesUp(c) PROVE TypeOK'
  <2>1. pc[c] = "handle" /\ Current(c) \in Msg
    BY <1>10, AtWork DEF HandleThrows, HandleGivesUp, Failed
  <2>2. tried' \in [Msg -> 0 .. MaxReconsume + 1]
    <3>1. tried \in [Msg -> 0 .. MaxReconsume + 1]
      BY DEF TypeOK
    <3>2. Least(tried[Current(c)] + 1, MaxReconsume + 1) \in 0 .. MaxReconsume + 1
      BY <2>1, <3>1 DEF Least
    <3> QED BY <1>10, <3>1, <3>2 DEF HandleThrows, HandleGivesUp, Failed
  <2> QED BY <1>10, <2>1, <2>2 DEF HandleThrows, HandleGivesUp, TypeOK, PC, broker
<1>11. CASE UNCHANGED vars
  BY <1>11 DEF vars, broker, call, books, TypeOK
<1> QED
  BY <1>1, <1>4, <1>5, <1>6, <1>7, <1>8, <1>9, <1>10, <1>11 DEF Next, Listen

\* The variables keep to their types, and a thread at work is within its batch.
THEOREM TypeCorrect == Spec => []TypeOK
  BY TypeInit, TypeStep, PTL DEF Spec

-----------------------------------------------------------------------------
\* Where a message is dealt with: what onMessage has worked off of a batch has
\* been handled or shown to the error handler, also by a thread that has lost its
\* queue; and only a message that was handled is known as a repeated one.
Settled == done \cup errored

Worked(c) ==
  /\ \A i \in DOMAIN batch[c] : i < pos[c] \/ pc[c] = "success" => batch[c][i].msg \in Settled
  /\ pc[c] = "after" => Current(c) \in done

WorkInv == /\ \A c \in Consumer : Worked(c)
           /\ seen \subseteq done
           /\ NoSilentDrop

\* The end of onMessage: the current message has been dealt with.
LEMMA AdvanceWorked ==
  ASSUME TypeOK, NEW c \in Consumer, pc[c] \notin {"idle", "success"}, Advance(c),
         Worked(c), Current(c) \in Settled', Settled \subseteq Settled', batch' = batch
  PROVE  Worked(c)'
<1>1. pos[c] \in Nat /\ DOMAIN batch[c] = 1 .. Len(batch[c]) /\ pos[c] <= Len(batch[c])
      /\ Len(batch[c]) \in Nat
  BY DEF TypeOK
<1>2. \A i \in DOMAIN batch[c] : i <= pos[c] => batch[c][i].msg \in Settled'
  BY <1>1 DEF Worked, Current
<1>3. CASE pos[c] < Len(batch[c])
  <2>1. pos'[c] = pos[c] + 1 /\ pc'[c] = "before"
    BY <1>3 DEF Advance, TypeOK
  <2> QED BY <1>1, <1>2, <2>1 DEF Worked
<1>4. CASE ~(pos[c] < Len(batch[c]))
  <2>1. pos'[c] = pos[c] /\ pc'[c] = "success"
    BY <1>4 DEF Advance, TypeOK
  <2> QED BY <1>1, <1>2, <1>4, <2>1 DEF Worked
<1> QED BY <1>3, <1>4

LEMMA WorkInit == Init => WorkInv
  BY DEF Init, WorkInv, Worked, NoSilentDrop, Settled

LEMMA WorkStep == TypeOK /\ WorkInv /\ [Next]_vars => WorkInv'
<1> SUFFICES ASSUME TypeOK, WorkInv, [Next]_vars PROVE WorkInv'
  OBVIOUS
\* A thread that does not move keeps what it has, for the books only grow.
<1>1. ASSUME NEW d \in Consumer, Settled \subseteq Settled', done \subseteq done',
             batch'[d] = batch[d], pos'[d] = pos[d], pc'[d] = pc[d]
      PROVE  Worked(d)'
  BY <1>1 DEF WorkInv, Worked, Current
<1>2. ASSUME NEW c \in Consumer, Settled \subseteq Settled', done \subseteq done',
             seen' = seen, fate' = fate, batch' = batch,
             \A d \in Consumer \ {c} : pos'[d] = pos[d] /\ pc'[d] = pc[d],
             Worked(c)'
      PROVE  WorkInv'
  <2>1. \A d \in Consumer : Worked(d)'
    BY <1>1, <1>2
  <2> QED BY <1>2, <2>1 DEF WorkInv, NoSilentDrop, Settled
\* A consumer with a new batch, or none, has worked on nothing.
<1>3. ASSUME NEW c \in Consumer, UNCHANGED books, pc'[c] \in {"idle", "before"}, pos'[c] = 1,
             \A d \in Consumer \ {c} : /\ batch'[d] = batch[d] /\ pos'[d] = pos[d]
                                       /\ pc'[d] = pc[d],
             \A i \in DOMAIN batch'[c] : i \in Nat \ {0},
             NoSilentDrop'
      PROVE  WorkInv'
  <2>1. Worked(c)'
    BY <1>3 DEF Worked
  <2>2. \A d \in Consumer : Worked(d)'
    BY <1>1, <1>3, <2>1 DEF books, Settled
  <2> QED BY <1>3, <2>2 DEF WorkInv, books
<1>4. ASSUME NEW c \in Consumer, Deliver(c) PROVE WorkInv'
  <2>1. UNCHANGED books /\ pc'[c] = "before" /\ pos'[c] = 1
    BY <1>4 DEF Deliver, TypeOK
  <2>2. \A d \in Consumer \ {c} : batch'[d] = batch[d] /\ pos'[d] = pos[d] /\ pc'[d] = pc[d]
    BY <1>4 DEF Deliver, TypeOK
  <2>3. \A i \in DOMAIN batch'[c] : i \in Nat \ {0}
    BY <1>4, TypeStep DEF TypeOK
  <2>4. NoSilentDrop'
    BY <1>4 DEF Deliver, WorkInv, NoSilentDrop, books
  <2> QED BY <1>3, <2>1, <2>2, <2>3, <2>4
<1>5. ASSUME NEW c \in Consumer, EndCall(c), UNCHANGED books, NoSilentDrop' PROVE WorkInv'
  <2>1. \A d \in Consumer \ {c} : batch'[d] = batch[d] /\ pos'[d] = pos[d] /\ pc'[d] = pc[d]
    BY <1>5 DEF EndCall, TypeOK
  <2>2. pc'[c] = "idle" /\ pos'[c] = 1 /\ batch'[c] = << >>
    BY <1>5 DEF EndCall, TypeOK
  <2> QED BY <1>3, <1>5, <2>1, <2>2
<1>6. ASSUME NEW c \in Consumer, Rebalance(c) PROVE WorkInv'
  <2>1. UNCHANGED <<batch, pos, pc, books>>
    BY <1>6 DEF Rebalance
  <2>2. NoSilentDrop'
    BY <1>6, <2>1 DEF Rebalance, Reassign, WorkInv, NoSilentDrop, books
  <2>3. \A d \in Consumer : Worked(d)'
    BY <1>1, <2>1 DEF books, Settled
  <2> QED BY <2>1, <2>2, <2>3 DEF WorkInv, books
<1>7. ASSUME NEW c \in Consumer, Crash(c) PROVE WorkInv'
  <2>1. NoSilentDrop'
    BY <1>7 DEF Crash, Reassign, WorkInv, NoSilentDrop, books
  <2> QED BY <1>5, <1>7, <2>1 DEF Crash
\* The whole batch has been worked off when it is acknowledged.
<1>8. ASSUME NEW c \in Consumer, ReplySuccess(c) PROVE WorkInv'
  <2>1. \A m \in InBatch(c) : m \in Settled
    BY <1>8 DEF ReplySuccess, WorkInv, Worked, InBatch
  <2>2. NoSilentDrop'
    BY <1>8, <2>1 DEF ReplySuccess, WorkInv, NoSilentDrop, Settled, books
  <2> QED BY <1>5, <1>8, <2>2 DEF ReplySuccess
<1>9. ASSUME NEW c \in Consumer, ReplyLater(c) PROVE WorkInv'
  <2>1. UNCHANGED books /\ \A m \in Msg : fate'[m] = "acked" => fate[m] = "acked"
    BY <1>9 DEF ReplyLater
  <2>2. NoSilentDrop'
    BY <2>1 DEF WorkInv, NoSilentDrop, books
  <2> QED BY <1>5, <1>9, <2>2 DEF ReplyLater
<1>10. ASSUME NEW c \in Consumer, pc[c] \notin {"idle", "success"}, Advance(c),
              Current(c) \in Settled', Settled \subseteq Settled', done \subseteq done',
              UNCHANGED <<seen, fate, batch>>
       PROVE  WorkInv'
  <2>1. Worked(c)'
    BY <1>10, AdvanceWorked DEF WorkInv
  <2>2. \A d \in Consumer \ {c} : pos'[d] = pos[d] /\ pc'[d] = pc[d]
    BY <1>10 DEF Advance, TypeOK
  <2> QED BY <1>2, <1>10, <2>1, <2>2
<1>11. ASSUME NEW c \in Consumer, pc' = [pc EXCEPT ![c] = "handle"], pos' = pos, Before(c)
       PROVE  WorkInv'
  <2>1. Worked(c)'
    BY <1>11 DEF Before, WorkInv, Worked, Current, TypeOK, books, Settled
  <2> QED BY <1>2, <1>11, <2>1 DEF Before, TypeOK, broker, books, Settled
\* Nothing is known as repeated that was not handled: what before() drops is done.
<1>12. ASSUME NEW c \in Consumer, Before(c) PROVE WorkInv'
  <2>1. CASE Current(c) \in seen /\ Advance(c)
    <3>1. Current(c) \in Settled' /\ UNCHANGED <<seen, fate, batch, done, errored>>
      BY <1>12, <2>1 DEF Before, WorkInv, Settled, books, broker
    <3> QED BY <1>10, <1>12, <2>1, <3>1 DEF Before, Settled
  <2> QED BY <1>11, <1>12, <2>1 DEF Before
<1>13. ASSUME NEW c \in Consumer, After(c) PROVE WorkInv'
  <2>1. Current(c) \in Settled' /\ UNCHANGED <<seen, fate, batch, done, errored>>
    BY <1>13 DEF After, WorkInv, Worked, Settled, books, broker
  <2> QED BY <1>10, <1>13, <2>1 DEF After, Settled
<1>14. ASSUME NEW c \in Consumer, Error(c) PROVE WorkInv'
  <2>1. Current(c) \in Settled' /\ Settled \subseteq Settled' /\ UNCHANGED <<seen, fate, batch, done>>
    BY <1>14 DEF Error, Settled, broker
  <2> QED BY <1>10, <1>14, <2>1 DEF Error
<1>15. ASSUME NEW c \in Consumer, HandleReturns(c) PROVE WorkInv'
  <2>1. pc'[c] = "after" /\ pos' = pos /\ batch' = batch /\ fate' = fate /\ seen' = seen
    BY <1>15 DEF HandleReturns, TypeOK, broker
  <2>2. Settled \subseteq Settled' /\ done \subseteq done' /\ Current(c) \in done'
    BY <1>15 DEF HandleReturns, Settled
  <2>3. Worked(c)'
    BY <1>15, <2>1, <2>2 DEF HandleReturns, WorkInv, Worked, Current
  <2> QED BY <1>2, <1>15, <2>1, <2>2, <2>3 DEF HandleReturns, TypeOK
<1>16. ASSUME NEW c \in Consumer, HandleThrows(c) \/ HandleGivesUp(c) PROVE WorkInv'
  <2>1. /\ pc[c] = "handle" /\ pc'[c] \in {"later", "error"} /\ pos' = pos
        /\ UNCHANGED <<batch, fate, seen, done, errored>>
        /\ \A d \in Consumer \ {c} : pc'[d] = pc[d]
    BY <1>16 DEF HandleThrows, HandleGivesUp, Failed, TypeOK, broker
  <2>2. Worked(c)'
    BY <2>1 DEF WorkInv, Worked, Current, Settled
  <2> QED BY <1>2, <2>1, <2>2 DEF Settled
<1>17. CASE UNCHANGED vars
  BY <1>17 DEF vars, broker, call, books, WorkInv, Worked, Current, NoSilentDrop, Settled
<1> QED
  BY <1>4, <1>6, <1>7, <1>8, <1>9, <1>12, <1>13, <1>14, <1>15, <1>16, <1>17
  DEF Next, Listen

\* No message is acknowledged that was neither handled nor shown to the error
\* handler, whatever its batch, thread or queue went through.
THEOREM NothingDropped == Spec => []NoSilentDrop
<1>1. WorkInv => NoSilentDrop
  BY DEF WorkInv
<1> QED
  BY <1>1, WorkInit, WorkStep, TypeCorrect, PTL DEF Spec

-----------------------------------------------------------------------------
\* Who owns what: the messages of a call whose queue has not been taken away are
\* taken, by this consumer alone, with the reconsume times they were delivered
\* with; and only a message with retries left sends its batch back.
Owns(c) == ~lost[c] => \A i \in DOMAIN batch[c] : /\ fate[batch[c][i].msg] = "taken"
                                                  /\ times[batch[c][i].msg] = batch[c][i].times

OwnInv ==
  /\ \A c \in Consumer : Owns(c) /\ (pc[c] = "later" => Retries(c) < MaxReconsume)
  /\ \A c, d \in Consumer :
       ~lost[c] /\ ~lost[d] /\ c # d => InBatch(c) \cap InBatch(d) = {}

LEMMA OwnInit == Init => OwnInv
  BY DEF Init, OwnInv, Owns, InBatch

\* A call's end, or the loss of its queue, changes no other call's messages.
LEMMA OwnRelease ==
  ASSUME TypeOK, OwnInv, NEW c \in Consumer,
         lost'[c] \/ batch'[c] = << >>, pc'[c] = "later" => pc[c] = "later" /\ batch'[c] = batch[c] /\ pos'[c] = pos[c],
         \A d \in Consumer \ {c} : /\ batch'[d] = batch[d] /\ pos'[d] = pos[d]
                                   /\ pc'[d] = pc[d] /\ lost'[d] = lost[d],
         \A m \in Msg : m \notin InBatch(c) \/ lost[c] => fate'[m] = fate[m] /\ times'[m] = times[m]
  PROVE  OwnInv'
<1>1. \A d \in Consumer : \A i \in DOMAIN batch[d] : batch[d][i].msg \in Msg /\ batch[d][i].msg \in InBatch(d)
  <2> SUFFICES ASSUME NEW d \in Consumer, NEW i \in DOMAIN batch[d]
               PROVE  batch[d][i].msg \in Msg /\ batch[d][i].msg \in InBatch(d)
    OBVIOUS
  <2>1. batch[d][i] \in Entry
    BY DEF TypeOK
  <2> QED BY <2>1 DEF Entry, InBatch
<1>2. ASSUME NEW d \in Consumer \ {c}
      PROVE  Owns(d)' /\ (pc'[d] = "later" => Retries(d)' < MaxReconsume)
  <2>1. ASSUME ~lost[d], NEW i \in DOMAIN batch[d]
        PROVE  fate'[batch[d][i].msg] = "taken" /\ times'[batch[d][i].msg] = batch[d][i].times
    <3>1. lost[c] \/ batch[d][i].msg \notin InBatch(c)
      BY <1>1, <2>1 DEF OwnInv
    <3> QED BY <1>1, <2>1, <3>1 DEF OwnInv, Owns
  <2> QED BY <2>1 DEF OwnInv, Owns, Retries
<1>3. Owns(c)' /\ (pc'[c] = "later" => Retries(c)' < MaxReconsume)
  BY DEF OwnInv, Owns, Retries
<1>4. ASSUME NEW d \in Consumer, NEW e \in Consumer, ~lost'[d], ~lost'[e], d # e
      PROVE  InBatch(d)' \cap InBatch(e)' = {}
  <2>1. \A f \in Consumer \ {c} : InBatch(f)' = InBatch(f)
    BY DEF InBatch
  <2>2. CASE d = c \/ e = c
    <3>1. InBatch(c)' = {}
      BY <1>4, <2>2 DEF InBatch
    <3> QED BY <2>2, <3>1
  <2>3. CASE d # c /\ e # c
    BY <1>4, <2>1, <2>3 DEF OwnInv
  <2> QED BY <2>2, <2>3
<1> QED BY <1>2, <1>3, <1>4 DEF OwnInv

\* Deliver() gives out ready messages, which nobody owns.
LEMMA OwnDeliver ==
  ASSUME TypeOK, OwnInv, NEW c \in Consumer, Deliver(c)
  PROVE  OwnInv'
<1> PICK k \in 1 .. BatchMax : \E b \in [1 .. k -> {m \in Msg : fate[m] = "ready"}] :
      /\ batch' = [batch EXCEPT ![c] = [i \in 1 .. k |-> [msg |-> b[i], times |-> times[b[i]]]]]
      /\ fate' = [m \in Msg |-> IF m \in Range(b) THEN "taken" ELSE fate[m]]
  BY DEF Deliver
<1> PICK b \in [1 .. k -> {m \in Msg : fate[m] = "ready"}] :
      /\ batch' = [batch EXCEPT ![c] = [i \in 1 .. k |-> [msg |-> b[i], times |-> times[b[i]]]]]
      /\ fate' = [m \in Msg |-> IF m \in Range(b) THEN "taken" ELSE fate[m]]
  OBVIOUS
<1>1. /\ UNCHANGED <<times, lost>> /\ pc'[c] = "before"
      /\ \A d \in Consumer \ {c} : batch'[d] = batch[d] /\ pos'[d] = pos[d] /\ pc'[d] = pc[d]
  BY DEF Deliver, TypeOK
<1>2. DOMAIN batch'[c] = 1 .. k /\ \A i \in 1 .. k : batch'[c][i].msg = b[i] /\ batch'[c][i].times = times[b[i]]
  BY DEF TypeOK
<1>3. \A i \in 1 .. k : b[i] \in Msg /\ fate[b[i]] = "ready" /\ b[i] \in Range(b)
  BY DEF Range
<1>4. Owns(c)'
  BY <1>1, <1>2, <1>3 DEF Owns
<1>5. ASSUME NEW d \in Consumer \ {c}
      PROVE  Owns(d)' /\ (pc'[d] = "later" => Retries(d)' < MaxReconsume)
  <2>1. ASSUME NEW i \in DOMAIN batch[d]
        PROVE  batch[d][i].msg \in Msg
    <3>1. batch[d][i] \in Entry
      BY <2>1 DEF TypeOK
    <3> QED BY <3>1 DEF Entry
  <2>2. ASSUME NEW i \in DOMAIN batch[d], ~lost[d]
        PROVE  /\ fate'[batch[d][i].msg] = "taken"
               /\ times'[batch[d][i].msg] = batch[d][i].times
    BY <1>1, <2>1, <2>2 DEF OwnInv, Owns
  <2>3. Owns(d)'
    <3>1. batch'[d] = batch[d] /\ lost'[d] = lost[d]
      BY <1>1
    <3> QED BY <2>2, <3>1 DEF Owns
  <2>4. Retries(d)' = Retries(d) /\ (pc'[d] = "later" <=> pc[d] = "later")
    BY <1>1 DEF Retries
  <2> QED BY <2>3, <2>4 DEF OwnInv
<1>6. ASSUME NEW d \in Consumer \ {c}, ~lost[d]
      PROVE  InBatch(c)' \cap InBatch(d)' = {}
  <2>1. \A m \in InBatch(c)' : fate[m] = "ready"
    <3> SUFFICES ASSUME NEW m \in InBatch(c)' PROVE fate[m] = "ready"
      OBVIOUS
    <3> PICK i \in DOMAIN batch'[c] : m = batch'[c][i].msg
      BY DEF InBatch
    <3> QED BY <1>2, <1>3
  <2>2. \A m \in InBatch(d) : fate[m] = "taken"
    <3>1. \A i \in DOMAIN batch[d] : fate[batch[d][i].msg] = "taken"
      BY <1>6 DEF OwnInv, Owns
    <3> QED BY <3>1 DEF InBatch
  <2>3. InBatch(d)' = InBatch(d)
    BY <1>1 DEF InBatch
  <2> QED BY <2>1, <2>2, <2>3
<1>7. \A d, e \in Consumer : ~lost'[d] /\ ~lost'[e] /\ d # e => InBatch(d)' \cap InBatch(e)' = {}
  <2> SUFFICES ASSUME NEW d \in Consumer, NEW e \in Consumer, ~lost[d], ~lost[e], d # e
               PROVE  InBatch(d)' \cap InBatch(e)' = {}
    BY <1>1
  <2>1. CASE d = c
    BY <1>6, <2>1
  <2>2. CASE e = c
    BY <1>6, <2>2
  <2>3. CASE d # c /\ e # c
    <3>1. InBatch(d)' = InBatch(d) /\ InBatch(e)' = InBatch(e)
      BY <1>1, <2>3 DEF InBatch
    <3> QED BY <3>1 DEF OwnInv
  <2> QED BY <2>1, <2>2, <2>3
<1> QED BY <1>1, <1>4, <1>5, <1>7 DEF OwnInv

LEMMA OwnStep == TypeOK /\ OwnInv /\ [Next]_vars => OwnInv'
<1> SUFFICES ASSUME TypeOK, OwnInv, [Next]_vars PROVE OwnInv'
  OBVIOUS
\* The listener's own steps change no ownership.
<1>1. ASSUME UNCHANGED <<times, fate, batch, lost>>,
             \A d \in Consumer : pc'[d] = "later" =>
               pos'[d] = pos[d] /\ (pc[d] = "later" \/ Retries(d) < MaxReconsume)
      PROVE  OwnInv'
  <2>1. \A d \in Consumer : Owns(d)' /\ InBatch(d)' = InBatch(d)
    BY <1>1 DEF OwnInv, Owns, InBatch
  <2>2. \A d \in Consumer : pc'[d] = "later" => Retries(d)' < MaxReconsume
    BY <1>1 DEF OwnInv, Retries
  <2> QED BY <1>1, <2>1, <2>2 DEF OwnInv
<1>2. ASSUME NEW c \in Consumer, Deliver(c) PROVE OwnInv'
  BY <1>2, OwnDeliver
<1>3. ASSUME NEW c \in Consumer, Rebalance(c) PROVE OwnInv'
  <2>1. lost'[c] /\ UNCHANGED <<batch, pos, pc>> /\ \A d \in Consumer \ {c} : lost'[d] = lost[d]
    BY <1>3 DEF Rebalance, TypeOK
  <2>2. \A m \in Msg : m \notin InBatch(c) => fate'[m] = fate[m] /\ times'[m] = times[m]
    BY <1>3 DEF Rebalance, Reassign
  <2>3. ~lost[c]
    BY <1>3 DEF Rebalance, Reassign
  <2> QED BY <2>1, <2>2, <2>3, OwnRelease
<1>4. ASSUME NEW c \in Consumer, EndCall(c),
             \A m \in Msg : m \notin InBatch(c) \/ lost[c] => fate'[m] = fate[m] /\ times'[m] = times[m]
      PROVE  OwnInv'
  <2>1. batch'[c] = << >> /\ pc'[c] = "idle"
    BY <1>4 DEF EndCall, TypeOK
  <2>2. \A d \in Consumer \ {c} : /\ batch'[d] = batch[d] /\ pos'[d] = pos[d]
                                  /\ pc'[d] = pc[d] /\ lost'[d] = lost[d]
    BY <1>4 DEF EndCall, TypeOK
  <2> QED BY <1>4, <2>1, <2>2, OwnRelease
<1>5. ASSUME NEW c \in Consumer, Crash(c) PROVE OwnInv'
  <2>1. \A m \in Msg : m \notin InBatch(c) \/ lost[c] => fate'[m] = fate[m] /\ times'[m] = times[m]
    BY <1>5 DEF Crash, Reassign
  <2> QED BY <1>4, <1>5, <2>1 DEF Crash
<1>6. ASSUME NEW c \in Consumer, ReplySuccess(c) PROVE OwnInv'
  <2>1. \A m \in Msg : m \notin InBatch(c) \/ lost[c] => fate'[m] = fate[m] /\ times'[m] = times[m]
    BY <1>6 DEF ReplySuccess
  <2> QED BY <1>4, <1>6, <2>1 DEF ReplySuccess
<1>7. ASSUME NEW c \in Consumer, ReplyLater(c) PROVE OwnInv'
  <2>1. \A m \in Msg : m \notin InBatch(c) \/ lost[c] => fate'[m] = fate[m] /\ times'[m] = times[m]
    BY <1>7 DEF ReplyLater
  <2> QED BY <1>4, <1>7, <2>1 DEF ReplyLater
<1>8. ASSUME NEW c \in Consumer, Before(c) \/ After(c) \/ Error(c) PROVE OwnInv'
  <2>1. /\ UNCHANGED <<times, fate, batch, lost>>
        /\ \A d \in Consumer \ {c} : pc'[d] = pc[d] /\ pos'[d] = pos[d]
        /\ pc'[c] # "later"
    BY <1>8 DEF Before, After, Error, Advance, TypeOK, broker
  <2> QED BY <1>1, <2>1
<1>9. ASSUME NEW c \in Consumer, HandleReturns(c) \/ HandleThrows(c) \/ HandleGivesUp(c) PROVE OwnInv'
  <2>1. /\ UNCHANGED <<times, fate, batch, lost, pos>>
        /\ \A d \in Consumer \ {c} : pc'[d] = pc[d]
        /\ pc'[c] = "later" => Retries(c) < MaxReconsume
    BY <1>9 DEF HandleReturns, HandleThrows, HandleGivesUp, MayRetry, TypeOK, broker
  <2> QED BY <1>1, <2>1
<1>10. CASE UNCHANGED vars
  BY <1>1, <1>10 DEF vars, broker, call
<1> QED
  BY <1>2, <1>3, <1>5, <1>6, <1>7, <1>8, <1>9, <1>10 DEF Next, Listen

LEMMA Owned == Spec => []OwnInv
  BY OwnInit, OwnStep, TypeCorrect, PTL DEF Spec

-----------------------------------------------------------------------------
\* Retries run out in the listener before they do at the broker, as long as the
\* whole batch is not resent for one of its messages without being asked first:
\* an ordered queue stays with the consumer, a concurrent batch has one message.
Single == Orderly \/ BatchMax = 1

\* The message that asks for another delivery may be delivered again.
LEMMA NoneSpent ==
  ASSUME TypeOK, OwnInv, Single, NEW c \in Consumer, ReplyLater(c)
  PROVE  \A m \in Msg : fate'[m] = "dead" => fate[m] = "dead"
<1> USE SizeAssumption, LimitAssumption
<1>1. pc[c] = "later" /\ pos[c] \in DOMAIN batch[c] /\ Retries(c) < MaxReconsume /\ Current(c) \in Msg
      /\ Retries(c) \in 0 .. ConsumerMax
  BY AtWork DEF ReplyLater, OwnInv
<1>2. Current(c) \in InBatch(c)
  BY <1>1 DEF InBatch, Current
<1>3. ~lost[c] => times[Current(c)] = Retries(c)
  BY <1>1 DEF OwnInv, Owns, Current, Retries
<1>4. BatchMax = 1 => InBatch(c) = {Current(c)}
  <2> SUFFICES ASSUME BatchMax = 1 PROVE InBatch(c) = {Current(c)}
    OBVIOUS
  <2>1. DOMAIN batch[c] = {pos[c]}
    BY <1>1 DEF TypeOK
  <2> QED BY <2>1 DEF InBatch, Current
<1> DEFINE again == IF lost[c] THEN {} ELSE InBatch(c)
           spent == {m \in again : times[m] >= ConsumerMax}
<1>5. ~lost[c] => ~(times[Current(c)] >= ConsumerMax)
  BY <1>1, <1>3
<1>6. again # {} => Current(c) \in again /\ Current(c) \notin spent
  BY <1>2, <1>5, Zenon
<1>7. \A m \in Msg : fate'[m] = "dead" =>
        fate[m] = "dead" \/ (m \in spent /\ ~(Orderly /\ spent # again))
  BY DEF ReplyLater
<1>8. Orderly \/ spent = {}
  BY <1>4, <1>6 DEF Single
<1> HIDE DEF again, spent
<1>9. spent # again \/ again = {}
  BY <1>6
<1> QED BY <1>7, <1>8, <1>9

\* No message reaches the dead letter topic behind the error handler's back.
THEOREM NoneDead ==
  ASSUME Single PROVE Spec => []NoDeadLetter
<1>1. Init => NoDeadLetter
  BY DEF Init, NoDeadLetter
<1>2. TypeOK /\ OwnInv /\ NoDeadLetter /\ [Next]_vars => NoDeadLetter'
  <2> SUFFICES ASSUME TypeOK, OwnInv, NoDeadLetter, [Next]_vars PROVE NoDeadLetter'
    OBVIOUS
  <2>1. ASSUME NEW c \in Consumer, ReplyLater(c) PROVE NoDeadLetter'
    BY <2>1, NoneSpent DEF NoDeadLetter
  <2>2. ASSUME NEW c \in Consumer, Deliver(c) PROVE NoDeadLetter'
    BY <2>2 DEF Deliver, NoDeadLetter
  <2>3. ASSUME NEW c \in Consumer, Rebalance(c) \/ Crash(c) PROVE NoDeadLetter'
    BY <2>3 DEF Rebalance, Crash, Reassign, NoDeadLetter
  <2>4. ASSUME NEW c \in Consumer, ReplySuccess(c) PROVE NoDeadLetter'
    BY <2>4 DEF ReplySuccess, NoDeadLetter
  <2>5. ASSUME fate' = fate PROVE NoDeadLetter'
    BY <2>5 DEF NoDeadLetter
  <2>6. ASSUME NEW c \in Consumer,
               \/ Before(c) \/ HandleReturns(c) \/ HandleThrows(c)
               \/ HandleGivesUp(c) \/ After(c) \/ Error(c)
        PROVE  fate' = fate
    BY <2>6 DEF Before, HandleReturns, HandleThrows, HandleGivesUp, After, Error, broker
  <2>7. CASE UNCHANGED vars
    BY <2>5, <2>7 DEF vars, broker
  <2> QED BY <2>1, <2>2, <2>3, <2>4, <2>5, <2>6, <2>7 DEF Next, Listen
<1> QED BY <1>1, <1>2, TypeCorrect, Owned, PTL DEF Spec

-----------------------------------------------------------------------------
\* Seen from outside.
Gone(m) == fate[m] \in {"acked", "dead"}

LEMMA StatusSame ==
  ASSUME UNCHANGED <<done, errored>>, \A m \in Msg : Gone(m)' <=> Gone(m)
  PROVE  status' = status
<1>1. \A m \in Msg : (fate'[m] \in {"acked", "dead"}) = (fate[m] \in {"acked", "dead"})
  BY DEF Gone
<1> QED BY <1>1 DEF status

\* A call in progress, whose queue was not taken away, has messages to deal with.
LEMMA BatchTaken ==
  ASSUME TypeOK, OwnInv, NEW c \in Consumer, ~lost[c], NEW m \in InBatch(c)
  PROVE  m \in Msg /\ fate[m] = "taken"
<1> PICK i \in DOMAIN batch[c] : m = batch[c][i].msg
  BY DEF InBatch
<1>1. batch[c][i] \in Entry
  BY DEF TypeOK
<1> QED BY <1>1 DEF Entry, OwnInv, Owns

\* A step of the listener on its current message deals with that message alone.
LEMMA DealsWithCurrent ==
  ASSUME NEW c \in Consumer, Current(c) \in Msg, fate' = fate,
         done' \cup errored' = done \cup errored \cup {Current(c)}
  PROVE  [D!Next]_status
<1> DEFINE m == Current(c)
<1> HIDE DEF m
<1>1. m \in Msg /\ done' \cup errored' = done \cup errored \cup {m}
  BY DEF m
<1>2. CASE status[m] = "waiting"
  <2>1. status' = [n \in Msg |-> IF n \in {m} THEN "handled" ELSE status[n]]
    BY <1>1, <1>2 DEF status
  <2>2. D!Handle({m})
    BY <1>2, <2>1 DEF D!Handle, D!Become
  <2> QED BY <1>1, <2>2 DEF D!Next
<1>3. CASE status[m] # "waiting"
  <2>1. status' = status
    BY <1>1, <1>3 DEF status
  <2> QED BY <2>1
<1> QED BY <1>2, <1>3

\* The listener implements at-least-once delivery: a message leaves its queue
\* only after it was dealt with, and does not come back.
THEOREM Implements ==
  ASSUME Single PROVE Spec => AtLeastOnce
<1>1. Init => D!Init
  BY DEF Init, D!Init, status
<1>2. TypeOK /\ WorkInv /\ OwnInv /\ [Next]_vars => [D!Next]_status
  <2> SUFFICES ASSUME TypeOK, WorkInv, OwnInv, [Next]_vars PROVE [D!Next]_status
    OBVIOUS
  <2>1. ASSUME NEW c \in Consumer, Deliver(c) PROVE status' = status
    <3>1. \A m \in Msg : fate'[m] = fate[m] \/ (fate[m] = "ready" /\ fate'[m] = "taken")
      BY <2>1 DEF Deliver, Range
    <3> QED BY <2>1, <3>1, StatusSame DEF Deliver, Gone, books
  <2>2. ASSUME NEW c \in Consumer, Rebalance(c) \/ Crash(c) PROVE status' = status
    <3>1. ~lost[c] /\ fate' = [m \in Msg |-> IF m \in InBatch(c) THEN "ready" ELSE fate[m]]
      BY <2>2 DEF Rebalance, Crash, Reassign
    <3>2. \A m \in Msg : Gone(m)' <=> Gone(m)
      BY <3>1, BatchTaken DEF Gone
    <3> QED BY <2>2, <3>2, StatusSame DEF Rebalance, Crash, books
  <2>3. ASSUME NEW c \in Consumer, ReplyLater(c) PROVE status' = status
    <3>1. \A m \in Msg : fate'[m] = fate[m] \/ (m \in InBatch(c) /\ ~lost[c] /\ fate'[m] \in {"ready", "dead"})
      BY <2>3 DEF ReplyLater
    <3>2. \A m \in Msg : Gone(m)' <=> Gone(m)
      BY <2>3, <3>1, BatchTaken, NoneSpent DEF Gone
    <3> QED BY <2>3, <3>2, StatusSame DEF ReplyLater, books
  <2>4. ASSUME NEW c \in Consumer, ReplySuccess(c) PROVE [D!Next]_status
    <3> DEFINE S == IF lost[c] THEN {} ELSE InBatch(c)
    <3>1. \A m \in S : m \in Msg /\ fate[m] = "taken"
      BY BatchTaken
    <3>2. \A m \in S : m \in done \cup errored
      <4>1. \A i \in DOMAIN batch[c] : batch[c][i].msg \in done \cup errored
        BY <2>4 DEF ReplySuccess, WorkInv, Worked, Settled
      <4> QED BY <4>1 DEF InBatch
    <3>3. /\ done' = done /\ errored' = errored
          /\ fate' = [m \in Msg |-> IF m \in S THEN "acked" ELSE fate[m]]
      BY <2>4 DEF ReplySuccess, books
    <3> HIDE DEF S
    <3>4. \A m \in S : status[m] = "handled"
      BY <3>1, <3>2 DEF status
    <3>5. status' = [m \in Msg |-> IF m \in S THEN "gone" ELSE status[m]]
      BY <3>3 DEF status
    <3>6. S \in SUBSET Msg
      BY <3>1
    <3> QED BY <3>4, <3>5, <3>6 DEF D!Next, D!Remove, D!Become
  <2>5. ASSUME NEW c \in Consumer, Before(c) \/ After(c) \/ HandleThrows(c) \/ HandleGivesUp(c)
        PROVE  status' = status
    BY <2>5, StatusSame
    DEF Before, After, HandleThrows, HandleGivesUp, broker, books, Gone
  <2>6. ASSUME NEW c \in Consumer, HandleReturns(c) \/ Error(c) PROVE [D!Next]_status
    <3>1. Current(c) \in Msg
      BY <2>6, AtWork DEF HandleReturns, Error
    <3>2. fate' = fate /\ done' \cup errored' = done \cup errored \cup {Current(c)}
      BY <2>6 DEF HandleReturns, Error, broker
    <3> QED BY <3>1, <3>2, DealsWithCurrent
  <2>7. CASE UNCHANGED vars
    BY <2>7 DEF vars, broker, books, status
  <2> QED BY <2>1, <2>2, <2>3, <2>4, <2>5, <2>6, <2>7 DEF Next, Listen
<1>3. Spec => []WorkInv
  BY WorkInit, WorkStep, TypeCorrect, PTL DEF Spec
<1> QED BY <1>1, <1>2, <1>3, TypeCorrect, Owned, PTL DEF Spec, AtLeastOnce, D!Spec

-----------------------------------------------------------------------------
\* The reconsume times the broker counts are failures of the message itself as
\* long as it is delivered alone.
BudgetInv ==
  /\ \A m \in Msg : times[m] <= tried[m]
  /\ \A c \in Consumer : \A i \in DOMAIN batch[c] : batch[c][i].times <= tried[batch[c][i].msg]
  /\ \A c \in Consumer : /\ pc[c] = "later" => Retries(c) < tried[Current(c)]
                         /\ pc[c] = "error" => tried[Current(c)] > MaxReconsume
  /\ \A m \in errored : tried[m] > MaxReconsume

LEMMA BudgetInit == Init => BudgetInv
  BY DEF Init, BudgetInv

\* What an entry of a batch is.
LEMMA EntryType ==
  ASSUME TypeOK
  PROVE  \A c \in Consumer : \A i \in DOMAIN batch[c] :
           batch[c][i].msg \in Msg /\ batch[c][i].times \in 0 .. ConsumerMax
<1> SUFFICES ASSUME NEW c \in Consumer, NEW i \in DOMAIN batch[c]
             PROVE  batch[c][i].msg \in Msg /\ batch[c][i].times \in 0 .. ConsumerMax
  OBVIOUS
<1>1. batch[c][i] \in Entry
  BY DEF TypeOK
<1> QED BY <1>1 DEF Entry

LEMMA BudgetStep ==
  ASSUME BatchMax = 1, TypeOK, OwnInv, BudgetInv, [Next]_vars
  PROVE  BudgetInv'
<1> USE SizeAssumption, LimitAssumption
\* A step of a consumer that leaves it idle, with a fresh batch or as it was.
<1>1. ASSUME NEW c \in Consumer, UNCHANGED books,
             \A m \in Msg : times'[m] <= tried[m],
             \A i \in DOMAIN batch'[c] : batch'[c][i].times <= tried[batch'[c][i].msg],
             \/ pc'[c] \in {"idle", "before"}
             \/ pc'[c] = pc[c] /\ pos'[c] = pos[c] /\ batch'[c] = batch[c],
             \A d \in Consumer \ {c} : /\ batch'[d] = batch[d] /\ pos'[d] = pos[d]
                                       /\ pc'[d] = pc[d]
      PROVE  BudgetInv'
  <2>1. \A d \in Consumer : \A i \in DOMAIN batch'[d] : batch'[d][i].times <= tried[batch'[d][i].msg]
    BY <1>1 DEF BudgetInv
  <2>2. ASSUME NEW d \in Consumer
        PROVE  /\ pc'[d] = "later" => Retries(d)' < tried[Current(d)']
               /\ pc'[d] = "error" => tried[Current(d)'] > MaxReconsume
    <3>1. CASE pc'[d] = pc[d] /\ pos'[d] = pos[d] /\ batch'[d] = batch[d]
      BY <3>1 DEF BudgetInv, Retries, Current
    <3> QED BY <1>1, <3>1
  <2> QED BY <1>1, <2>1, <2>2 DEF BudgetInv, books
<1>2. ASSUME NEW c \in Consumer, EndCall(c), UNCHANGED books, \A m \in Msg : times'[m] <= tried[m]
      PROVE  BudgetInv'
  <2>1. batch'[c] = << >> /\ pc'[c] = "idle"
    BY <1>2 DEF EndCall, TypeOK
  <2>2. \A d \in Consumer \ {c} : batch'[d] = batch[d] /\ pos'[d] = pos[d] /\ pc'[d] = pc[d]
    BY <1>2 DEF EndCall, TypeOK
  <2> QED BY <1>1, <1>2, <2>1, <2>2
<1>3. ASSUME NEW c \in Consumer, Deliver(c) PROVE BudgetInv'
  <2>1. /\ UNCHANGED <<times, books>> /\ pc'[c] = "before"
        /\ \A d \in Consumer \ {c} : batch'[d] = batch[d] /\ pos'[d] = pos[d] /\ pc'[d] = pc[d]
    BY <1>3 DEF Deliver, TypeOK
  <2>2. \A i \in DOMAIN batch'[c] : batch'[c][i].msg \in Msg /\ batch'[c][i].times = times[batch'[c][i].msg]
    BY <1>3 DEF Deliver, TypeOK
  <2> QED BY <1>1, <2>1, <2>2 DEF BudgetInv
<1>4. ASSUME NEW c \in Consumer, Reassign(c) PROVE \A m \in Msg : times'[m] <= tried[m]
  BY <1>4 DEF Reassign, BudgetInv, TypeOK
<1>5. ASSUME NEW c \in Consumer, Rebalance(c) PROVE BudgetInv'
  BY <1>1, <1>4, <1>5 DEF Rebalance, BudgetInv
<1>6. ASSUME NEW c \in Consumer, Crash(c) PROVE BudgetInv'
  BY <1>2, <1>4, <1>6 DEF Crash
<1>7. ASSUME NEW c \in Consumer, ReplySuccess(c) PROVE BudgetInv'
  BY <1>2, <1>7 DEF ReplySuccess, BudgetInv
\* The failed message is the only one of its batch.
<1>8. ASSUME NEW c \in Consumer, ReplyLater(c) PROVE BudgetInv'
  <2>0. pc[c] = "later" /\ pos[c] \in DOMAIN batch[c] /\ Current(c) \in Msg
        /\ Retries(c) \in 0 .. ConsumerMax
    BY <1>8, AtWork DEF ReplyLater
  <2>1. DOMAIN batch[c] = {pos[c]}
    BY <2>0 DEF TypeOK
  <2>2. InBatch(c) = {Current(c)}
    BY <2>1 DEF InBatch, Current
  <2>3. ~lost[c] => times[Current(c)] = Retries(c)
    BY <2>0 DEF OwnInv, Owns, Current, Retries
  <2>4. Retries(c) < tried[Current(c)]
    BY <2>0 DEF BudgetInv
  <2>5. \A m \in Msg : times'[m] = times[m]
                       \/ (m \in InBatch(c) /\ ~lost[c] /\ times'[m] = Least(times[m] + 1, ConsumerMax))
    BY <1>8 DEF ReplyLater
  <2>6. \A m \in Msg : times'[m] <= tried[m]
    <3> SUFFICES ASSUME NEW m \in Msg PROVE times'[m] <= tried[m]
      OBVIOUS
    <3>1. times[m] <= tried[m] /\ tried[m] \in Nat
      BY DEF BudgetInv, TypeOK
    <3>2. CASE times'[m] = times[m]
      BY <3>1, <3>2
    <3>3. CASE m \in InBatch(c) /\ ~lost[c] /\ times'[m] = Least(times[m] + 1, ConsumerMax)
      <4>1. m = Current(c)
        BY <2>2, <3>3
      <4> QED BY <2>0, <2>3, <2>4, <3>1, <3>3, <4>1 DEF Least
    <3> QED BY <2>5, <3>2, <3>3
  <2> QED BY <1>2, <1>8, <2>6 DEF ReplyLater
\* The listener's own steps: the failures grow, a call fails for the last time.
<1>9. ASSUME NEW c \in Consumer, UNCHANGED <<times, batch>>,
             \A d \in Consumer \ {c} : pos'[d] = pos[d] /\ pc'[d] = pc[d],
             \A m \in Msg : tried'[m] >= tried[m] /\ tried'[m] \in Nat,
             pc'[c] = "later" => Retries(c)' < tried'[Current(c)'],
             pc'[c] = "error" => tried'[Current(c)'] > MaxReconsume,
             \A m \in errored' : tried'[m] > MaxReconsume
      PROVE  BudgetInv'
  <2>1. \A m \in Msg : times[m] <= tried'[m]
    BY <1>9 DEF BudgetInv, TypeOK
  <2>2. \A d \in Consumer : \A i \in DOMAIN batch[d] : batch[d][i].times <= tried'[batch[d][i].msg]
    <3> SUFFICES ASSUME NEW d \in Consumer, NEW i \in DOMAIN batch[d]
                 PROVE  batch[d][i].times <= tried'[batch[d][i].msg]
      OBVIOUS
    <3>1. /\ batch[d][i].msg \in Msg /\ batch[d][i].times \in Nat
          /\ batch[d][i].times <= tried[batch[d][i].msg]
      BY EntryType DEF BudgetInv
    <3> QED BY <1>9, <3>1 DEF TypeOK
  <2>3. ASSUME NEW d \in Consumer \ {c}
        PROVE  /\ pc'[d] = "later" => Retries(d)' < tried'[Current(d)']
               /\ pc'[d] = "error" => tried'[Current(d)'] > MaxReconsume
    <3> SUFFICES ASSUME pc[d] \in {"later", "error"}
                 PROVE  /\ pc'[d] = "later" => Retries(d)' < tried'[Current(d)']
                        /\ pc'[d] = "error" => tried'[Current(d)'] > MaxReconsume
      BY <1>9
    <3>1. Current(d) \in Msg /\ Retries(d) \in Nat
      BY AtWork
    <3>2. Current(d)' = Current(d) /\ Retries(d)' = Retries(d) /\ pc'[d] = pc[d]
      BY <1>9 DEF Current, Retries
    <3>3. tried[Current(d)] \in Nat /\ tried'[Current(d)] >= tried[Current(d)] /\ tried'[Current(d)] \in Nat
      BY <1>9, <3>1 DEF TypeOK
    <3> QED BY <3>1, <3>2, <3>3 DEF BudgetInv
  <2> QED BY <1>9, <2>1, <2>2, <2>3 DEF BudgetInv
<1>10. ASSUME NEW c \in Consumer, Before(c) \/ After(c) \/ HandleReturns(c) PROVE BudgetInv'
  <2>1. /\ UNCHANGED <<times, batch, tried, errored>> /\ pc'[c] \notin {"later", "error"}
        /\ \A d \in Consumer \ {c} : pos'[d] = pos[d] /\ pc'[d] = pc[d]
    BY <1>10 DEF Before, After, HandleReturns, Advance, TypeOK, broker, books
  <2>2. \A m \in Msg : tried'[m] >= tried[m] /\ tried'[m] \in Nat
    BY <2>1 DEF TypeOK
  <2>3. \A m \in errored' : tried'[m] > MaxReconsume
    BY <2>1 DEF BudgetInv
  <2> QED BY <1>9, <2>1, <2>2, <2>3
<1>11. ASSUME NEW c \in Consumer, Error(c) PROVE BudgetInv'
  <2>1. /\ UNCHANGED <<times, batch, tried>> /\ pc'[c] \notin {"later", "error"}
        /\ \A d \in Consumer \ {c} : pos'[d] = pos[d] /\ pc'[d] = pc[d]
    BY <1>11 DEF Error, Advance, TypeOK, broker
  <2>2. \A m \in Msg : tried'[m] >= tried[m] /\ tried'[m] \in Nat
    BY <2>1 DEF TypeOK
  <2>3. \A m \in errored' : tried'[m] > MaxReconsume
    BY <1>11, <2>1 DEF Error, BudgetInv
  <2> QED BY <1>9, <2>1, <2>2, <2>3
<1>12. ASSUME NEW c \in Consumer, HandleThrows(c) \/ HandleGivesUp(c) PROVE BudgetInv'
  <2>a. pc[c] = "handle"
    BY <1>12 DEF HandleThrows, HandleGivesUp, Failed
  <2>b. Current(c) \in Msg /\ Retries(c) \in Nat
    BY <2>a, AtWork
  <2>0. /\ pc[c] = "handle" /\ Current(c) \in Msg /\ Retries(c) \in Nat
        /\ tried[Current(c)] \in 0 .. MaxReconsume + 1
    BY <2>a, <2>b DEF TypeOK
  <2>1. /\ UNCHANGED <<times, batch, pos, errored>>
        /\ \A d \in Consumer \ {c} : pos'[d] = pos[d] /\ pc'[d] = pc[d]
        /\ pc'[c] = "later" => Retries(c) < MaxReconsume
        /\ pc'[c] = "error" => ~(Retries(c) < MaxReconsume)
    BY <1>12 DEF HandleThrows, HandleGivesUp, MayRetry, TypeOK, broker
  <2>2. tried' = [tried EXCEPT ![Current(c)] = Least(tried[Current(c)] + 1, MaxReconsume + 1)]
    BY <1>12 DEF HandleThrows, HandleGivesUp, Failed
  <2>3. tried'[Current(c)] = Least(tried[Current(c)] + 1, MaxReconsume + 1)
    BY <2>0, <2>2 DEF TypeOK
  <2>4. \A m \in Msg : tried'[m] >= tried[m] /\ tried'[m] \in Nat
    <3> SUFFICES ASSUME NEW m \in Msg PROVE tried'[m] >= tried[m] /\ tried'[m] \in Nat
      OBVIOUS
    <3>1. CASE m = Current(c)
      BY <2>0, <2>3, <3>1 DEF Least
    <3>2. CASE m # Current(c)
      BY <2>2, <3>2 DEF TypeOK
    <3> QED BY <3>1, <3>2
  <2>5. Retries(c) <= tried[Current(c)]
    <3>1. pos[c] \in DOMAIN batch[c]
      BY <2>0, AtWork
    <3> QED BY <3>1 DEF BudgetInv, Retries, Current
  <2>6. Current(c)' = Current(c) /\ Retries(c)' = Retries(c)
    BY <2>1 DEF Current, Retries
  <2>7. /\ pc'[c] = "later" => Retries(c)' < tried'[Current(c)']
        /\ pc'[c] = "error" => tried'[Current(c)'] > MaxReconsume
    BY <2>0, <2>1, <2>3, <2>5, <2>6 DEF Least
  <2>8. \A m \in errored' : tried'[m] > MaxReconsume
    <3> SUFFICES ASSUME NEW m \in errored PROVE tried'[m] > MaxReconsume
      BY <2>1
    <3>1. m \in Msg /\ tried[m] > MaxReconsume /\ tried[m] \in Nat
      BY DEF BudgetInv, TypeOK
    <3> QED BY <2>4, <3>1
  <2> QED BY <1>9, <2>1, <2>4, <2>7, <2>8
<1>13. CASE UNCHANGED vars
  BY <1>13 DEF vars, broker, call, books, BudgetInv, Current, Retries
<1> QED
  BY <1>3, <1>5, <1>6, <1>7, <1>8, <1>10, <1>11, <1>12, <1>13 DEF Next, Listen

\* With one message to a call, a message is given up only after it failed as often
\* as the listener allows.
THEOREM FailedOften ==
  ASSUME BatchMax = 1 PROVE Spec => []RetryBudget
<1>1. TypeOK /\ OwnInv /\ BudgetInv /\ [Next]_vars => BudgetInv'
  BY BudgetStep
<1>2. BudgetInv /\ NoDeadLetter => RetryBudget
  BY DEF BudgetInv, NoDeadLetter, RetryBudget
<1>3. Spec => []NoDeadLetter
  BY NoneDead DEF Single
<1> QED BY <1>1, <1>2, <1>3, BudgetInit, TypeCorrect, Owned, PTL DEF Spec

-----------------------------------------------------------------------------
\* An ordered call holds the unsettled messages from the head of the queue on,
\* also when the queue was taken away from it.
Ordered(c) ==
  \A i \in DOMAIN batch[c] : \A m \in Msg :
    m < batch[c][i].msg => m \in Settled \/ \E j \in 1 .. i - 1 : batch[c][j].msg = m

OrderInv == /\ \A c \in Consumer : Ordered(c)
            /\ \A m, n \in Msg : m < n /\ Started(n) => m \in Settled

LEMMA OrderInit == Init => OrderInv
  BY DEF Init, OrderInv, Ordered, Started

\* When a message is handled, those before it have been dealt with.
LEMMA CurrentIsNext ==
  ASSUME TypeOK, WorkInv, OrderInv, NEW c \in Consumer, pc[c] \notin {"idle", "success"},
         NEW m \in Msg, m < Current(c)
  PROVE  m \in Settled
<1>1. pos[c] \in 1 .. Len(batch[c]) /\ DOMAIN batch[c] = 1 .. Len(batch[c])
  BY AtWork DEF TypeOK
<1>2. CASE m \notin Settled
  <2> PICK j \in 1 .. pos[c] - 1 : batch[c][j].msg = m
    BY <1>1, <1>2 DEF OrderInv, Ordered, Current
  <2>1. j \in DOMAIN batch[c] /\ j < pos[c]
    BY <1>1
  <2> QED BY <2>1 DEF WorkInv, Worked
<1> QED BY <1>2

LEMMA OrderStep ==
  ASSUME Orderly, TypeOK, WorkInv, NoDeadLetter, OrderInv, [Next]_vars
  PROVE  OrderInv'
\* What is settled stays so: batches that stay, or end, keep their order.
<1>1. ASSUME Settled \subseteq Settled', \A d \in Consumer : batch'[d] \in {batch[d], << >>},
             \A m, n \in Msg : m < n /\ Started(n)' => m \in Settled'
      PROVE  OrderInv'
  <2>1. \A d \in Consumer : Ordered(d)'
    BY <1>1 DEF OrderInv, Ordered
  <2> QED BY <1>1, <2>1 DEF OrderInv
<1>2. ASSUME UNCHANGED <<done, errored, tried>>,
             \A d \in Consumer : batch'[d] \in {batch[d], << >>}
      PROVE  OrderInv'
  BY <1>1, <1>2 DEF OrderInv, Settled, Started
<1>3. ASSUME NEW c \in Consumer, Deliver(c) PROVE OrderInv'
  <2> PICK k \in 1 .. BatchMax : \E b \in [1 .. k -> {m \in Msg : fate[m] = "ready"}] :
        /\ Deliverable(b)
        /\ batch' = [batch EXCEPT ![c] = [i \in 1 .. k |-> [msg |-> b[i], times |-> times[b[i]]]]]
    BY <1>3 DEF Deliver
  <2> PICK b \in [1 .. k -> {m \in Msg : fate[m] = "ready"}] :
        /\ Deliverable(b)
        /\ batch' = [batch EXCEPT ![c] = [i \in 1 .. k |-> [msg |-> b[i], times |-> times[b[i]]]]]
    OBVIOUS
  <2>1. UNCHANGED <<done, errored, tried>>
    BY <1>3 DEF Deliver, books
  <2>2. DOMAIN batch'[c] = 1 .. k /\ \A i \in 1 .. k : batch'[c][i].msg = b[i]
    BY DEF TypeOK
  <2>3. ASSUME NEW i \in 1 .. k, NEW m \in Msg, m < b[i], m \notin Settled
        PROVE  \E j \in 1 .. i - 1 : b[j] = m
    <3>1. fate[m] \notin {"acked", "dead"}
      BY <2>3 DEF WorkInv, NoSilentDrop, Settled, NoDeadLetter
    <3>2. m \in Unsettled
      BY <3>1 DEF TypeOK, Unsettled
    <3> QED BY <2>3, <3>2 DEF Deliverable
  <2>4. Ordered(c)'
    <3>1. \A i \in 1 .. k : \A m \in Msg :
            m < b[i] => m \in Settled \/ \E j \in 1 .. i - 1 : batch'[c][j].msg = m
      <4> SUFFICES ASSUME NEW i \in 1 .. k, NEW m \in Msg, m < b[i], m \notin Settled
                   PROVE  \E j \in 1 .. i - 1 : batch'[c][j].msg = m
        OBVIOUS
      <4> PICK j \in 1 .. i - 1 : b[j] = m
        BY <2>3
      <4>1. j \in 1 .. k /\ batch'[c][j].msg = b[j]
        BY <2>2
      <4> QED BY <4>1
    <3>2. Settled' = Settled
      BY <2>1 DEF Settled
    <3>3. DOMAIN batch'[c] = 1 .. k /\ \A i \in 1 .. k : batch'[c][i].msg = b[i]
      BY <2>2
    <3>4. ASSUME NEW i \in DOMAIN batch'[c], NEW m \in Msg, m < batch'[c][i].msg
          PROVE  m \in Settled' \/ \E j \in 1 .. i - 1 : batch'[c][j].msg = m
      <4>1. i \in 1 .. k /\ batch'[c][i].msg = b[i]
        BY <3>3, Zenon
      <4>2. m < b[i]
        BY <3>4, <4>1, Zenon
      <4>3. m \in Settled \/ \E j \in 1 .. i - 1 : batch'[c][j].msg = m
        BY <3>1, <4>1, <4>2, Zenon
      <4> QED BY <3>2, <4>3, Zenon
    <3> QED BY <3>4 DEF Ordered
  <2>5. \A d \in Consumer \ {c} : batch'[d] = batch[d]
    BY DEF TypeOK
  <2>6. \A d \in Consumer : Ordered(d)'
    <3> SUFFICES ASSUME NEW d \in Consumer \ {c} PROVE Ordered(d)'
      BY <2>4
    <3>1. batch'[d] = batch[d] /\ Settled' = Settled /\ Ordered(d)
      BY <2>1, <2>5 DEF OrderInv, Settled
    <3> QED BY <3>1 DEF Ordered
  <2> QED BY <2>1, <2>6 DEF OrderInv, Started, Settled
<1>4. ASSUME NEW c \in Consumer,
             Rebalance(c) \/ Crash(c) \/ ReplySuccess(c) \/ ReplyLater(c)
      PROVE  OrderInv'
  <2>1. UNCHANGED <<done, errored, tried>> /\ \A d \in Consumer : batch'[d] \in {batch[d], << >>}
    BY <1>4 DEF Rebalance, Crash, ReplySuccess, ReplyLater, EndCall, books, TypeOK
  <2> QED BY <1>2, <2>1
<1>5. ASSUME NEW c \in Consumer, Before(c) \/ After(c) PROVE OrderInv'
  BY <1>2, <1>5 DEF Before, After, books
<1>6. ASSUME NEW c \in Consumer, HandleReturns(c) \/ HandleThrows(c) \/ HandleGivesUp(c) \/ Error(c)
      PROVE  OrderInv'
  <2>1. pc[c] \notin {"idle", "success"} /\ Current(c) \in Msg
    BY <1>6, AtWork DEF HandleReturns, HandleThrows, HandleGivesUp, Failed, Error
  <2>2. batch' = batch /\ Settled \subseteq Settled'
    BY <1>6 DEF HandleReturns, HandleThrows, HandleGivesUp, Error, Settled
  <2>3. \A n \in Msg : Started(n)' => Started(n) \/ n = Current(c)
    BY <1>6 DEF HandleReturns, HandleThrows, HandleGivesUp, Failed, Error, Started, TypeOK
  <2>4. \A m, n \in Msg : m < n /\ Started(n)' => m \in Settled
    BY <2>1, <2>3, CurrentIsNext DEF OrderInv
  <2> QED BY <1>1, <2>2, <2>4
<1>7. CASE UNCHANGED vars
  BY <1>2, <1>7 DEF vars, call, books
<1> QED BY <1>3, <1>4, <1>5, <1>6, <1>7 DEF Next, Listen

\* An ordered listener starts a message only when every earlier one has been handled
\* or given up.
THEOREM InTurn == Spec => []InOrder
<1>1. CASE Orderly
  <2>1. TypeOK /\ WorkInv /\ NoDeadLetter /\ OrderInv /\ [Next]_vars => OrderInv'
    BY <1>1, OrderStep
  <2>2. OrderInv => InOrder
    BY DEF OrderInv, InOrder, Settled
  <2>3. Spec => []NoDeadLetter
    BY <1>1, NoneDead DEF Single
  <2>4. Spec => []WorkInv
    BY WorkInit, WorkStep, TypeCorrect, PTL DEF Spec
  <2> QED BY <2>1, <2>2, <2>3, <2>4, OrderInit, TypeCorrect, PTL DEF Spec
<1>2. CASE ~Orderly
  <2>1. InOrder
    BY <1>2 DEF InOrder
  <2> QED BY <2>1, PTL
<1> QED BY <1>1, <1>2
=============================================================================

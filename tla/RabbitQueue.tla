---------------------------- MODULE RabbitQueue -----------------------------
(***************************************************************************)
(* rabbitmq: a publisher that keeps its unconfirmed messages in a map       *)
(* (client/AckTest), a queue of the broker, and consumers that acknowledge  *)
(* by hand: after the listener has returned (spring/config/Config), in a    *)
(* finally block (client/WorkTest), or never (AckTest).  Which of them a    *)
(* behaviour is about is chosen at its start.  A Spring container goes on   *)
(* after an exception of its listener; on a plain channel the exception     *)
(* reaches the client library, which closes the channel, and nothing        *)
(* subscribes again.                                                        *)
(*                                                                         *)
(* Message m has delivery tag m at the publisher.  The map is filled by the *)
(* publishing thread and emptied by the confirm listener, on the thread of  *)
(* the connection.  Channels keep the order of what is sent on them.        *)
(***************************************************************************)
EXTENDS Naturals, Sequences, SequencesExt

CONSTANTS Messages,   \* how many are published
          Routable,   \* those published to an exchange with a queue
          Consumer,   \* channels that consume from the queue
          MaxFaults   \* refused messages, ended channels, listeners that throw

Msg == 1 .. Messages

ASSUME RabbitAssumption ==
  /\ Messages \in Nat /\ MaxFaults \in Nat
  /\ Routable \subseteq Msg

VARIABLES mode,       \* when consumers acknowledge: after, finally, never
          put,        \* messages put into CONFIRM_MAP so far
          sent,       \* messages published so far
          open,       \* the publisher's channel
          map,        \* CONFIRM_MAP
          arrived,    \* messages the broker has taken in
          refused,    \* those of them it refused
          confirmed,  \* those it has confirmed, with ack or nack
          confirms,   \* confirms on their way
          queue,      \* ready messages, which are delivered in the order published
          inbox,      \* per consumer: delivered and not started
          busy,       \* the message onMessage works on, or 0
          acking,     \* is it done with it and about to acknowledge
          channel,    \* open; failing, when an exception leaves the listener; closed
          unacked,    \* delivered and not acknowledged
          handled,    \* messages a listener has returned for
          threw,      \* messages a listener has thrown for
          gone,       \* acknowledged messages
          faults

publisher == <<put, sent, open, map>>
broker == <<arrived, refused, confirmed, confirms>>
consumer == <<inbox, busy, acking, channel, unacked>>
books == <<handled, threw, gone>>
vars == <<mode, publisher, broker, queue, consumer, books, faults>>

Prefetch == IF mode = "after" THEN 2 ELSE 1
Confirm == [tag : Msg, multiple : BOOLEAN, covers : SUBSET Msg]
Fault == faults < MaxFaults /\ faults' = faults + 1

Init ==
  /\ mode \in {"after", "finally", "never"}
  /\ put = 0 /\ sent = 0 /\ open = TRUE /\ map = {}
  /\ arrived = 0 /\ refused = {} /\ confirmed = {} /\ confirms = << >>
  /\ queue = {}
  /\ inbox = [k \in Consumer |-> << >>] /\ busy = [k \in Consumer |-> 0]
  /\ acking = [k \in Consumer |-> FALSE] /\ channel = [k \in Consumer |-> "open"]
  /\ unacked = [k \in Consumer |-> {}]
  /\ handled = {} /\ threw = {} /\ gone = {}
  /\ faults = 0

-----------------------------------------------------------------------------
(* The publisher.                                                           *)

\* CONFIRM_MAP.put(channel.getNextPublishSeqNo(), message)
Put ==
  /\ open /\ put = sent /\ put < Messages
  /\ put' = put + 1
  /\ map' = map \cup {put + 1}
  /\ UNCHANGED <<mode, sent, open, broker, queue, consumer, books, faults>>

Publish ==
  /\ open /\ sent < put
  /\ sent' = sent + 1
  /\ UNCHANGED <<mode, put, open, map, broker, queue, consumer, books, faults>>

\* The try block ends when all is published, whatever is confirmed; a closed
\* channel drops the confirms that come.
Close ==
  /\ open /\ sent = Messages
  /\ open' = FALSE
  /\ confirms' = << >>
  /\ UNCHANGED <<mode, put, sent, map, arrived, refused, confirmed, queue, consumer, books, faults>>

\* Mutant: headMap(deliveryTag) leaves out the message of the tag.
BelowTag(c) == IF c.multiple THEN {m \in Msg : m < c.tag} ELSE {c.tag}

\* headMap(deliveryTag, true).clear() or remove(deliveryTag)
Named(c) == IF c.multiple THEN {m \in Msg : m <= c.tag} ELSE {c.tag}

\* handleAck and handleNack do the same to the map.
HandleConfirm ==
  /\ confirms # << >>
  /\ map' = map \ Named(Head(confirms))
  /\ confirms' = Tail(confirms)
  /\ UNCHANGED <<mode, put, sent, open, arrived, refused, confirmed, queue, consumer, books, faults>>

-----------------------------------------------------------------------------
(* The broker.                                                              *)

\* It takes a message in, or refuses it; one that no queue is bound for is taken
\* in and dropped.
Take ==
  /\ arrived < sent
  /\ arrived' = arrived + 1
  /\ \/ /\ queue' = IF arrived + 1 \in Routable THEN queue \cup {arrived + 1} ELSE queue
        /\ UNCHANGED <<refused, faults>>
     \/ Fault /\ refused' = refused \cup {arrived + 1} /\ UNCHANGED queue
  /\ UNCHANGED <<mode, publisher, confirmed, confirms, consumer, books>>

\* It confirms one message, or all up to one that have the same outcome.
SendConfirm ==
  /\ open
  /\ \E m \in 1 .. arrived \ confirmed, multiple \in BOOLEAN :
       LET covers == IF multiple THEN 1 .. m \ confirmed ELSE {m}
       IN /\ covers \subseteq refused \/ covers \cap refused = {}
          /\ confirmed' = confirmed \cup covers
          /\ confirms' = Append(confirms, [tag |-> m, multiple |-> multiple, covers |-> covers])
  /\ UNCHANGED <<mode, publisher, arrived, refused, queue, consumer, books, faults>>

\* It delivers up to the prefetch count,
Deliver(k) ==
  /\ channel[k] # "closed"
  /\ Cardinality(unacked[k]) < Prefetch
  /\ \E m \in queue :
       /\ \A n \in queue : m <= n
       /\ queue' = queue \ {m}
       /\ inbox' = [inbox EXCEPT ![k] = Append(@, m)]
       /\ unacked' = [unacked EXCEPT ![k] = @ \cup {m}]
  /\ UNCHANGED <<mode, publisher, broker, busy, acking, channel, books, faults>>

\* and puts back, where they were, the messages of a channel that ends.
GiveBack(k) ==
  /\ queue' = queue \cup unacked[k]
  /\ inbox' = [inbox EXCEPT ![k] = << >>] /\ busy' = [busy EXCEPT ![k] = 0]
  /\ acking' = [acking EXCEPT ![k] = FALSE] /\ unacked' = [unacked EXCEPT ![k] = {}]

\* A connection is lost, and the consumer is subscribed again when it is back.
EndChannel(k) ==
  /\ channel[k] # "closed"
  /\ Fault
  /\ GiveBack(k)
  /\ channel' = [channel EXCEPT ![k] = "open"]
  /\ UNCHANGED <<mode, publisher, broker, books>>

\* The client library closes the channel whose listener threw, for good.
CloseChannel(k) ==
  /\ channel[k] = "failing" /\ ~acking[k]
  /\ GiveBack(k)
  /\ channel' = [channel EXCEPT ![k] = "closed"]
  /\ UNCHANGED <<mode, publisher, broker, books, faults>>

-----------------------------------------------------------------------------
(* A consumer.                                                              *)

\* Mutant: a message is acknowledged as it comes.
StartAcked(k) ==
  /\ busy[k] = 0 /\ inbox[k] # << >> /\ channel[k] = "open"
  /\ busy' = [busy EXCEPT ![k] = Head(inbox[k])]
  /\ inbox' = [inbox EXCEPT ![k] = Tail(@)]
  /\ unacked' = [unacked EXCEPT ![k] = @ \ {Head(inbox[k])}]
  /\ UNCHANGED <<mode, publisher, broker, queue, acking, channel, books, faults>>

Start(k) ==
  /\ busy[k] = 0 /\ inbox[k] # << >> /\ channel[k] = "open"
  /\ busy' = [busy EXCEPT ![k] = Head(inbox[k])]
  /\ inbox' = [inbox EXCEPT ![k] = Tail(@)]
  /\ UNCHANGED <<mode, publisher, broker, queue, acking, channel, unacked, books, faults>>

\* The work is done; a consumer that never acknowledges takes the next message.
Ended(k, acks) ==
  /\ acking' = [acking EXCEPT ![k] = acks]
  /\ busy' = [busy EXCEPT ![k] = IF acks THEN @ ELSE 0]

Handle(k) ==
  /\ busy[k] # 0 /\ ~acking[k]
  /\ handled' = handled \cup {busy[k]}
  /\ Ended(k, mode # "never")
  /\ UNCHANGED <<mode, publisher, broker, queue, inbox, channel, unacked, threw, gone, faults>>

\* The work is given up: an exception leaves the message unacknowledged, a finally
\* block acknowledges it all the same, before the exception ends the channel.
Throw(k) ==
  /\ busy[k] # 0 /\ ~acking[k]
  /\ Fault
  /\ threw' = threw \cup {busy[k]}
  /\ Ended(k, mode = "finally")
  /\ channel' = IF mode = "after" THEN channel ELSE [channel EXCEPT ![k] = "failing"]
  /\ UNCHANGED <<mode, publisher, broker, queue, inbox, unacked, handled, gone>>

\* Mutants: basicAck(deliveryTag, true); no basicAck.
AckMultiple(k) ==
  /\ acking[k]
  /\ unacked' = [unacked EXCEPT ![k] = {m \in @ : m \in Range(inbox[k])}]
  /\ gone' = gone \cup (unacked[k] \ unacked'[k])
  /\ acking' = [acking EXCEPT ![k] = FALSE] /\ busy' = [busy EXCEPT ![k] = 0]
  /\ UNCHANGED <<mode, publisher, broker, queue, inbox, channel, handled, threw, faults>>

AckForgotten(k) ==
  /\ acking[k]
  /\ acking' = [acking EXCEPT ![k] = FALSE] /\ busy' = [busy EXCEPT ![k] = 0]
  /\ UNCHANGED <<mode, publisher, broker, queue, inbox, channel, unacked, books, faults>>

\* basicAck(deliveryTag, false)
Ack(k) ==
  /\ acking[k]
  /\ unacked' = [unacked EXCEPT ![k] = @ \ {busy[k]}]
  /\ gone' = gone \cup {busy[k]}
  /\ acking' = [acking EXCEPT ![k] = FALSE] /\ busy' = [busy EXCEPT ![k] = 0]
  /\ UNCHANGED <<mode, publisher, broker, queue, inbox, channel, handled, threw, faults>>

-----------------------------------------------------------------------------
Consume(k) == Start(k) \/ Handle(k) \/ Ack(k) \/ CloseChannel(k)

Next == \/ Put \/ Publish \/ Close \/ HandleConfirm
        \/ Take \/ SendConfirm
        \/ \E k \in Consumer : Deliver(k) \/ EndChannel(k) \/ Consume(k) \/ Throw(k)

Spec == Init /\ [][Next]_vars

\* The broker takes in and delivers, consumers run; nobody has to publish.
FairSpec == /\ Spec /\ WF_vars(Take)
            /\ \A k \in Consumer : WF_vars(Deliver(k)) /\ WF_vars(Consume(k))

-----------------------------------------------------------------------------
Held(k) == Range(inbox[k]) \cup (IF busy[k] = 0 THEN {} ELSE {busy[k]})

TypeOK ==
  /\ mode \in {"after", "finally", "never"}
  /\ put \in 0 .. Messages /\ sent \in 0 .. put /\ arrived \in 0 .. sent
  /\ open \in BOOLEAN
  /\ map \subseteq 1 .. put
  /\ refused \subseteq 1 .. arrived /\ confirmed \subseteq 1 .. arrived
  /\ confirms \in Seq(Confirm)
  /\ queue \subseteq Msg /\ inbox \in [Consumer -> Seq(Msg)]
  /\ busy \in [Consumer -> 0 .. Messages] /\ acking \in [Consumer -> BOOLEAN]
  /\ channel \in [Consumer -> {"open", "failing", "closed"}]
  /\ unacked \in [Consumer -> SUBSET Msg]
  \* A consumer works on what it has been delivered and has not acknowledged.
  /\ \A k \in Consumer : Held(k) \subseteq unacked[k] /\ Cardinality(unacked[k]) <= Prefetch
  /\ handled \subseteq Msg /\ threw \subseteq Msg /\ gone \subseteq Msg
  /\ faults \in 0 .. MaxFaults

\* The map holds exactly the messages whose confirm has not been handled, although
\* two threads change it and a confirm may speak for many.
MapIsOutstanding ==
  open => map = (1 .. put \ confirmed) \cup UNION {c.covers : c \in Range(confirms)}

\* The work on it has ended, so that it may be acknowledged.
Dealt == handled \cup (IF mode = "finally" THEN threw ELSE {})

\* What has left the map and was not refused has not been lost: it is in the
\* queue, with a consumer, or has been worked on, in spite of ended channels, if
\* only it had a queue to go to.
ConfirmedNotLost ==
  \A m \in (1 .. put \ map) \cap Routable :
    \/ m \in refused \cup Dealt
    \/ m \in queue
    \/ \E k \in Consumer : m \in unacked[k]

\* A message is gone only after a listener has returned for it, or has given up
\* inside the finally block of WorkTest.
D == INSTANCE Delivery WITH
       status <- [m \in Msg |-> IF m \in gone THEN "gone"
                                ELSE IF m \in Dealt THEN "handled" ELSE "waiting"]

AtLeastOnce == D!Spec

\* A consumer takes nothing more when its channel was closed after an exception, or
\* when its prefetch is full of messages whose listener threw, which a container
\* leaves unacknowledged; one that never acknowledges takes only its first.
Blocked ==
  \/ mode = "never"
  \/ \A k \in Consumer : channel[k] = "closed" \/ Cardinality(unacked[k] \cap threw) = Prefetch

\* Unless every consumer is blocked, each message the broker took in is acknowledged
\* or has itself been thrown for.
Drains ==
  \A m \in Routable : m \in queue ~> m \in gone \cup threw \/ Blocked
=============================================================================

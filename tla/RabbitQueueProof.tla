-------------------------- MODULE RabbitQueueProof ---------------------------
(***************************************************************************)
(* RabbitQueue, for any number of messages, consumers and faults: what has  *)
(* been acknowledged has been worked on, the publisher's map holds what is  *)
(* not confirmed, a consumer works on what it holds, and no message is lost *)
(* between the broker's confirm and the consumers' acknowledgement.         *)
(***************************************************************************)
EXTENDS RabbitQueue, FiniteSetTheorems, TLAPS

\* A consumer about to acknowledge has dealt with its message.
AckInv ==
  /\ busy = [k \in Consumer |-> busy[k]]
  /\ acking = [k \in Consumer |-> acking[k]]
  /\ \A k \in Consumer : acking[k] => busy[k] # 0 /\ busy[k] \in Dealt
  /\ gone \subseteq Dealt

LEMMA AckInit == Init => AckInv
  BY DEF Init, AckInv, Dealt

LEMMA AckStep == AckInv /\ [Next]_vars => AckInv'
<1> SUFFICES ASSUME AckInv, [Next]_vars PROVE AckInv'
  OBVIOUS
<1>1. ASSUME UNCHANGED <<mode, books, busy, acking>> PROVE AckInv'
  BY <1>1 DEF AckInv, Dealt, books
<1>2. ASSUME Put \/ Publish \/ Close \/ HandleConfirm \/ Take \/ SendConfirm PROVE AckInv'
  BY <1>1, <1>2 DEF Put, Publish, Close, HandleConfirm, Take, SendConfirm, consumer
<1>3. ASSUME NEW k \in Consumer, Deliver(k) PROVE AckInv'
  BY <1>1, <1>3 DEF Deliver
<1>4. ASSUME NEW k \in Consumer, EndChannel(k) \/ CloseChannel(k) PROVE AckInv'
  BY <1>4 DEF EndChannel, CloseChannel, GiveBack, AckInv, Dealt, books
<1>5. ASSUME NEW k \in Consumer, Start(k) PROVE AckInv'
  BY <1>5 DEF Start, AckInv, Dealt, books
<1>6. ASSUME NEW k \in Consumer, Handle(k) PROVE AckInv'
  <2>1. Dealt' = Dealt \cup {busy[k]}
    BY <1>6 DEF Handle, Dealt
  <2> QED BY <1>6, <2>1 DEF Handle, Ended, AckInv
<1>7. ASSUME NEW k \in Consumer, Throw(k) PROVE AckInv'
  <2>1. Dealt \subseteq Dealt' /\ (mode = "finally" => busy[k] \in Dealt')
    BY <1>7 DEF Throw, Dealt
  <2> QED BY <1>7, <2>1 DEF Throw, Ended, AckInv
<1>8. ASSUME NEW k \in Consumer, Ack(k) PROVE AckInv'
  <2>1. Dealt' = Dealt
    BY <1>8 DEF Ack, Dealt
  <2> QED BY <1>8, <2>1 DEF Ack, AckInv
<1>9. CASE UNCHANGED vars
  BY <1>1, <1>9 DEF vars, consumer
<1> QED
  BY <1>2, <1>3, <1>4, <1>5, <1>6, <1>7, <1>8, <1>9 DEF Next, Consume

\* Seen from outside (the substitution of D).
Seen == [m \in Msg |-> IF m \in gone THEN "gone" ELSE IF m \in Dealt THEN "handled" ELSE "waiting"]

LEMMA SeenStep == AckInv /\ [Next]_vars => [D!Next]_Seen
<1> SUFFICES ASSUME AckInv, [Next]_vars PROVE [D!Next]_Seen
  OBVIOUS
<1>1. ASSUME UNCHANGED <<mode, books>> PROVE Seen' = Seen
  BY <1>1 DEF Seen, Dealt, books
<1>2. ASSUME Put \/ Publish \/ Close \/ HandleConfirm \/ Take \/ SendConfirm PROVE Seen' = Seen
  BY <1>1, <1>2 DEF Put, Publish, Close, HandleConfirm, Take, SendConfirm
<1>3. ASSUME NEW k \in Consumer, Deliver(k) \/ EndChannel(k) \/ CloseChannel(k) \/ Start(k)
      PROVE  Seen' = Seen
  BY <1>1, <1>3 DEF Deliver, EndChannel, CloseChannel, Start
\* One more message has been dealt with, perhaps not for the first time.
<1>4. ASSUME NEW m, Dealt' = Dealt \cup {m}, gone' = gone PROVE [D!Next]_Seen
  <2>1. CASE m \in Msg /\ m \notin gone /\ m \notin Dealt
    <3>1. Seen' = [n \in Msg |-> IF n \in {m} THEN "handled" ELSE Seen[n]] /\ Seen[m] = "waiting"
      BY <1>4, <2>1 DEF Seen
    <3> QED BY <2>1, <3>1 DEF D!Next, D!Handle, D!Become, Seen
  <2>2. CASE m \notin Msg \/ m \in gone \/ m \in Dealt
    BY <1>4, <2>2 DEF Seen
  <2> QED BY <2>1, <2>2
<1>5. ASSUME NEW k \in Consumer, Handle(k) PROVE [D!Next]_Seen
  <2>1. Dealt' = Dealt \cup {busy[k]} /\ gone' = gone
    BY <1>5 DEF Handle, Dealt
  <2> QED BY <1>4, <2>1
<1>6. ASSUME NEW k \in Consumer, Throw(k) PROVE [D!Next]_Seen
  <2>1. gone' = gone /\ (Dealt' = Dealt \/ Dealt' = Dealt \cup {busy[k]})
    BY <1>6 DEF Throw, Dealt
  <2>2. Dealt' = Dealt => Seen' = Seen
    BY <2>1 DEF Seen
  <2> QED BY <1>4, <2>1, <2>2
\* A message that has been dealt with leaves, or had left before.
<1>7. ASSUME NEW m \in Dealt, Dealt' = Dealt, gone' = gone \cup {m} PROVE [D!Next]_Seen
  <2>1. CASE m \in Msg /\ m \notin gone
    <3>1. Seen' = [n \in Msg |-> IF n \in {m} THEN "gone" ELSE Seen[n]] /\ Seen[m] = "handled"
      BY <1>7, <2>1 DEF Seen
    <3> QED BY <2>1, <3>1 DEF D!Next, D!Remove, D!Become, Seen
  <2>2. CASE m \notin Msg \/ m \in gone
    BY <1>7, <2>2 DEF Seen
  <2> QED BY <2>1, <2>2
<1>9. ASSUME NEW k \in Consumer, Ack(k) PROVE [D!Next]_Seen
  <2>1. busy[k] \in Dealt /\ Dealt' = Dealt /\ gone' = gone \cup {busy[k]}
    BY <1>9 DEF Ack, AckInv, Dealt
  <2> QED BY <1>7, <2>1
<1>8. CASE UNCHANGED vars
  BY <1>1, <1>8 DEF vars
<1> QED
  BY <1>2, <1>3, <1>5, <1>6, <1>8, <1>9 DEF Next, Consume

\* A message leaves the queue for good only after its listener returned, or gave up
\* inside the finally block, however often channels end and messages come again.
THEOREM Implements == Spec => AtLeastOnce
<1>1. Init => D!Init
  BY DEF Init, D!Init, Dealt
<1>2. AckInv /\ [Next]_vars => [D!Next]_Seen
  BY SeenStep
<1> QED BY <1>1, <1>2, AckInit, AckStep, PTL DEF Spec, AtLeastOnce, D!Spec, Seen

-----------------------------------------------------------------------------
\* The confirms on their way: each names what it covers and nothing that a later
\* one covers, for all it names is confirmed when it is sent.
Names(i) == Named(confirms[i])

MapInv ==
  /\ put \in 0 .. Messages /\ sent \in 0 .. put /\ arrived \in 0 .. sent
  /\ confirmed \subseteq 1 .. arrived
  /\ confirms \in Seq(Confirm)
  /\ ~open => confirms = << >>
  /\ \A i \in DOMAIN confirms : confirms[i].covers \subseteq Names(i) /\ Names(i) \subseteq confirmed
  /\ \A i, j \in DOMAIN confirms : i < j => Names(i) \cap confirms[j].covers = {}
  /\ \A m : open => (m \in map <=> \/ m \in 1 .. put \ confirmed
                                   \/ \E i \in DOMAIN confirms : m \in confirms[i].covers)

LEMMA MapInit == Init => MapInv
  BY RabbitAssumption DEF Init, MapInv, Confirm, Names

LEMMA MapStep == MapInv /\ [Next]_vars => MapInv'
<1> SUFFICES ASSUME MapInv, [Next]_vars PROVE MapInv'
  OBVIOUS
<1> USE RabbitAssumption
<1>1. ASSUME UNCHANGED <<put, sent, arrived, confirmed, confirms, open, map>> PROVE MapInv'
  BY <1>1 DEF MapInv, Names
<1>2. CASE Put
  <2>1. /\ open /\ put' = put + 1 /\ map' = map \cup {put + 1} /\ put + 1 \in 1 .. Messages
        /\ UNCHANGED <<sent, open, arrived, confirmed, confirms>>
    BY <1>2 DEF Put, broker, MapInv
  <2>2. put + 1 \notin confirmed /\ 1 .. (put + 1) = 1 .. put \cup {put + 1} /\ put \in Nat
    BY DEF MapInv
  <2> QED BY <2>1, <2>2 DEF MapInv, Names
<1>3. CASE Publish
  BY <1>3 DEF Publish, broker, MapInv, Names
<1>4. CASE Close
  BY <1>4 DEF Close, MapInv, Names
<1>5. CASE HandleConfirm
  <2>1. /\ confirms # << >> /\ map' = map \ Named(Head(confirms)) /\ confirms' = Tail(confirms)
        /\ UNCHANGED <<put, sent, open, arrived, confirmed>>
    BY <1>5 DEF HandleConfirm
  <2>2. /\ confirms' \in Seq(Confirm) /\ DOMAIN confirms = 1 .. Len(confirms)
        /\ DOMAIN confirms' = 1 .. Len(confirms) - 1 /\ Len(confirms) \in Nat \ {0}
        /\ \A i \in DOMAIN confirms' : i + 1 \in DOMAIN confirms /\ confirms'[i] = confirms[i + 1]
        /\ Head(confirms) = confirms[1]
    BY <2>1 DEF MapInv
  <2>3. \A i \in DOMAIN confirms' : Names(i)' = Names(i + 1)
    BY <2>2 DEF Names
  <2>4. /\ \A i \in DOMAIN confirms' :
             confirms'[i].covers \subseteq Names(i)' /\ Names(i)' \subseteq confirmed
        /\ \A i, j \in DOMAIN confirms' : i < j => Names(i)' \cap confirms'[j].covers = {}
    <3>1. ASSUME NEW i \in DOMAIN confirms'
          PROVE  confirms'[i].covers \subseteq Names(i)' /\ Names(i)' \subseteq confirmed
      BY <2>2, <2>3 DEF MapInv
    <3>2. ASSUME NEW i \in DOMAIN confirms', NEW j \in DOMAIN confirms', i < j
          PROVE  Names(i)' \cap confirms'[j].covers = {}
      <4>1. i + 1 \in DOMAIN confirms /\ j + 1 \in DOMAIN confirms /\ i + 1 < j + 1
        BY <2>2, <3>2
      <4> QED BY <2>2, <2>3, <4>1 DEF MapInv
    <3> QED BY <3>1, <3>2
  <2>5. ASSUME NEW m
        PROVE  m \in map' <=> \/ m \in 1 .. put \ confirmed
                              \/ \E i \in DOMAIN confirms' : m \in confirms'[i].covers
    <3>1. open
      BY <2>1 DEF MapInv
    <3>2. 1 \in DOMAIN confirms /\ Named(Head(confirms)) = Names(1)
      BY <2>2 DEF Names
    <3>3. CASE m \in Names(1)
      <4>1. m \in confirmed
        BY <3>2, <3>3 DEF MapInv
      <4>2. \A i \in DOMAIN confirms' : m \notin confirms'[i].covers
        BY <2>2, <3>2, <3>3 DEF MapInv
      <4> QED BY <2>1, <3>2, <3>3, <4>1, <4>2
    <3>4. CASE m \notin Names(1)
      <4>1. m \notin confirms[1].covers
        BY <3>2, <3>4 DEF MapInv
      <4>2. \A i \in DOMAIN confirms : i = 1 \/ (i - 1 \in DOMAIN confirms' /\ confirms'[i - 1] = confirms[i])
        BY <2>2
      <4>3. (\E i \in DOMAIN confirms : m \in confirms[i].covers)
              <=> \E i \in DOMAIN confirms' : m \in confirms'[i].covers
        BY <2>2, <4>1, <4>2
      <4> QED BY <2>1, <3>1, <3>2, <3>4, <4>3 DEF MapInv
    <3> QED BY <3>3, <3>4
  <2> QED BY <2>1, <2>2, <2>4, <2>5 DEF MapInv
<1>6. CASE Take
  BY <1>6 DEF Take, publisher, MapInv, Names
\* All that a confirm names is confirmed, and what it covers was not before.
<1>7. CASE SendConfirm
  <2> PICK m \in 1 .. arrived \ confirmed, multiple \in BOOLEAN :
        LET covers == IF multiple THEN 1 .. m \ confirmed ELSE {m}
        IN /\ confirmed' = confirmed \cup covers
           /\ confirms' = Append(confirms, [tag |-> m, multiple |-> multiple, covers |-> covers])
    BY <1>7 DEF SendConfirm
  <2> DEFINE covers == IF multiple THEN 1 .. m \ confirmed ELSE {m}
             new == [tag |-> m, multiple |-> multiple, covers |-> covers]
  <2>1. /\ confirmed' = confirmed \cup covers /\ confirms' = Append(confirms, new)
        /\ open /\ UNCHANGED <<put, sent, open, map, arrived>>
    BY <1>7 DEF SendConfirm, publisher
  <2>2. covers \subseteq 1 .. arrived /\ covers \cap confirmed = {} /\ covers \subseteq Msg /\ m \in Msg
    BY DEF MapInv, Msg
  <2>3. Named(new) \subseteq confirmed \cup covers /\ covers \subseteq Named(new)
    BY <2>2 DEF Named, Msg, MapInv
  <2>4. new \in Confirm /\ new.covers = covers
    BY <2>2 DEF Confirm
  <2> HIDE DEF covers, new
  <2>5. /\ confirms' \in Seq(Confirm) /\ Len(confirms) \in Nat
        /\ DOMAIN confirms = 1 .. Len(confirms) /\ DOMAIN confirms' = 1 .. Len(confirms) + 1
        /\ \A i \in DOMAIN confirms : confirms'[i] = confirms[i]
        /\ confirms'[Len(confirms) + 1] = new
    BY <2>1, <2>4 DEF MapInv
  <2>6. \A i \in DOMAIN confirms' : Names(i)' = IF i \in DOMAIN confirms THEN Names(i) ELSE Named(new)
    <3> SUFFICES ASSUME NEW i \in DOMAIN confirms'
                 PROVE  Named(confirms'[i]) = IF i \in DOMAIN confirms THEN Named(confirms[i]) ELSE Named(new)
      BY DEF Names
    <3>1. i \in DOMAIN confirms \/ (i \notin DOMAIN confirms /\ i = Len(confirms) + 1)
      BY <2>5
    <3>2. confirms'[i] = IF i \in DOMAIN confirms THEN confirms[i] ELSE new
      BY <2>5, <3>1, Zenon
    <3> QED BY <3>2
  <2>7. \A i \in DOMAIN confirms' :
          confirms'[i].covers \subseteq Names(i)' /\ Names(i)' \subseteq confirmed'
    <3> SUFFICES ASSUME NEW i \in DOMAIN confirms'
                 PROVE  confirms'[i].covers \subseteq Names(i)' /\ Names(i)' \subseteq confirmed'
      OBVIOUS
    <3>1. CASE i \in DOMAIN confirms
      BY <2>1, <2>5, <2>6, <3>1 DEF MapInv
    <3>2. CASE i = Len(confirms) + 1
      BY <2>1, <2>3, <2>4, <2>5, <2>6, <3>2
    <3> QED BY <2>5, <3>1, <3>2
  <2>8. \A i, j \in DOMAIN confirms' : i < j => Names(i)' \cap confirms'[j].covers = {}
    <3> SUFFICES ASSUME NEW i \in DOMAIN confirms', NEW j \in DOMAIN confirms', i < j
                 PROVE  Names(i)' \cap confirms'[j].covers = {}
      OBVIOUS
    <3>1. i \in DOMAIN confirms
      BY <2>5
    <3>2. CASE j \in DOMAIN confirms
      BY <2>5, <2>6, <3>1, <3>2 DEF MapInv
    <3>3. CASE j = Len(confirms) + 1
      <4>1. Names(i) \subseteq confirmed
        BY <3>1 DEF MapInv
      <4> QED BY <2>2, <2>4, <2>5, <2>6, <3>1, <3>3, <4>1
    <3> QED BY <2>5, <3>2, <3>3
  <2>9. ASSUME NEW n
        PROVE  n \in map <=> \/ n \in 1 .. put \ confirmed'
                             \/ \E i \in DOMAIN confirms' : n \in confirms'[i].covers
    <3>1. (\E i \in DOMAIN confirms' : n \in confirms'[i].covers)
            <=> n \in covers \/ \E i \in DOMAIN confirms : n \in confirms[i].covers
      BY <2>4, <2>5
    <3>2. covers \subseteq 1 .. put
      BY <2>2 DEF MapInv
    <3> QED BY <2>1, <3>1, <3>2 DEF MapInv
  <2>10. confirmed' \subseteq 1 .. arrived
    BY <2>1, <2>2 DEF MapInv
  <2> QED BY <2>1, <2>5, <2>7, <2>8, <2>9, <2>10 DEF MapInv
<1>8. ASSUME NEW k \in Consumer, Deliver(k) \/ EndChannel(k) \/ Consume(k) \/ Throw(k)
      PROVE  MapInv'
  BY <1>1, <1>8
  DEF Deliver, EndChannel, CloseChannel, Consume, Start, Handle, Ack, Throw, publisher, broker
<1>9. CASE UNCHANGED vars
  BY <1>1, <1>9 DEF vars, publisher, broker
<1> QED
  BY <1>2, <1>3, <1>4, <1>5, <1>6, <1>7, <1>8, <1>9 DEF Next

\* CONFIRM_MAP holds exactly what is not confirmed or whose confirm has not been
\* handled, although one confirm may speak for many.
THEOREM MapStaysOutstanding == Spec => []MapIsOutstanding
<1>1. MapInv => MapIsOutstanding
  <2> SUFFICES ASSUME MapInv, open
               PROVE  map = (1 .. put \ confirmed) \cup UNION {c.covers : c \in Range(confirms)}
    BY DEF MapIsOutstanding
  <2>1. \A m : m \in UNION {c.covers : c \in Range(confirms)}
                 <=> \E i \in DOMAIN confirms : m \in confirms[i].covers
    BY DEF Range
  <2> QED BY <2>1 DEF MapInv
<1> QED BY <1>1, MapInit, MapStep, PTL DEF Spec

-----------------------------------------------------------------------------
(* Who holds a message: it is ready, or unacknowledged at one consumer.      *)

\* A consumer with inbox box, message b at work and U unacknowledged; that a
\* message is there only once is what lets Ack take it out of U.
Loaded(box, b, U) ==
  /\ box \in Seq(Msg) /\ b \in 0 .. Messages /\ U \subseteq Msg
  /\ \A i \in DOMAIN box : box[i] \in U /\ box[i] # b
  /\ \A i, j \in DOMAIN box : box[i] = box[j] => i = j
  /\ b # 0 => b \in U

LoadInv ==
  /\ mode \in {"after", "finally", "never"}
  /\ arrived \in 0 .. Messages /\ queue \subseteq 1 .. arrived
  /\ inbox = [k \in Consumer |-> inbox[k]] /\ busy = [k \in Consumer |-> busy[k]]
  /\ unacked = [k \in Consumer |-> unacked[k]]
  /\ \A k \in Consumer : /\ Loaded(inbox[k], busy[k], unacked[k])
                         /\ unacked[k] \subseteq 1 .. arrived
                         /\ unacked[k] \cap queue = {}
                         /\ Cardinality(unacked[k]) <= Prefetch
  /\ \A j, k \in Consumer : j # k => unacked[j] \cap unacked[k] = {}

\* The four things that happen to a consumer's load.
LEMMA LoadNothing == Loaded(<< >>, 0, {})
  BY RabbitAssumption DEF Loaded

LEMMA LoadMore ==
  ASSUME NEW box, NEW b, NEW U, NEW m \in Msg \ U, Loaded(box, b, U)
  PROVE  Loaded(Append(box, m), b, U \cup {m})
<1> DEFINE more == Append(box, m)
<1>1. /\ more \in Seq(Msg) /\ Len(box) \in Nat
      /\ DOMAIN box = 1 .. Len(box) /\ DOMAIN more = 1 .. Len(box) + 1
      /\ \A i \in DOMAIN box : more[i] = box[i]
      /\ more[Len(box) + 1] = m
  BY DEF Loaded
<1>2. m # b
  BY RabbitAssumption DEF Loaded, Msg
<1> HIDE DEF more
<1>3. ASSUME NEW i \in DOMAIN more PROVE more[i] \in U \cup {m} /\ more[i] # b
  <2>1. CASE i \in DOMAIN box
    BY <1>1, <2>1 DEF Loaded
  <2>2. CASE i = Len(box) + 1
    BY <1>1, <1>2, <2>2
  <2> QED BY <1>1, <2>1, <2>2
<1>4. ASSUME NEW i \in DOMAIN more, NEW j \in DOMAIN more, more[i] = more[j] PROVE i = j
  <2>1. \A n \in DOMAIN box : more[n] = box[n] /\ more[n] # m
    BY <1>1 DEF Loaded
  <2>2. CASE i \in DOMAIN box /\ j \in DOMAIN box
    BY <1>4, <2>1, <2>2 DEF Loaded
  <2>3. CASE i \notin DOMAIN box \/ j \notin DOMAIN box
    BY <1>1, <1>4, <2>1, <2>3
  <2> QED BY <2>2, <2>3
<1> QED BY <1>1, <1>3, <1>4 DEF Loaded, more

LEMMA LoadTaken ==
  ASSUME NEW box, NEW U, box # << >>, Loaded(box, 0, U)
  PROVE  Loaded(Tail(box), Head(box), U)
<1> DEFINE rest == Tail(box)
<1>1. /\ rest \in Seq(Msg) /\ Len(box) \in Nat \ {0}
      /\ DOMAIN box = 1 .. Len(box) /\ DOMAIN rest = 1 .. Len(box) - 1
      /\ \A i \in DOMAIN rest : i + 1 \in DOMAIN box /\ i + 1 # 1 /\ rest[i] = box[i + 1]
      /\ 1 \in DOMAIN box /\ Head(box) = box[1] /\ box[1] \in Msg
  BY DEF Loaded
<1>2. Head(box) \in 0 .. Messages
  BY <1>1, RabbitAssumption DEF Msg
<1> HIDE DEF rest
<1>3. \A i \in DOMAIN rest : rest[i] \in U /\ rest[i] # Head(box)
  BY <1>1 DEF Loaded
<1>4. ASSUME NEW i \in DOMAIN rest, NEW j \in DOMAIN rest, rest[i] = rest[j] PROVE i = j
  <2>1. i + 1 = j + 1
    BY <1>1, <1>4 DEF Loaded
  <2> QED BY <1>1, <2>1
<1> QED BY <1>1, <1>2, <1>3, <1>4 DEF Loaded, rest

LEMMA LoadLess ==
  ASSUME NEW box, NEW b, NEW U, b # 0, Loaded(box, b, U)
  PROVE  Loaded(box, 0, U \ {b})
  BY RabbitAssumption DEF Loaded, Msg

\* A consumer done with its message that does not acknowledge it.
LEMMA LoadFreed ==
  ASSUME NEW box, NEW b, NEW U, Loaded(box, b, U)
  PROVE  Loaded(box, 0, U)
  BY RabbitAssumption DEF Loaded, Msg

\* A consumer holds no more than its prefetch.
LEMMA Held1 ==
  ASSUME LoadInv, NEW k \in Consumer
  PROVE  IsFiniteSet(unacked[k]) /\ Cardinality(unacked[k]) \in Nat /\ Prefetch \in Nat \ {0}
<1>1. IsFiniteSet(1 .. Messages)
  BY FS_Interval, RabbitAssumption
<1>2. unacked[k] \in SUBSET (1 .. Messages)
  BY DEF LoadInv, Loaded, Msg
<1>3. IsFiniteSet(unacked[k])
  BY <1>1, <1>2, FS_Subset
<1> QED BY <1>3, FS_CardinalityType DEF Prefetch

LEMMA LoadInit == Init => LoadInv
<1> SUFFICES ASSUME Init PROVE LoadInv
  OBVIOUS
<1>1. Cardinality({}) = 0 /\ Prefetch \in Nat
  BY FS_EmptySet DEF Prefetch
<1> QED BY <1>1, LoadNothing, RabbitAssumption DEF Init, LoadInv

LEMMA LoadStep == LoadInv /\ MapInv /\ AckInv /\ [Next]_vars => LoadInv'
<1> SUFFICES ASSUME LoadInv, MapInv, AckInv, [Next]_vars PROVE LoadInv'
  OBVIOUS
<1> USE RabbitAssumption
<1>0. /\ arrived \in 0 .. Messages /\ sent \in 0 .. Messages
      /\ inbox = [k \in Consumer |-> inbox[k]] /\ busy = [k \in Consumer |-> busy[k]]
      /\ unacked = [k \in Consumer |-> unacked[k]]
  BY DEF LoadInv, MapInv
<1>1. ASSUME UNCHANGED <<mode, arrived, queue, inbox, busy, unacked>> PROVE LoadInv'
  BY <1>1 DEF LoadInv, Prefetch
<1>2. CASE Put \/ Publish \/ Close \/ HandleConfirm \/ SendConfirm
  BY <1>1, <1>2 DEF Put, Publish, Close, HandleConfirm, SendConfirm, broker, consumer
<1>3. CASE Take
  <2>1. /\ arrived' = arrived + 1 /\ arrived + 1 \in 1 .. Messages
        /\ queue' = queue \/ queue' = queue \cup {arrived + 1}
        /\ UNCHANGED <<mode, inbox, busy, unacked>>
    BY <1>0, <1>3 DEF Take, consumer
  <2>2. /\ queue' \subseteq 1 .. arrived'
        /\ \A k \in Consumer : unacked[k] \subseteq 1 .. arrived' /\ unacked[k] \cap queue' = {}
    BY <1>0, <2>1 DEF LoadInv
  <2> QED BY <1>0, <2>1, <2>2 DEF LoadInv, Prefetch
\* What changes one consumer's load and leaves what the others hold.
<1>4. ASSUME NEW k \in Consumer, UNCHANGED <<mode, arrived>>,
             inbox' = [inbox EXCEPT ![k] = inbox'[k]],
             busy' = [busy EXCEPT ![k] = busy'[k]],
             unacked' = [unacked EXCEPT ![k] = unacked'[k]],
             Loaded(inbox'[k], busy'[k], unacked'[k]),
             Cardinality(unacked'[k]) <= Prefetch,
             unacked'[k] \subseteq unacked[k] \cup queue,
             queue' \subseteq queue \cup unacked[k],
             unacked'[k] \cap queue' = {}
      PROVE  LoadInv'
  <2> DEFINE Mine(j) == /\ Loaded(inbox[j], busy[j], unacked[j])
                        /\ unacked[j] \subseteq 1 .. arrived
                        /\ unacked[j] \cap queue = {}
                        /\ Cardinality(unacked[j]) <= Prefetch
  <2>1. \A j \in Consumer : Mine(j)
    BY DEF LoadInv
  <2>2. \A j \in Consumer \ {k} : UNCHANGED <<inbox[j], busy[j], unacked[j]>>
    BY <1>0, <1>4
  <2>3. Prefetch' = Prefetch
    BY <1>4 DEF Prefetch
  <2>4. Loaded(inbox[k], busy[k], unacked[k])'
    BY <1>4 DEF Loaded
  <2>5. ASSUME NEW j \in Consumer \ {k} PROVE Mine(j)'
    <3>1. unacked[j] \cap unacked[k] = {}
      BY DEF LoadInv
    <3>2. Loaded(inbox[j], busy[j], unacked[j])'
      BY <2>1, <2>2, <2>5 DEF Loaded
    <3> QED BY <1>4, <2>1, <2>2, <2>3, <2>5, <3>1, <3>2
  <2>6. Mine(k)'
    BY <1>4, <2>1, <2>3, <2>4 DEF LoadInv
  <2>7. ASSUME NEW i \in Consumer, NEW j \in Consumer, i # j PROVE (unacked[i] \cap unacked[j])' = {}
    BY <1>4, <2>2, <2>7, <2>1 DEF LoadInv
  <2>8. queue' \subseteq 1 .. arrived'
    BY <1>4, <2>1 DEF LoadInv
  <2>9. /\ inbox' = [j \in Consumer |-> inbox'[j]] /\ busy' = [j \in Consumer |-> busy'[j]]
        /\ unacked' = [j \in Consumer |-> unacked'[j]]
    BY <1>0, <1>4
  <2> QED BY <1>4, <2>5, <2>6, <2>7, <2>8, <2>9 DEF LoadInv
<1>5. ASSUME NEW k \in Consumer, Deliver(k) PROVE LoadInv'
  <2>1. PICK m \in queue : /\ queue' = queue \ {m}
                           /\ inbox' = [inbox EXCEPT ![k] = Append(@, m)]
                           /\ unacked' = [unacked EXCEPT ![k] = @ \cup {m}]
    BY <1>5 DEF Deliver
  <2>2. UNCHANGED <<mode, arrived, busy>> /\ Cardinality(unacked[k]) < Prefetch
    BY <1>5 DEF Deliver, broker
  <2>3. m \in Msg \ unacked[k] /\ Loaded(inbox[k], busy[k], unacked[k]) /\ unacked[k] \cap queue = {}
    BY <1>0 DEF LoadInv, Msg
  <2>4. /\ inbox'[k] = Append(inbox[k], m) /\ unacked'[k] = unacked[k] \cup {m} /\ busy'[k] = busy[k]
    BY <1>0, <2>1, <2>2
  <2>5. Loaded(inbox'[k], busy'[k], unacked'[k])
    BY <2>3, <2>4, LoadMore
  <2>6. Cardinality(unacked[k] \cup {m}) <= Prefetch
    <3>1. Cardinality(unacked[k] \cup {m}) = Cardinality(unacked[k]) + 1
      BY <2>3, Held1, FS_AddElement
    <3> QED BY <2>2, <3>1, Held1
  <2>7. busy' = [busy EXCEPT ![k] = busy'[k]]
    BY <1>0, <2>2
  <2> QED BY <1>4, <2>1, <2>2, <2>3, <2>4, <2>5, <2>6, <2>7
<1>6. ASSUME NEW k \in Consumer, EndChannel(k) \/ CloseChannel(k) PROVE LoadInv'
  <2>1. /\ queue' = queue \cup unacked[k]
        /\ inbox' = [inbox EXCEPT ![k] = << >>] /\ busy' = [busy EXCEPT ![k] = 0]
        /\ unacked' = [unacked EXCEPT ![k] = {}] /\ UNCHANGED <<mode, arrived>>
    BY <1>6 DEF EndChannel, CloseChannel, GiveBack, broker
  <2>2. inbox'[k] = << >> /\ busy'[k] = 0 /\ unacked'[k] = {}
    BY <1>0, <2>1
  <2>3. Cardinality({}) <= Prefetch
    BY FS_EmptySet, Held1
  <2> QED BY <1>4, <2>1, <2>2, <2>3, LoadNothing
<1>7. ASSUME NEW k \in Consumer, Start(k) PROVE LoadInv'
  <2>1. /\ busy[k] = 0 /\ inbox[k] # << >>
        /\ busy' = [busy EXCEPT ![k] = Head(inbox[k])]
        /\ inbox' = [inbox EXCEPT ![k] = Tail(@)] /\ UNCHANGED <<mode, arrived, queue, unacked>>
    BY <1>7 DEF Start, broker
  <2>2. inbox'[k] = Tail(inbox[k]) /\ busy'[k] = Head(inbox[k]) /\ unacked'[k] = unacked[k]
    BY <1>0, <2>1
  <2>3. Loaded(inbox'[k], busy'[k], unacked'[k])
    BY <2>1, <2>2, LoadTaken DEF LoadInv
  <2>4. unacked' = [unacked EXCEPT ![k] = unacked'[k]]
    BY <1>0, <2>1
  <2>5. unacked[k] \cap queue = {} /\ Cardinality(unacked[k]) <= Prefetch
    BY DEF LoadInv
  <2> QED BY <1>4, <2>1, <2>2, <2>3, <2>4, <2>5
<1>8. ASSUME NEW k \in Consumer, Handle(k) \/ Throw(k) PROVE LoadInv'
  <2>1. /\ busy' = [busy EXCEPT ![k] = busy[k]] \/ busy' = [busy EXCEPT ![k] = 0]
        /\ UNCHANGED <<mode, arrived, queue, inbox, unacked>>
    BY <1>8 DEF Handle, Throw, Ended, broker
  <2>2. inbox'[k] = inbox[k] /\ unacked'[k] = unacked[k] /\ busy'[k] \in {busy[k], 0}
    BY <1>0, <2>1
  <2>3. Loaded(inbox'[k], busy'[k], unacked'[k])
    BY <2>2, LoadFreed DEF LoadInv
  <2>4. /\ unacked' = [unacked EXCEPT ![k] = unacked'[k]] /\ inbox' = [inbox EXCEPT ![k] = inbox'[k]]
        /\ busy' = [busy EXCEPT ![k] = busy'[k]]
    BY <1>0, <2>1
  <2>5. unacked[k] \cap queue = {} /\ Cardinality(unacked[k]) <= Prefetch
    BY DEF LoadInv
  <2> QED BY <1>4, <2>1, <2>2, <2>3, <2>4, <2>5
<1>9. ASSUME NEW k \in Consumer, Ack(k) PROVE LoadInv'
  <2>1. /\ busy' = [busy EXCEPT ![k] = 0] /\ unacked' = [unacked EXCEPT ![k] = @ \ {busy[k]}]
        /\ UNCHANGED <<mode, arrived, queue, inbox>> /\ busy[k] # 0
    BY <1>9 DEF Ack, AckInv, broker
  <2>2. inbox'[k] = inbox[k] /\ unacked'[k] = unacked[k] \ {busy[k]} /\ busy'[k] = 0
    BY <1>0, <2>1
  <2>3. Loaded(inbox'[k], busy'[k], unacked'[k])
    BY <2>1, <2>2, LoadLess DEF LoadInv
  <2>4. inbox' = [inbox EXCEPT ![k] = inbox'[k]]
    BY <1>0, <2>1
  <2>5. unacked[k] \cap queue = {} /\ Cardinality(unacked[k]) <= Prefetch
    BY DEF LoadInv
  <2>6. Cardinality(unacked[k] \ {busy[k]}) <= Prefetch
    BY <2>5, Held1, FS_RemoveElement
  <2> QED BY <1>4, <2>1, <2>2, <2>3, <2>4, <2>5, <2>6
<1>10. CASE UNCHANGED vars
  BY <1>1, <1>10 DEF vars, broker, consumer
<1> QED
  BY <1>2, <1>3, <1>5, <1>6, <1>7, <1>8, <1>9, <1>10 DEF Next, Consume

\* The rest of the types.
BooksInv ==
  /\ open \in BOOLEAN /\ map \subseteq 1 .. put /\ refused \subseteq 1 .. arrived
  /\ acking \in [Consumer -> BOOLEAN]
  /\ channel \in [Consumer -> {"open", "failing", "closed"}]
  /\ handled \subseteq Msg /\ threw \subseteq Msg /\ gone \subseteq Msg
  /\ faults \in 0 .. MaxFaults

LEMMA BooksInit == Init => BooksInv
  BY RabbitAssumption DEF Init, BooksInv

LEMMA FaultStep == BooksInv /\ Fault => faults' \in 0 .. MaxFaults
  BY RabbitAssumption DEF BooksInv, Fault

LEMMA BooksStep == BooksInv /\ LoadInv /\ MapInv /\ AckInv /\ [Next]_vars => BooksInv'
<1> SUFFICES ASSUME BooksInv, LoadInv, MapInv, AckInv, [Next]_vars PROVE BooksInv'
  OBVIOUS
<1>0. put \in Nat /\ arrived \in Nat /\ \A n \in Nat : 1 .. n + 1 = 1 .. n \cup {n + 1}
  BY RabbitAssumption DEF MapInv, LoadInv
<1>1. ASSUME NEW k \in Consumer, busy[k] # 0 PROVE busy[k] \in Msg
  BY <1>1, RabbitAssumption DEF LoadInv, Loaded, Msg
<1>2. CASE Put \/ Publish \/ Close \/ HandleConfirm
  <2>1. UNCHANGED <<arrived, refused, acking, channel, handled, threw, gone, faults>>
    BY <1>2 DEF Put, Publish, Close, HandleConfirm, broker, consumer, books
  <2>2. open' \in BOOLEAN
    BY <1>2 DEF Put, Publish, Close, HandleConfirm, BooksInv
  <2>3. \/ put' = put + 1 /\ map' = map \cup {put + 1}
        \/ put' = put /\ map' \subseteq map
    BY <1>2 DEF Put, Publish, Close, HandleConfirm
  <2>4. map' \subseteq 1 .. put'
    BY <1>0, <2>3 DEF BooksInv
  <2> QED BY <2>1, <2>2, <2>4 DEF BooksInv
<1>3. CASE Take
  <2>1. UNCHANGED <<open, map, put, acking, channel, handled, threw, gone>> /\ arrived' = arrived + 1
    BY <1>3 DEF Take, publisher, consumer, books
  <2>2. refused' = refused \/ refused' = refused \cup {arrived + 1}
    BY <1>3 DEF Take
  <2>4. refused' \subseteq 1 .. arrived'
    BY <1>0, <2>1, <2>2 DEF BooksInv
  <2>3. faults' \in 0 .. MaxFaults
    BY <1>3, FaultStep DEF Take, BooksInv
  <2> QED BY <2>1, <2>3, <2>4 DEF BooksInv
<1>4. CASE SendConfirm
  BY <1>4 DEF SendConfirm, publisher, consumer, books, BooksInv
<1>5. ASSUME NEW k \in Consumer, Deliver(k) \/ EndChannel(k) \/ CloseChannel(k) \/ Start(k)
      PROVE  BooksInv'
  <2>1. UNCHANGED <<open, map, put, arrived, refused, handled, threw, gone>>
    BY <1>5 DEF Deliver, EndChannel, CloseChannel, GiveBack, Start, publisher, broker, books
  <2>2. acking' = acking \/ acking' = [acking EXCEPT ![k] = FALSE]
    BY <1>5 DEF Deliver, EndChannel, CloseChannel, GiveBack, Start
  <2>3. faults' \in 0 .. MaxFaults
    BY <1>5, FaultStep DEF Deliver, EndChannel, CloseChannel, Start, BooksInv
  <2>4. channel' = channel \/ \E s \in {"open", "closed"} : channel' = [channel EXCEPT ![k] = s]
    BY <1>5 DEF Deliver, EndChannel, CloseChannel, Start
  <2> QED BY <2>1, <2>2, <2>3, <2>4 DEF BooksInv
<1>6. ASSUME NEW k \in Consumer, Handle(k) \/ Throw(k) PROVE BooksInv'
  <2>1. UNCHANGED <<open, map, put, arrived, refused, gone>>
    BY <1>6 DEF Handle, Throw, publisher, broker
  <2>2. acking' \in [Consumer -> BOOLEAN]
    <3>1. PICK acks \in BOOLEAN : acking' = [acking EXCEPT ![k] = acks]
      BY <1>6 DEF Handle, Throw, Ended
    <3> QED BY <3>1 DEF BooksInv
  <2>3. handled' \subseteq Msg /\ threw' \subseteq Msg
    BY <1>1, <1>6 DEF Handle, Throw, BooksInv
  <2>4. faults' \in 0 .. MaxFaults
    BY <1>6, FaultStep DEF Handle, Throw, BooksInv
  <2>5. channel' = channel \/ channel' = [channel EXCEPT ![k] = "failing"]
    BY <1>6 DEF Handle, Throw
  <2> QED BY <2>1, <2>2, <2>3, <2>4, <2>5 DEF BooksInv
<1>7. ASSUME NEW k \in Consumer, Ack(k) PROVE BooksInv'
  <2>1. UNCHANGED <<open, map, put, arrived, refused, channel, handled, threw, faults>>
    BY <1>7 DEF Ack, publisher, broker
  <2>2. acking' = [acking EXCEPT ![k] = FALSE] /\ gone' \subseteq Msg
    BY <1>1, <1>7 DEF Ack, AckInv, BooksInv
  <2> QED BY <2>1, <2>2 DEF BooksInv
<1>8. CASE UNCHANGED vars
  BY <1>8 DEF vars, publisher, broker, consumer, books, BooksInv
<1> QED
  BY <1>2, <1>3, <1>4, <1>5, <1>6, <1>7, <1>8 DEF Next, Consume

\* The types; and a consumer works on what it has been delivered and has not
\* acknowledged, never more than its prefetch, though channels end at any moment.
THEOREM TypeCorrect == Spec => []TypeOK
<1>1. MapInv /\ LoadInv /\ BooksInv => TypeOK
  <2> SUFFICES ASSUME MapInv, LoadInv, BooksInv PROVE TypeOK
    OBVIOUS
  <2>1. /\ inbox \in [Consumer -> Seq(Msg)] /\ busy \in [Consumer -> 0 .. Messages]
        /\ unacked \in [Consumer -> SUBSET Msg]
    BY DEF LoadInv, Loaded
  <2>2. ASSUME NEW k \in Consumer
        PROVE  Held(k) \subseteq unacked[k] /\ Cardinality(unacked[k]) <= Prefetch
    BY DEF LoadInv, Loaded, Held, Range
  <2>3. queue \subseteq Msg
    BY RabbitAssumption DEF LoadInv, Msg
  <2> QED BY <2>1, <2>2, <2>3 DEF TypeOK, MapInv, LoadInv, BooksInv
<1> QED
  BY <1>1, AckInit, AckStep, MapInit, MapStep, LoadInit, LoadStep, BooksInit, BooksStep, PTL DEF Spec

-----------------------------------------------------------------------------
\* Where a message the broker has taken in can be, and what leaves the map: both hold
\* in every state, while ConfirmedNotLost, their join, is not inductive.
Somewhere(m) ==
  \/ m \in refused \cup Dealt \cup queue
  \/ \E k \in Consumer : m \in unacked[k]

SafeInv ==
  /\ 1 .. put \ map \subseteq confirmed
  /\ \A m \in (1 .. arrived) \cap Routable : Somewhere(m)

LEMMA SafeInit == Init => SafeInv
  BY DEF Init, SafeInv

LEMMA SafeStep == SafeInv /\ LoadInv /\ MapInv /\ AckInv /\ [Next]_vars => SafeInv'
<1> SUFFICES ASSUME SafeInv, LoadInv, MapInv, AckInv, [Next]_vars PROVE SafeInv'
  OBVIOUS
<1>0. /\ put \in Nat /\ arrived \in Nat /\ unacked = [k \in Consumer |-> unacked[k]]
  BY RabbitAssumption DEF MapInv, LoadInv
\* What a consumer, or the broker for it, does to its messages.
<1>1. ASSUME UNCHANGED <<put, map, arrived, refused, confirmed>>, Dealt \subseteq Dealt',
             NEW k \in Consumer, \A j \in Consumer \ {k} : unacked'[j] = unacked[j],
             queue \cup unacked[k] \subseteq Dealt' \cup queue' \cup unacked'[k]
      PROVE  SafeInv'
  <2> SUFFICES ASSUME NEW m, Somewhere(m) PROVE Somewhere(m)'
    BY <1>1 DEF SafeInv
  <2>1. CASE m \in refused \cup Dealt
    BY <1>1, <2>1 DEF Somewhere
  <2>2. CASE m \in queue \cup unacked[k]
    BY <1>1, <2>2 DEF Somewhere
  <2>3. ASSUME NEW j \in Consumer \ {k}, m \in unacked[j] PROVE Somewhere(m)'
    BY <1>1, <2>3 DEF Somewhere
  <2> QED BY <2>1, <2>2, <2>3 DEF Somewhere
<1>2. ASSUME UNCHANGED <<arrived, refused, queue, unacked, mode, books>>,
             (1 .. put \ map \subseteq confirmed)'
      PROVE  SafeInv'
  BY <1>2 DEF SafeInv, Somewhere, Dealt, books
<1>3. CASE Put \/ Publish \/ Close
  <2>1. UNCHANGED <<arrived, refused, confirmed, queue, unacked, mode, books>>
    BY <1>3 DEF Put, Publish, Close, broker, consumer
  <2>2. (1 .. put \ map \subseteq confirmed)'
    BY <1>0, <1>3, <2>1 DEF Put, Publish, Close, SafeInv
  <2> QED BY <1>2, <2>1, <2>2
<1>4. CASE HandleConfirm
  <2>1. /\ UNCHANGED <<put, arrived, refused, confirmed, queue, unacked, mode, books>>
        /\ confirms # << >> /\ map' = map \ Named(Head(confirms))
    BY <1>4 DEF HandleConfirm, consumer
  <2>2. 1 \in DOMAIN confirms /\ Head(confirms) = confirms[1]
    BY <2>1 DEF MapInv
  <2>3. Named(Head(confirms)) \subseteq confirmed
    BY <2>2 DEF MapInv, Names
  <2> QED BY <1>2, <2>1, <2>3 DEF SafeInv
<1>5. CASE SendConfirm
  <2>1. UNCHANGED <<put, map, arrived, refused, queue, unacked, mode, books>> /\ confirmed \subseteq confirmed'
    BY <1>5 DEF SendConfirm, publisher, consumer
  <2> QED BY <1>2, <2>1 DEF SafeInv
<1>6. CASE Take
  <2>1. /\ UNCHANGED <<put, map, confirmed, unacked, mode, books>> /\ arrived' = arrived + 1
        /\ queue \subseteq queue' /\ refused \subseteq refused'
        /\ arrived + 1 \in Routable => arrived + 1 \in queue' \cup refused'
    BY <1>6 DEF Take, publisher, consumer
  <2>2. 1 .. arrived' = 1 .. arrived \cup {arrived + 1}
    BY <1>0, <2>1
  <2>3. \A m : Somewhere(m) => Somewhere(m)'
    BY <2>1 DEF Somewhere, Dealt, books
  <2>4. ASSUME NEW m \in Routable, m = arrived + 1 PROVE Somewhere(m)'
    BY <2>1, <2>4 DEF Somewhere
  <2> QED BY <2>1, <2>2, <2>3, <2>4 DEF SafeInv
<1>7. ASSUME NEW k \in Consumer, Deliver(k) \/ EndChannel(k) \/ CloseChannel(k) \/ Start(k)
      PROVE  SafeInv'
  <2>1. UNCHANGED <<put, map, arrived, refused, confirmed, mode, books>>
    BY <1>7 DEF Deliver, EndChannel, CloseChannel, Start, publisher, broker
  <2>2. Dealt' = Dealt
    BY <2>1 DEF Dealt, books
  <2>3. /\ \A j \in Consumer \ {k} : unacked'[j] = unacked[j]
        /\ queue \cup unacked[k] \subseteq queue' \cup unacked'[k]
    BY <1>0, <1>7 DEF Deliver, EndChannel, CloseChannel, GiveBack, Start
  <2> QED BY <1>1, <2>1, <2>2, <2>3
<1>8. ASSUME NEW k \in Consumer, Handle(k) \/ Throw(k) PROVE SafeInv'
  <2>1. UNCHANGED <<put, map, arrived, refused, confirmed, queue, unacked>> /\ Dealt \subseteq Dealt'
    BY <1>8 DEF Handle, Throw, publisher, broker, Dealt
  <2> QED BY <1>1, <2>1
<1>9. ASSUME NEW k \in Consumer, Ack(k) PROVE SafeInv'
  <2>1. UNCHANGED <<put, map, arrived, refused, confirmed, queue>> /\ Dealt' = Dealt
    BY <1>9 DEF Ack, publisher, broker, Dealt
  <2>2. unacked' = [unacked EXCEPT ![k] = @ \ {busy[k]}] /\ busy[k] \in Dealt
    BY <1>9 DEF Ack, AckInv
  <2>3. /\ \A j \in Consumer \ {k} : unacked'[j] = unacked[j]
        /\ unacked'[k] = unacked[k] \ {busy[k]}
    BY <1>0, <2>2
  <2> QED BY <1>1, <2>1, <2>2, <2>3
<1>10. CASE UNCHANGED vars
  BY <1>2, <1>10 DEF vars, publisher, broker, consumer, SafeInv
<1> QED
  BY <1>3, <1>4, <1>5, <1>6, <1>7, <1>8, <1>9, <1>10 DEF Next, Consume

\* Once the publisher has dropped a message that has a queue from its map, the
\* message is ready, unacknowledged or has been worked on, unless the broker refused it.
THEOREM NothingConfirmedIsLost == Spec => []ConfirmedNotLost
<1>1. MapInv /\ SafeInv => ConfirmedNotLost
  BY DEF MapInv, SafeInv, Somewhere, ConfirmedNotLost
<1> QED
  BY <1>1, AckInit, AckStep, MapInit, MapStep, LoadInit, LoadStep, SafeInit, SafeStep, PTL DEF Spec
=============================================================================

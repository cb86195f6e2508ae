-------------------------- MODULE RmiRegistryProof --------------------------
(***************************************************************************)
(* The consumer's chain of one-shot watches and its lists of nodes, for any *)
(* number of providers and changes.                                         *)
(***************************************************************************)
EXTENDS RmiRegistry, FiniteSetTheorems, TLAPS

\* The part of the type invariant the proof needs.
PcOK == pc \in [Thread -> ThreadPC]

ChainInv == PcOK /\ Listening

LEMMA ChainInit == Init => ChainInv
  BY DEF Init, ChainInv, PcOK, Listening, Thread, ThreadPC

LEMMA ChainStep == ChainInv /\ [Next]_vars => ChainInv'
<1> SUFFICES ASSUME ChainInv, [Next]_vars PROVE ChainInv'
  OBVIOUS
<1> USE DEF ChainInv, PcOK, Listening, Thread, ThreadPC, notify
<1>1. CASE UNCHANGED vars
  BY <1>1 DEF vars
<1>2. ASSUME NEW p \in Provider, Register(p) \/ ProviderLost(p) \/ Die(p) \/ Restart(p)
      PROVE  ChainInv'
  \* Providers leave the consumer's threads alone; a change moves the watch to
  \* a coming event.
  <2>1. CASE Publish(p) \/ RootCheck(p) \/ RootCreate(p) \/ Die(p) \/ Restart(p)
    BY <2>1 DEF Publish, RootCheck, RootCreate, Die, Restart
  <2>2. CASE CreateNode(p)
    BY <2>2 DEF CreateNode, Change
  <2>3. CASE ProviderLost(p)
    <3>1. pc' = pc /\ deaf' = deaf
      BY <2>3 DEF ProviderLost
    <3>2. UNCHANGED notify \/ (armed' = FALSE /\ pending' = (pending \/ armed))
      BY <2>3 DEF ProviderLost, Change
    <3> QED
      BY <3>1, <3>2
  <2> QED
    BY <1>2, <2>1, <2>2, <2>3 DEF Register
<1>3. CASE Expire
  BY <1>3 DEF Expire, Change
<1>4. ASSUME NEW t \in Thread, WatchNode(t) \/ Lost(t)
      PROVE  ChainInv'
  <2>1. CASE Children(t)
    BY <2>1 DEF Children
  <2>2. CASE NoRoot(t)
    BY <2>2 DEF NoRoot, Return
  \* getData may fail: the watch was set before.
  <2>3. CASE Data(t)
    BY <2>3 DEF Data, Return
  <2>4. CASE Assign(t)
    BY <2>4 DEF Assign, Return
  <2>5. CASE Lost(t)
    <3>1. CASE pc[t] = "children"
      BY <2>5, <3>1 DEF Lost, Return
    <3>2. CASE pc[t] = "data"
      BY <2>5, <3>2 DEF Lost, Return
    <3> QED
      BY <2>5, <3>1, <3>2 DEF Lost
  <2> QED
    BY <1>4, <2>1, <2>2, <2>3, <2>4, <2>5 DEF WatchNode
<1>5. CASE Notified
  BY <1>5 DEF Notified
<1>6. CASE LookupSize \/ LookupGet \/ Call
  BY <1>6 DEF LookupSize, LookupGet, Call, MGoto
<1> QED
  BY <1>1, <1>2, <1>3, <1>4, <1>5, <1>6 DEF Next, Main, Event

\* The consumer goes on hearing of changes until getChildren itself throws:
\* children that go while their data is read, lost getData calls and changes
\* during a read do not break the chain (Consumer.java:47-51).
THEOREM ChainUnbroken == Spec => []Listening
<1>1. ChainInv => Listening
  BY DEF ChainInv
<1> QED
  BY ChainInit, ChainStep, <1>1, PTL DEF Spec

-----------------------------------------------------------------------------
(* The types.  That a copy holds no more than MaxNodes urls needs that no    *)
(* two nodes share a sequence number, in the registry or in what was read.   *)

Going == {q \in Provider : ppc[q] \in Underway}
OneEach(S) == \A m, n \in S : m.seq = n.seq => m = n

\* A provider on its way to its node has room for it.
RoomInv ==
  /\ root \in BOOLEAN
  /\ ppc \in [Provider -> ProviderPC] /\ bound \subseteq Provider
  /\ faults \in 0 .. MaxFaults
  /\ seq \in Nat /\ IsFiniteSet(Going) /\ seq + Cardinality(Going) <= MaxNodes
  /\ nodes \subseteq Node /\ orphans \subseteq nodes
  /\ \A n \in nodes : n.seq <= seq
  /\ OneEach(nodes)

ReadInv ==
  /\ todo \in [Thread -> SUBSET Node] /\ list \in [Thread -> SUBSET Node]
  /\ \A t \in Thread : todo[t] \cap list[t] = {} /\ OneEach(todo[t] \cup list[t])
  /\ urls \subseteq Node /\ OneEach(urls)
  /\ size \in 0 .. MaxNodes

FlagInv == armed \in BOOLEAN /\ pending \in BOOLEAN /\ deaf \in BOOLEAN

LEMMA GoingSize ==
  ASSUME RoomInv
  PROVE  Cardinality(Going) \in Nat /\ seq + Cardinality(Going) \in 0 .. MaxNodes
  BY FS_CardinalityType, RegistryAssumption DEF RoomInv

\* A provider that moves on frees its room when it is done, and takes some when it
\* starts.
LEMMA GoingStep ==
  ASSUME RoomInv, NEW p \in Provider, NEW label \in ProviderPC, PGoto(p, label)
  PROVE  /\ ppc' \in [Provider -> ProviderPC] /\ IsFiniteSet(Going')
         /\ label \notin Underway => Going' = Going \ {p}
         /\ label \in Underway => Going' = Going \cup {p}
         /\ label \notin Underway /\ p \in Going => Cardinality(Going') = Cardinality(Going) - 1
         /\ label \notin Underway \/ p \in Going => Cardinality(Going') <= Cardinality(Going)
         /\ Cardinality(Going') <= Cardinality(Going) + 1
<1>1. ppc' \in [Provider -> ProviderPC] /\ ppc' = [ppc EXCEPT ![p] = label]
  BY DEF PGoto, RoomInv
<1>2. label \notin Underway => Going' = Going \ {p}
  BY <1>1 DEF Going, RoomInv
<1>3. label \in Underway => Going' = Going \cup {p}
  BY <1>1 DEF Going, RoomInv
<1>4. /\ IsFiniteSet(Going \ {p})
      /\ Cardinality(Going \ {p}) = IF p \in Going THEN Cardinality(Going) - 1 ELSE Cardinality(Going)
      /\ IsFiniteSet(Going \cup {p})
      /\ Cardinality(Going \cup {p}) = IF p \in Going THEN Cardinality(Going) ELSE Cardinality(Going) + 1
  BY FS_AddElement, FS_RemoveElement DEF RoomInv
<1>5. Cardinality(Going) \in Nat
  BY GoingSize
<1>6. CASE label \in Underway
  <2>1. Going' = Going \cup {p}
    BY <1>3, <1>6
  <2> QED BY <1>1, <1>4, <1>5, <1>6, <2>1
<1>7. CASE label \notin Underway
  <2>1. Going' = Going \ {p}
    BY <1>2, <1>7
  <2> QED BY <1>1, <1>4, <1>5, <1>7, <2>1
<1> QED BY <1>6, <1>7

\* A provider without a new node.
LEMMA ProviderMoves ==
  ASSUME RoomInv, NEW p \in Provider, NEW label \in ProviderPC, PGoto(p, label),
         \/ label \notin Underway \/ p \in Going
         \/ seq + Cardinality(Going) < MaxNodes,
         root' \in BOOLEAN, bound' \subseteq Provider, faults' \in 0 .. MaxFaults,
         UNCHANGED <<nodes, seq>>, orphans' \subseteq nodes
  PROVE  RoomInv'
<1>1. seq + Cardinality(Going') <= MaxNodes
  BY GoingStep, GoingSize, RegistryAssumption, FS_CardinalityType DEF RoomInv
<1> QED BY <1>1, GoingStep DEF RoomInv, OneEach

\* A provider that gets its node, with a sequence number of its own.
LEMMA NodeMade ==
  ASSUME RoomInv, NEW p \in Provider, ppc[p] = "create", PGoto(p, "up"),
         seq' = seq + 1, Change(nodes \cup {[owner |-> p, seq |-> seq + 1]}),
         faults' \in 0 .. MaxFaults, UNCHANGED <<root, orphans, bound>>
  PROVE  RoomInv'
<1> DEFINE new == [owner |-> p, seq |-> seq + 1]
<1>1. p \in Going
  BY DEF Going, Underway
<1>2. "up" \in ProviderPC \ Underway
  BY DEF ProviderPC, Underway
<1>3. Cardinality(Going') = Cardinality(Going) - 1 /\ Cardinality(Going) \in Nat
  BY <1>1, <1>2, GoingStep, GoingSize
<1>4. Cardinality(Going) # 0
  BY <1>1, FS_EmptySet DEF RoomInv
<1>5. seq + 1 \in 1 .. MaxNodes /\ seq' + Cardinality(Going') <= MaxNodes
  BY <1>3, <1>4, RegistryAssumption DEF RoomInv
<1>6. new \in Node /\ new.seq = seq + 1
  BY <1>5 DEF Node
<1> HIDE DEF new
<1>7. nodes' = nodes \cup {new}
  BY DEF Change, new
<1>8. \A n \in nodes : n.seq \in Nat /\ n.seq <= seq
  BY DEF RoomInv, Node
<1>9. (\A n \in nodes : n.seq <= seq)' /\ OneEach(nodes)'
  BY <1>6, <1>7, <1>8 DEF RoomInv, OneEach
<1>10. nodes' \subseteq Node /\ orphans' \subseteq nodes'
  BY <1>6, <1>7 DEF RoomInv
<1> QED BY <1>2, <1>5, <1>9, <1>10, GoingStep DEF RoomInv

\* A copy has no more urls than there were nodes.
LEMMA UrlsFit ==
  ASSUME ReadInv
  PROVE  Cardinality(urls) \in 0 .. MaxNodes
<1> DEFINE f == [n \in urls |-> n.seq]
<1>1. f \in Injection(urls, 1 .. MaxNodes)
  BY DEF ReadInv, OneEach, Node, Injection, IsInjective
<1>2. IsFiniteSet(1 .. MaxNodes) /\ Cardinality(1 .. MaxNodes) = MaxNodes
  BY FS_Interval, RegistryAssumption
<1> HIDE DEF f
<1>3. IsFiniteSet(urls) /\ Cardinality(urls) <= MaxNodes
  BY <1>1, <1>2, FS_Injection
<1> QED BY <1>3, FS_CardinalityType, RegistryAssumption

LEMMA TypeInit == Init => RoomInv /\ ReadInv /\ FlagInv
<1> SUFFICES ASSUME Init PROVE RoomInv /\ ReadInv /\ FlagInv
  OBVIOUS
<1>1. Going = {}
  BY DEF Init, Going, Underway
<1>2. RoomInv
  BY <1>1, FS_EmptySet, RegistryAssumption DEF Init, RoomInv, OneEach, ProviderPC
<1>3. ReadInv
  BY RegistryAssumption DEF Init, ReadInv, OneEach
<1> QED BY <1>2, <1>3 DEF Init, FlagInv

LEMMA RoomStep == RoomInv /\ [Next]_vars => RoomInv'
<1> SUFFICES ASSUME RoomInv, [Next]_vars PROVE RoomInv'
  OBVIOUS
<1>0. /\ root \in BOOLEAN /\ bound \subseteq Provider /\ orphans \subseteq nodes
      /\ faults \in 0 .. MaxFaults
  BY DEF RoomInv
<1>1. ASSUME UNCHANGED <<root, nodes, seq, orphans, provider>>, faults' \in 0 .. MaxFaults PROVE RoomInv'
  BY <1>1 DEF RoomInv, Going, OneEach, provider
<1>2. ASSUME NEW p \in Provider, Publish(p) PROVE RoomInv'
  <2>1. /\ PGoto(p, "exists") /\ seq + Cardinality(Going) < MaxNodes /\ bound' \subseteq Provider
        /\ UNCHANGED <<root, nodes, seq, orphans, faults>>
    BY <1>0, <1>2 DEF Publish, Going, server
  <2> QED BY <1>0, <2>1, ProviderMoves DEF ProviderPC
<1>3. ASSUME NEW p \in Provider, RootCheck(p) \/ RootCreate(p) PROVE RoomInv'
  <2>1. /\ p \in Going /\ root' \in BOOLEAN
        /\ PGoto(p, "create") \/ PGoto(p, "mkroot") \/ PGoto(p, "threw")
        /\ UNCHANGED <<nodes, seq, orphans, bound, faults>>
    BY <1>0, <1>3 DEF RootCheck, RootCreate, Going, Underway, server
  <2> QED BY <1>0, <2>1, ProviderMoves DEF ProviderPC
<1>4. ASSUME NEW p \in Provider, CreateNode(p) PROVE RoomInv'
  BY <1>0, <1>4, NodeMade DEF CreateNode
<1>5. ASSUME NEW p \in Provider, ProviderLost(p) PROVE RoomInv'
  <2>1. faults' \in 0 .. MaxFaults /\ UNCHANGED bound
    BY <1>0, <1>5, RegistryAssumption DEF ProviderLost
  <2>2. CASE /\ PGoto(p, "threw") \/ PGoto(p, "up")
             /\ UNCHANGED server
    BY <1>0, <2>1, <2>2, ProviderMoves DEF ProviderPC, Underway, server
  <2>3. CASE /\ ppc[p] = "create" /\ PGoto(p, "up") /\ seq' = seq + 1
             /\ Change(nodes \cup {[owner |-> p, seq |-> seq + 1]}) /\ UNCHANGED <<root, orphans>>
    BY <2>1, <2>3, NodeMade
  <2> QED BY <1>5, <2>2, <2>3 DEF ProviderLost
<1>6. ASSUME NEW p \in Provider, Die(p) \/ Restart(p) PROVE RoomInv'
  <2>1. /\ PGoto(p, "dead") \/ PGoto(p, "start")
        /\ bound' \subseteq Provider /\ orphans' \subseteq nodes
        /\ UNCHANGED <<root, nodes, seq, faults>>
    BY <1>0, <1>6 DEF Die, Restart, server
  <2> QED BY <1>0, <2>1, ProviderMoves DEF ProviderPC, Underway
<1>7. CASE Expire
  <2>1. /\ UNCHANGED <<root, seq, provider, faults>>
        /\ nodes' \subseteq nodes /\ orphans' \subseteq nodes'
    BY <1>0, <1>7 DEF Expire, Change
  <2> QED BY <2>1 DEF RoomInv, Going, OneEach, provider
<1>8. CASE Main \/ Event \/ \E t \in Thread : Lost(t)
  <2>1. UNCHANGED <<server, provider>>
    BY <1>8 DEF Main, Event, WatchNode, Children, NoRoot, Data, Assign, Lost, Notified, LookupSize,
                LookupGet, Call
  <2>2. faults' \in 0 .. MaxFaults
    BY <1>0, <1>8, RegistryAssumption
    DEF Main, Event, WatchNode, Children, NoRoot, Data, Assign, Lost, Notified, LookupSize, LookupGet, Call
  <2> QED BY <1>1, <2>1, <2>2 DEF server
<1>9. CASE UNCHANGED vars
  BY <1>0, <1>1, <1>9 DEF vars, server
<1> QED
  BY <1>2, <1>3, <1>4, <1>5, <1>6, <1>7, <1>8, <1>9 DEF Next, Register

LEMMA ReadStep == ReadInv /\ RoomInv /\ [Next]_vars => ReadInv'
<1> SUFFICES ASSUME ReadInv, RoomInv, [Next]_vars PROVE ReadInv'
  OBVIOUS
<1>1. ASSUME UNCHANGED <<reading, size>> PROVE ReadInv'
  BY <1>1 DEF ReadInv, OneEach, reading
\* What one thread reads.
<1>2. ASSUME NEW t \in Thread, UNCHANGED <<urls, size>>,
             NEW T \in SUBSET Node, NEW L \in SUBSET Node, T \cap L = {}, OneEach(T \cup L),
             todo' = [todo EXCEPT ![t] = T], list' = [list EXCEPT ![t] = L]
      PROVE  ReadInv'
  BY <1>2 DEF ReadInv, OneEach
<1>3. ASSUME NEW t \in Thread, Children(t) PROVE ReadInv'
  <2>1. /\ todo' = [todo EXCEPT ![t] = nodes] /\ list' = [list EXCEPT ![t] = {}]
        /\ UNCHANGED <<urls, size>>
    BY <1>3 DEF Children
  <2>2. nodes \in SUBSET Node /\ {} \in SUBSET Node /\ nodes \cap {} = {} /\ OneEach(nodes \cup {})
    BY DEF RoomInv, OneEach
  <2> QED BY <1>2, <2>1, <2>2
<1>4. ASSUME NEW t \in Thread, Data(t) PROVE ReadInv'
  <2>1. PICK n \in todo[t] : /\ todo' = [todo EXCEPT ![t] = @ \ {n}]
                             /\ \/ list' = [list EXCEPT ![t] = @ \cup {n}]
                                \/ list' = [list EXCEPT ![t] = @]
    BY <1>4 DEF Data, ReadInv
  <2>2. /\ todo[t] \subseteq Node /\ list[t] \subseteq Node /\ todo[t] \cap list[t] = {}
        /\ OneEach(todo[t] \cup list[t])
    BY DEF ReadInv
  <2>3. \A S : S \subseteq todo[t] \cup list[t] => OneEach(S)
    BY <2>2 DEF OneEach
  <2>4. UNCHANGED <<urls, size>>
    BY <1>4 DEF Data
  <2> DEFINE rest == todo[t] \ {n}
  <2>5. PICK read \in {list[t], list[t] \cup {n}} : list' = [list EXCEPT ![t] = read]
    BY <2>1
  <2>6. rest \in SUBSET Node /\ read \in SUBSET Node /\ rest \cap read = {} /\ OneEach(rest \cup read)
    BY <2>1, <2>2, <2>3
  <2>7. todo' = [todo EXCEPT ![t] = rest]
    BY <2>1
  <2> HIDE DEF rest
  <2> QED BY <1>2, <2>4, <2>5, <2>6, <2>7
<1>5. ASSUME NEW t \in Thread, Assign(t) PROVE ReadInv'
  <2>1. urls' = list[t] /\ UNCHANGED <<todo, list, size>>
    BY <1>5 DEF Assign
  <2>2. list[t] \subseteq Node /\ OneEach(list[t])
    BY DEF ReadInv, OneEach
  <2> QED BY <2>1, <2>2 DEF ReadInv, OneEach
<1>6. CASE LookupSize
  <2>1. size' \in 0 .. MaxNodes /\ UNCHANGED reading
    BY <1>6, UrlsFit DEF LookupSize
  <2> QED BY <2>1 DEF ReadInv, OneEach, reading
<1>7. CASE LookupGet \/ Call \/ Notified \/ Expire \/ \E t \in Thread : NoRoot(t) \/ Lost(t)
  BY <1>1, <1>7 DEF LookupGet, Call, Notified, Expire, NoRoot, Lost
<1>8. CASE \E p \in Provider : Register(p) \/ ProviderLost(p) \/ Die(p) \/ Restart(p)
  BY <1>1, <1>8
  DEF Register, Publish, RootCheck, RootCreate, CreateNode, ProviderLost, Die, Restart
<1>9. CASE UNCHANGED vars
  BY <1>1, <1>9 DEF vars
<1> QED
  BY <1>3, <1>4, <1>5, <1>6, <1>7, <1>8, <1>9 DEF Next, Main, Event, WatchNode, Thread

LEMMA FlagStep == FlagInv /\ [Next]_vars => FlagInv'
<1> SUFFICES ASSUME FlagInv, [Next]_vars PROVE FlagInv'
  OBVIOUS
<1>1. ASSUME UNCHANGED <<notify, deaf>> PROVE FlagInv'
  BY <1>1, Zenon DEF FlagInv, notify
<1>2. ASSUME NEW new, Change(new), deaf' = deaf PROVE FlagInv'
  BY <1>2, Zenon DEF FlagInv, Change
<1>3. ASSUME NEW p \in Provider, Register(p) \/ ProviderLost(p) \/ Die(p) \/ Restart(p) PROVE FlagInv'
  BY <1>1, <1>2, <1>3
  DEF Register, Publish, RootCheck, RootCreate, CreateNode, ProviderLost, Die, Restart
<1>4. CASE Expire
  BY <1>2, <1>4 DEF Expire
<1>5. ASSUME NEW t \in Thread, WatchNode(t) \/ Lost(t) PROVE FlagInv'
  BY <1>5, Zenon DEF WatchNode, Children, NoRoot, Data, Assign, Lost, FlagInv, notify
<1>6. CASE Notified
  BY <1>6, Zenon DEF Notified, FlagInv
<1>7. CASE LookupSize \/ LookupGet \/ Call
  BY <1>1, <1>7 DEF LookupSize, LookupGet, Call
<1>8. CASE UNCHANGED vars
  BY <1>1, <1>8 DEF vars
<1> QED
  BY <1>3, <1>4, <1>5, <1>6, <1>7, <1>8 DEF Next, Main, Event, Thread

\* The types; the constructor's list and the event thread's are apart from what each
\* has still to read, and a copy never has more urls than nodes were made.
THEOREM TypeCorrect == Spec => []TypeOK
<1>1. ChainInv /\ RoomInv /\ ReadInv /\ FlagInv => TypeOK
  <2> SUFFICES ASSUME ChainInv, RoomInv, ReadInv, FlagInv PROVE TypeOK
    OBVIOUS
  <2>1. seq \in 0 .. MaxNodes
    BY GoingSize, RegistryAssumption DEF RoomInv
  <2> QED BY <2>1 DEF TypeOK, ChainInv, PcOK, RoomInv, ReadInv, FlagInv
<1> QED
  BY <1>1, ChainInit, ChainStep, TypeInit, RoomStep, ReadStep, FlagStep, PTL DEF Spec

-----------------------------------------------------------------------------
(* The copy and the registry.                                                *)

\* News of a change is in one place: a watch that is set, an event that comes, or a
\* thread about to read the children.
OneNotice ==
  /\ armed => ~pending
  /\ armed \/ pending => \A t \in Thread : pc[t] # "children"
  /\ pc["main"] = "children" => pc["event"] = "idle"

\* While the watch is set, what a thread has in hand is what the registry holds, and
\* when no thread has anything in hand the copy is.
WatchCovers ==
  armed => /\ \A t \in Thread : pc[t] = "data" => todo[t] \cup list[t] = nodes
           /\ (\A t \in Thread : pc[t] # "data") => urls = nodes

CopyInv == OneNotice /\ WatchCovers

\* A change of the children disarms the watch.
LEMMA ChangeStep ==
  ASSUME FlagInv, CopyInv, NEW new, Change(new), UNCHANGED pc
  PROVE  CopyInv'
BY Zenon DEF FlagInv, CopyInv, OneNotice, WatchCovers, Change

LEMMA CopyStep ==
  ASSUME ChainInv, FlagInv, RoomInv, ReadInv, CopyInv, Undisturbed, Undisturbed', [Next]_vars
  PROVE  CopyInv'
<1> USE DEF Thread
<1>1. pc \in [Thread -> ThreadPC] /\ (pc["main"] = "data" => pc["event"] = "idle")
  BY DEF ChainInv, PcOK, Undisturbed, Overlap
<1>2. pc'["main"] = "data" => pc'["event"] = "idle"
  BY DEF Undisturbed, Overlap
<1>3. ASSUME UNCHANGED <<nodes, notify, pc, todo, list, urls>> PROVE CopyInv'
  BY <1>3 DEF CopyInv, OneNotice, WatchCovers, notify
<1>4. ASSUME NEW p \in Provider, Register(p) \/ ProviderLost(p) \/ Die(p) \/ Restart(p) PROVE CopyInv'
  BY <1>3, <1>4, ChangeStep
  DEF Register, Publish, RootCheck, RootCreate, CreateNode, ProviderLost, Die, Restart, server, reading
<1>5. CASE Expire
  BY <1>5, ChangeStep DEF Expire
\* No other thread has anything in hand: the constructor's watchNode() is over, or the
\* event thread idle.
<1>6. ASSUME NEW t \in Thread, Children(t) PROVE CopyInv'
  <2>1. /\ pc[t] = "children" /\ pc' = [pc EXCEPT ![t] = "data"] /\ armed' /\ UNCHANGED <<nodes, pending>>
        /\ todo' = [todo EXCEPT ![t] = nodes] /\ list' = [list EXCEPT ![t] = {}]
    BY <1>6 DEF Children, server
  <2>2. ~pending
    BY <2>1 DEF CopyInv, OneNotice
  <2>3. \A u \in Thread \ {t} : pc'[u] \notin {"children", "data"}
    BY <1>1, <1>2, <2>1 DEF CopyInv, OneNotice
  <2>4. pc'[t] = "data" /\ todo'[t] \cup list'[t] = nodes
    BY <1>1, <2>1 DEF ReadInv
  <2>5. OneNotice'
    BY <1>2, <2>1, <2>2, <2>3, <2>4 DEF OneNotice
  <2>6. WatchCovers'
    BY <2>1, <2>3, <2>4 DEF WatchCovers
  <2> QED BY <2>5, <2>6 DEF CopyInv
\* A child that has gone was watched: an event is coming.
<1>7. ASSUME NEW t \in Thread, Data(t) PROVE CopyInv'
  <2>1. /\ pc[t] = "data" /\ UNCHANGED <<nodes, armed, pending, urls>>
        /\ pc' = pc \/ Return(t)
    BY <1>7 DEF Data, server, notify
  <2>2. OneNotice'
    BY <1>1, <2>1 DEF CopyInv, OneNotice, Return
  <2>3. ASSUME armed PROVE /\ UNCHANGED pc
                           /\ todo'[t] \cup list'[t] = nodes
                           /\ \A u \in Thread \ {t} : todo'[u] = todo[u] /\ list'[u] = list[u]
    <3>1. todo[t] \cup list[t] = nodes
      BY <2>1, <2>3 DEF CopyInv, WatchCovers
    <3> QED BY <1>7, <3>1 DEF Data, ReadInv
  <2>4. WatchCovers'
    BY <2>1, <2>3 DEF CopyInv, WatchCovers
  <2> QED BY <2>2, <2>4 DEF CopyInv
<1>8. ASSUME NEW t \in Thread, Assign(t) PROVE CopyInv'
  <2>1. /\ pc[t] = "data" /\ todo[t] = {} /\ urls' = list[t] /\ Return(t)
        /\ UNCHANGED <<nodes, armed, pending, todo, list>>
    BY <1>8 DEF Assign, server, notify
  <2>2. OneNotice'
    BY <1>1, <2>1 DEF CopyInv, OneNotice, Return
  <2>3. armed => list[t] = nodes
    BY <2>1 DEF CopyInv, WatchCovers
  <2>4. \A u \in Thread : pc'[u] = "data" => pc[u] = "data"
    BY <1>1, <2>1 DEF Return
  <2>5. WatchCovers'
    BY <2>1, <2>3, <2>4 DEF CopyInv, WatchCovers
  <2> QED BY <2>2, <2>5 DEF CopyInv
<1>9. CASE Notified
  <2>1. /\ pending /\ pending' = FALSE /\ armed' = armed /\ pc["event"] = "idle"
        /\ pc' = [pc EXCEPT !["event"] = "children"]
    BY <1>9 DEF Notified
  <2>2. ~armed
    BY <2>1 DEF CopyInv, OneNotice
  <2>3. pc'["main"] # "children"
    BY <1>1, <2>1 DEF CopyInv, OneNotice
  <2> QED BY <2>1, <2>2, <2>3 DEF CopyInv, OneNotice, WatchCovers
<1>10. CASE LookupSize \/ LookupGet \/ Call
  <2>1. /\ UNCHANGED <<nodes, armed, pending, todo, list, urls>>
        /\ pc["main"] \in {"lookup", "get", "rmi"}
        /\ \E label \in {"idle", "get", "rmi", "threw"} : pc' = [pc EXCEPT !["main"] = label]
    BY <1>10 DEF LookupSize, LookupGet, Call, MGoto, server, notify, reading
  <2>2. /\ pc'["event"] = pc["event"] /\ pc'["main"] \notin {"children", "data"}
    BY <1>1, <2>1
  <2> QED BY <2>1, <2>2 DEF CopyInv, OneNotice, WatchCovers
\* Steps that Undisturbed excludes.
<1>11. CASE \E t \in Thread : NoRoot(t) \/ Lost(t)
  <2>1. deaf' \/ faults' = faults + 1
    BY <1>11 DEF NoRoot, Lost
  <2> QED BY <2>1 DEF Undisturbed
<1>12. CASE UNCHANGED vars
  BY <1>3, <1>12 DEF vars, server, reading
<1> QED
  BY <1>4, <1>5, <1>6, <1>7, <1>8, <1>9, <1>10, <1>11, <1>12 DEF Next, Main, Event, WatchNode

Current == Quiet => urls = nodes

\* As long as the threads did not overlap and no call was lost, the copy is out of date
\* only while news of that is on its way or being read, for any number of providers
\* and changes, at any point of a read.
THEOREM CopyIsCurrent == Spec => CopyCurrent
<1>1. Init => CopyInv
  BY DEF Init, CopyInv, OneNotice, WatchCovers, Thread
<1>2. ChainInv /\ CopyInv /\ Undisturbed => Current
  BY DEF ChainInv, Listening, CopyInv, WatchCovers, Undisturbed, Quiet, Current
<1>3. ChainInv /\ FlagInv /\ RoomInv /\ ReadInv /\ CopyInv /\ Undisturbed /\ Undisturbed' /\ [Next]_vars => CopyInv'
  BY CopyStep
<1>4. Spec => ([]Undisturbed => []Current)
  BY <1>1, <1>2, <1>3, ChainInit, ChainStep, TypeInit, RoomStep, ReadStep, FlagStep, PTL DEF Spec
<1> QED BY <1>4, PTL DEF CopyCurrent, Current
=============================================================================

---------------------------- MODULE RmiRegistry ----------------------------
(***************************************************************************)
(* Service registration and discovery on ZooKeeper (zk/rmi/Provider.java,   *)
(* zk/rmi/Consumer.java): providers put their RMI url into an ephemeral     *)
(* sequential node below /rmi, a consumer keeps a copy of the urls, renewed *)
(* by a one-shot watch, and picks one for each lookup.                      *)
(*                                                                         *)
(* The consumer's constructor and the session's event thread both run       *)
(* watchNode(), without a lock.  A node is known by its provider and by its *)
(* sequence number; urls holds the providers' nodes whose data was read.    *)
(***************************************************************************)
EXTENDS Naturals, FiniteSets

CONSTANTS Provider,
          RootExists,  \* whether /rmi exists at the start
          MaxNodes,    \* how many nodes are created
          MaxFaults    \* how many calls end in ConnectionLoss

ASSUME RegistryAssumption == /\ RootExists \in BOOLEAN
                             /\ MaxNodes \in Nat /\ MaxFaults \in Nat

Thread == {"main", "event"}
Node   == [owner : Provider, seq : 1 .. MaxNodes]

VARIABLES root,     \* does /rmi exist
          nodes,    \* the children of /rmi
          seq,      \* sequence numbers given out
          orphans,  \* the nodes whose provider is dead, until its session ends
          ppc,      \* where each provider is
          bound,    \* the providers the RMI registry knows
          armed,    \* is a child watch of the consumer set
          pending,  \* is a NodeChildrenChanged event on its way
          pc,       \* where the two threads of the consumer are
          todo,     \* per thread: the children whose data is still to be read
          list,     \* per thread: those whose data was read
          urls,     \* the shared copy
          size,     \* lookup(): the size read first
          deaf,     \* history: getChildren has thrown
          faults

server   == <<root, nodes, seq, orphans>>
provider == <<ppc, bound>>
notify   == <<armed, pending>>
reading  == <<todo, list, urls>>
vars     == <<server, provider, notify, pc, reading, size, deaf, faults>>

ThreadPC == {"idle", "children", "data", "lookup", "get", "rmi", "threw"}
ProviderPC == {"start", "exists", "mkroot", "create", "up", "threw", "dead"}
Underway == {"exists", "mkroot", "create"}

TypeOK ==
  /\ root \in BOOLEAN
  /\ nodes \subseteq Node
  /\ seq \in 0 .. MaxNodes
  /\ orphans \subseteq nodes
  /\ ppc \in [Provider -> ProviderPC]
  /\ bound \subseteq Provider
  /\ armed \in BOOLEAN /\ pending \in BOOLEAN
  /\ pc \in [Thread -> ThreadPC]
  /\ todo \in [Thread -> SUBSET Node]
  /\ list \in [Thread -> SUBSET Node]
  /\ \A t \in Thread : todo[t] \cap list[t] = {}
  /\ urls \subseteq Node
  /\ size \in 0 .. MaxNodes
  /\ deaf \in BOOLEAN
  /\ faults \in 0 .. MaxFaults

Init ==
  /\ root = RootExists
  /\ nodes = {}
  /\ seq = 0
  /\ orphans = {}
  /\ ppc = [p \in Provider |-> "start"]
  /\ bound = {}
  /\ armed = FALSE /\ pending = FALSE
  /\ pc = [t \in Thread |-> IF t = "main" THEN "children" ELSE "idle"]
  /\ todo = [t \in Thread |-> {}]
  /\ list = [t \in Thread |-> {}]
  /\ urls = {}
  /\ size = 0
  /\ deaf = FALSE
  /\ faults = 0

\* The children of /rmi change: a watch that is set fires, once.
Change(new) ==
  /\ nodes' = new
  /\ armed' = FALSE
  /\ pending' = (pending \/ armed)

-----------------------------------------------------------------------------
(* Provider.resister.                                                       *)

PGoto(p, label) == ppc' = [ppc EXCEPT ![p] = label]

\* publish(): the url is returned whether or not it could be bound.
Publish(p) ==
  /\ ppc[p] = "start"
  /\ seq + Cardinality({q \in Provider : ppc[q] \in Underway}) < MaxNodes
  /\ bound' \in {bound, bound \cup {p}}
  /\ PGoto(p, "exists")
  /\ UNCHANGED <<server, notify, pc, reading, size, deaf, faults>>

\* createRootPath(): exists(), then create().
RootCheck(p) ==
  /\ ppc[p] = "exists"
  /\ PGoto(p, IF root THEN "create" ELSE "mkroot")
  /\ UNCHANGED <<server, bound, notify, pc, reading, size, deaf, faults>>

\* NodeExists leaves resister(): nothing is registered.
RootCreate(p) ==
  /\ ppc[p] = "mkroot"
  /\ root' = TRUE
  /\ PGoto(p, IF root THEN "threw" ELSE "create")
  /\ UNCHANGED <<nodes, seq, orphans, bound, notify, pc, reading, size, deaf, faults>>

CreateNode(p) ==
  /\ ppc[p] = "create"
  /\ seq' = seq + 1
  /\ Change(nodes \cup {[owner |-> p, seq |-> seq + 1]})
  /\ PGoto(p, "up")
  /\ UNCHANGED <<root, orphans, bound, pc, reading, size, deaf, faults>>

\* A call of the provider is lost.  createNode() logs it and the provider goes
\* on as if it were registered; whether it is depends on the server.
ProviderLost(p) ==
  /\ faults < MaxFaults
  /\ faults' = faults + 1
  /\ \/ /\ ppc[p] \in {"exists", "mkroot"}
        /\ PGoto(p, "threw")
        /\ UNCHANGED <<server, notify>>
     \/ /\ ppc[p] = "create"
        /\ PGoto(p, "up")
        /\ \/ UNCHANGED <<server, notify>>
           \/ /\ seq' = seq + 1
              /\ Change(nodes \cup {[owner |-> p, seq |-> seq + 1]})
              /\ UNCHANGED <<root, orphans>>
  /\ UNCHANGED <<bound, pc, reading, size, deaf>>

\* The provider's process ends; its node stays until its session does.
Die(p) ==
  /\ ppc[p] \in Underway \cup {"up"}
  /\ orphans' = orphans \cup {n \in nodes : n.owner = p}
  /\ bound' = bound \ {p}
  /\ PGoto(p, "dead")
  /\ UNCHANGED <<root, nodes, seq, notify, pc, reading, size, deaf, faults>>

Expire ==
  /\ \E n \in orphans : Change(nodes \ {n}) /\ orphans' = orphans \ {n}
  /\ UNCHANGED <<root, seq, provider, pc, reading, size, deaf, faults>>

Restart(p) ==
  /\ ppc[p] = "dead"
  /\ PGoto(p, "start")
  /\ UNCHANGED <<server, bound, notify, pc, reading, size, deaf, faults>>

-----------------------------------------------------------------------------
(* Consumer.watchNode, on either thread.                                    *)

Return(t) == pc' = [pc EXCEPT ![t] = IF t = "main" THEN "lookup" ELSE "idle"]

\* Mutant: the children are listed without a new watch.
ChildrenUnwatched(t) ==
  /\ pc[t] = "children" /\ root
  /\ todo' = [todo EXCEPT ![t] = nodes]
  /\ list' = [list EXCEPT ![t] = {}]
  /\ pc' = [pc EXCEPT ![t] = "data"]
  /\ armed' = (armed \/ t = "main")
  /\ UNCHANGED <<server, provider, pending, urls, size, deaf, faults>>

\* getChildren(RMI_PATH, watcher) lists the children and sets a watch.
Children(t) ==
  /\ pc[t] = "children" /\ root
  /\ todo' = [todo EXCEPT ![t] = nodes]
  /\ list' = [list EXCEPT ![t] = {}]
  /\ pc' = [pc EXCEPT ![t] = "data"]
  /\ armed' = TRUE
  /\ UNCHANGED <<server, provider, pending, urls, size, deaf, faults>>

\* It throws NoNode, and sets no watch, when /rmi does not exist.
NoRoot(t) ==
  /\ pc[t] = "children" /\ ~root
  /\ Return(t)
  /\ deaf' = TRUE
  /\ UNCHANGED <<server, provider, notify, reading, size, faults>>

\* Mutant: the child whose data was read is read again.
DataAgain(t) ==
  /\ pc[t] = "data"
  /\ \E n \in todo[t] : IF n \in nodes
                       THEN list' = [list EXCEPT ![t] = @ \cup {n}] /\ UNCHANGED pc
                       ELSE Return(t) /\ UNCHANGED list
  /\ UNCHANGED <<server, provider, notify, todo, urls, size, deaf, faults>>

\* getData of one child; a child that has gone makes watchNode() give up.
Data(t) ==
  /\ pc[t] = "data"
  /\ \E n \in todo[t] :
       /\ todo' = [todo EXCEPT ![t] = @ \ {n}]
       /\ IF n \in nodes
          THEN list' = [list EXCEPT ![t] = @ \cup {n}] /\ UNCHANGED pc
          ELSE Return(t) /\ UNCHANGED list
  /\ UNCHANGED <<server, provider, notify, urls, size, deaf, faults>>

\* Mutant: what was read is added to the copy, this.urls.addAll(list).
AssignAdds(t) ==
  /\ pc[t] = "data" /\ todo[t] = {}
  /\ urls' = urls \cup list[t]
  /\ Return(t)
  /\ UNCHANGED <<server, provider, notify, todo, list, size, deaf, faults>>

\* Mutant: an empty list is not taken over.
AssignSome(t) ==
  /\ pc[t] = "data" /\ todo[t] = {}
  /\ urls' = IF list[t] = {} THEN urls ELSE list[t]
  /\ Return(t)
  /\ UNCHANGED <<server, provider, notify, todo, list, size, deaf, faults>>

\* this.urls = list
Assign(t) ==
  /\ pc[t] = "data" /\ todo[t] = {}
  /\ urls' = list[t]
  /\ Return(t)
  /\ UNCHANGED <<server, provider, notify, todo, list, size, deaf, faults>>

\* Any call may end in ConnectionLoss; watchNode() logs it and is done.
Lost(t) ==
  /\ faults < MaxFaults
  /\ pc[t] = "children" \/ (pc[t] = "data" /\ todo[t] # {})
  /\ faults' = faults + 1
  /\ deaf' = (deaf \/ pc[t] = "children")
  /\ Return(t)
  /\ UNCHANGED <<server, provider, notify, reading, size>>

\* The watcher: NodeChildrenChanged calls watchNode().
Notified ==
  /\ pending
  /\ pc["event"] = "idle"
  /\ pending' = FALSE
  /\ pc' = [pc EXCEPT !["event"] = "children"]
  /\ UNCHANGED <<server, provider, armed, reading, size, deaf, faults>>

-----------------------------------------------------------------------------
(* Consumer.lookup, on the main thread.                                     *)

MGoto(label) == pc' = [pc EXCEPT !["main"] = label]

\* urls.size() is read, and then urls again: an index of the old list may be
\* out of bounds in the new one.  No url: lookup() answers null.
LookupSize ==
  /\ pc["main"] = "lookup"
  /\ size' = Cardinality(urls)
  /\ MGoto(IF urls = {} THEN "idle" ELSE "get")
  /\ UNCHANGED <<server, provider, notify, reading, deaf, faults>>

LookupGet ==
  /\ pc["main"] = "get"
  /\ \E index \in 0 .. size - 1 :
       MGoto(IF index < Cardinality(urls) THEN "rmi" ELSE "threw")
  /\ UNCHANGED <<server, provider, notify, reading, size, deaf, faults>>

\* Naming.lookup(url) and the remote call; the url may be a dead provider's.
Call ==
  /\ pc["main"] = "rmi"
  /\ MGoto("idle")
  /\ UNCHANGED <<server, provider, notify, reading, size, deaf, faults>>

-----------------------------------------------------------------------------
Register(p) == Publish(p) \/ RootCheck(p) \/ RootCreate(p) \/ CreateNode(p)
WatchNode(t) == Children(t) \/ NoRoot(t) \/ Data(t) \/ Assign(t)
Main == WatchNode("main") \/ LookupSize \/ LookupGet \/ Call
Event == WatchNode("event") \/ Notified

Next == \/ \E p \in Provider : \/ Register(p) \/ ProviderLost(p)
                             \/ Die(p) \/ Restart(p)
        \/ Expire \/ Main \/ Event
        \/ \E t \in Thread : Lost(t)

Spec == Init /\ [][Next]_vars

\* Both threads of the consumer run on, a provider that has started does, and
\* the server ends the session of a dead one after its timeout.
FairSpec == Spec /\ WF_vars(Main) /\ WF_vars(Event) /\ WF_vars(Expire)
                 /\ \A p \in Provider : WF_vars(Register(p))

-----------------------------------------------------------------------------
\* The chain of one-shot watches breaks only where getChildren throws, not when
\* watchNode() gives up on a child that has gone or loses a getData: a watch is
\* set, or an event is coming, or a thread is about to set the watch.
Listening ==
  deaf \/ armed \/ pending \/ \E t \in Thread : pc[t] = "children"

\* The event thread starts while the constructor's watchNode() holds its list.
Overlap == pc["main"] = "data" /\ pc["event"] # "idle"

\* So far no call was lost, /rmi was there and the threads did not overlap.
Undisturbed == ~Overlap /\ ~deaf /\ faults = 0

\* Neither thread is in watchNode(), and nothing will start it.
Quiet == ~pending /\ \A t \in Thread : pc[t] \notin {"children", "data"}

\* The copy is out of date only as long as news of it is on its way or being read:
\* giving up on a child that has gone while others were read loses nothing.
CopyCurrent == []Undisturbed => [](Quiet => urls = nodes)

\* The copy follows the registry: once the providers stop changing, it is what
\* the registry holds and stays so, unless a call was lost, /rmi was missing or
\* the two threads overlapped.
CacheFollows ==
  []Undisturbed => <>[](urls = nodes)
=============================================================================

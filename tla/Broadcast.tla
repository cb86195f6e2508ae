----------------------------- MODULE Broadcast ------------------------------
(***************************************************************************)
(* What operations that reach people in batches promise their callers:      *)
(* nobody is told twice, no batch is over the limit, and the answer "true"  *)
(* means that everybody was told.  "false" and an exception promise no more *)
(* than that the operation tells nobody afterwards.                         *)
(***************************************************************************)
EXTENDS Naturals, FiniteSets

CONSTANTS Caller, People

VARIABLES asked,   \* per caller: whom its present operation is to tell
          limit,   \* how many people fit in a batch
          told,    \* how often each of them has been told
          answer   \* what the operation answered, or "none"

vars == <<asked, limit, told, answer>>

Untold == [p \in People |-> 0]

Init ==
  /\ asked = [c \in Caller |-> {}]
  /\ limit \in [Caller -> Nat]
  /\ told = [c \in Caller |-> Untold]
  /\ answer = [c \in Caller |-> "none"]

\* A new operation, or one that has found out whom it is about.
Ask(c) ==
  /\ told[c] = Untold \/ answer[c] # "none"
  /\ \E S \in SUBSET People : asked' = [asked EXCEPT ![c] = S]
  /\ limit'[c] \in Nat /\ limit' = [limit EXCEPT ![c] = limit'[c]]
  /\ told' = [told EXCEPT ![c] = Untold]
  /\ answer' = [answer EXCEPT ![c] = "none"]

\* A batch is told; the operation may not hear of it.
Tell(c, S) ==
  /\ answer[c] = "none"
  /\ S \subseteq asked[c] /\ Cardinality(S) <= limit[c]
  /\ \A p \in S : told[c][p] = 0
  /\ told' = [told EXCEPT ![c] = [p \in People |-> IF p \in S THEN 1 ELSE @[p]]]
  /\ \E a \in {"none", "threw"} : answer' = [answer EXCEPT ![c] = a]
  /\ UNCHANGED <<asked, limit>>

Answer(c) ==
  /\ answer[c] = "none"
  /\ \/ /\ \A p \in asked[c] : told[c][p] = 1
        /\ answer' = [answer EXCEPT ![c] = "true"]
     \/ \E a \in {"false", "threw"} : answer' = [answer EXCEPT ![c] = a]
  /\ UNCHANGED <<asked, limit, told>>

Next == \E c \in Caller : Ask(c) \/ Answer(c) \/ \E S \in SUBSET People : Tell(c, S)

Spec == Init /\ [][Next]_vars
=============================================================================

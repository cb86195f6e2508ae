----------------------------- MODULE Delivery -------------------------------
(***************************************************************************)
(* At-least-once delivery: a message leaves its queue for good only after   *)
(* its listener has dealt with it.                                          *)
(***************************************************************************)
CONSTANT Msg

VARIABLE status   \* of each message: waiting, handled at least once, gone

Init == status = [m \in Msg |-> "waiting"]

Become(S, old, new) ==
  /\ \A m \in S : status[m] = old
  /\ status' = [m \in Msg |-> IF m \in S THEN new ELSE status[m]]

Handle(S) == Become(S, "waiting", "handled")
Remove(S) == Become(S, "handled", "gone")

Next == \E S \in SUBSET Msg : Handle(S) \/ Remove(S)

Spec == Init /\ [][Next]_status
=============================================================================

------------------------------- MODULE Mutex -------------------------------
(***************************************************************************)
(* What the two hand-written distributed locks promise through the          *)
(* interface java.util.concurrent.locks.Lock: at any time at most one       *)
(* caller of a lock is between lock() and unlock().  A caller is "out",     *)
(* "waiting" in a lock call, or "in" the critical section.                  *)
(***************************************************************************)
CONSTANTS Client, LockOf   \* the lock each caller uses
VARIABLE status

Init == status = [c \in Client |-> "out"]

Ask(c) ==
  /\ status[c] = "out"
  /\ status' = [status EXCEPT ![c] = "waiting"]

Enter(c) ==
  /\ status[c] = "waiting"
  /\ \A d \in Client : LockOf[d] = LockOf[c] => status[d] # "in"
  /\ status' = [status EXCEPT ![c] = "in"]

\* Callers unlock, are refused, get an exception or die; several at a time
\* when they share a process.
Leave(S) == status' = [c \in Client |-> IF c \in S THEN "out" ELSE status[c]]

Next == \/ \E c \in Client : Ask(c) \/ Enter(c)
        \/ \E S \in SUBSET Client : Leave(S)

Spec == Init /\ [][Next]_status
=============================================================================

---------------------------- MODULE DingTalkProof ----------------------------
(***************************************************************************)
(* DingTalk, for any number of callers, operations and failures and any     *)
(* sizes of batches and caches: the access token, if the lifetimes are      *)
(* Prompt; the batches, that nobody is told twice and what the answers mean.*)
(***************************************************************************)
EXTENDS DingTalk, FiniteSetTheorems, TLAPS

\* Lifetimes, and where the operations are.
PC == {"idle", "token", "store", "owner", "lookup", "send", "create", "refresh"}

TokenType ==
  /\ pc \in [Caller -> PC]
  /\ left \in [Caller -> 0 .. MaxCall] /\ due \in [Caller -> 0 .. MaxCall]
  /\ adds = [c \in Caller |-> adds[c]]
  /\ cached \in 0 .. CacheLife /\ valid \in 0 .. TokenLife

\* The server honours the token for longer than whoever has it may still take: the
\* cache, which gives it to operations of MaxCall; an operation under way; the batches
\* createChat leaves behind; and the thread that has yet to store it.
CacheCovered == cached > 0 => valid >= cached + MaxCall
CallerCovered(c) ==
  /\ Busy(c) => valid > left[c]
  /\ pc[c] = "store" => valid + MaxCall >= left[c] + TokenLife
  /\ adds[c] # {} => valid > due[c]

TokenInv ==
  /\ TokenType
  /\ CacheCovered
  /\ \A c \in Caller : CallerCovered(c)

LEMMA Lifetimes ==
  CacheLife \in Nat \ {0} /\ TokenLife \in Nat /\ MaxCall \in Nat
  BY DingTalkAssumption

LEMMA TokenInit == Init => TokenInv
  BY Lifetimes
  DEF Init, TokenInv, TokenType, PC, CacheCovered, CallerCovered, Busy

\* A caller that moves while the token stays: the others are not concerned.
LEMMA OneMoves ==
  ASSUME TokenInv, NEW c \in Caller, UNCHANGED token,
         pc' \in [Caller -> PC], left' \in [Caller -> 0 .. MaxCall],
         due' \in [Caller -> 0 .. MaxCall], adds' = [d \in Caller |-> adds'[d]],
         \A d \in Caller \ {c} : /\ pc'[d] = pc[d] /\ left'[d] = left[d]
                                 /\ adds'[d] = adds[d] /\ due'[d] = due[d],
         CallerCovered(c)'
  PROVE  TokenInv'
<1>1. \A d \in Caller \ {c} : CallerCovered(d)'
  BY DEF TokenInv, CallerCovered, Busy, token
<1>2. TokenType' /\ CacheCovered'
  BY DEF TokenInv, TokenType, CacheCovered, token
<1> QED BY <1>1, <1>2 DEF TokenInv

\* An operation that ends, or has not begun.
LEMMA Ending ==
  ASSUME TokenInv, NEW c \in Caller, NEW what, Answers(c, what), UNCHANGED <<token, adds, due>>
  PROVE  TokenInv'
<1>1. /\ pc' \in [Caller -> PC] /\ left' \in [Caller -> 0 .. MaxCall]
      /\ due' \in [Caller -> 0 .. MaxCall] /\ adds' = [d \in Caller |-> adds'[d]]
  BY Lifetimes DEF Answers, TokenInv, TokenType, PC
<1>2. pc'[c] = "idle" /\ \A d \in Caller \ {c} : pc'[d] = pc[d] /\ left'[d] = left[d]
  BY DEF Answers, TokenInv, TokenType
<1>3. CallerCovered(c)'
  BY <1>2 DEF TokenInv, CallerCovered, Busy, token
<1> QED BY <1>1, <1>2, <1>3, OneMoves

\* An operation that goes on: it takes none of the time it has left.
LEMMA GoingOn ==
  ASSUME TokenInv, NEW c \in Caller, Busy(c), NEW to \in PC \ {"store"},
         pc' = [pc EXCEPT ![c] = to] \/ UNCHANGED pc,
         UNCHANGED <<token, left, adds, due>>
  PROVE  TokenInv'
<1>1. /\ pc' \in [Caller -> PC] /\ left' \in [Caller -> 0 .. MaxCall]
      /\ due' \in [Caller -> 0 .. MaxCall] /\ adds' = [d \in Caller |-> adds'[d]]
  BY DEF TokenInv, TokenType
<1>2. pc'[c] \in {to, pc[c]} /\ \A d \in Caller \ {c} : pc'[d] = pc[d]
  BY DEF TokenInv, TokenType
<1>3. CallerCovered(c)'
  BY <1>2 DEF TokenInv, CallerCovered, Busy, token
<1> QED BY <1>1, <1>2, <1>3, OneMoves

LEMMA TokenStep == ASSUME Prompt PROVE TokenInv /\ [Next]_vars => TokenInv'
<1> SUFFICES ASSUME TokenInv, [Next]_vars PROVE TokenInv'
  OBVIOUS
<1> USE Lifetimes
<1>0. \A c \in Caller : Ready(c) \in {"owner", "refresh", "lookup"}
  BY DEF Ready
<1>1. ASSUME UNCHANGED <<token, pc, left, adds, due>> PROVE TokenInv'
  BY <1>1 DEF TokenInv, TokenType, CacheCovered, CallerCovered, Busy, token
<1>2. ASSUME NEW c \in Caller, Begin(c) PROVE TokenInv'
  <2>1. /\ pc' = [pc EXCEPT ![c] = "token"] /\ pc[c] = "idle"
        /\ UNCHANGED <<token, left, adds, due>>
    BY <1>2 DEF Begin, chat
  <2>2. pc' \in [Caller -> PC] /\ pc'[c] = "token" /\ \A d \in Caller \ {c} : pc'[d] = pc[d]
    BY <2>1 DEF TokenInv, TokenType, PC
  <2>3. CallerCovered(c)'
    BY <2>1, <2>2 DEF TokenInv, CallerCovered, Busy, token
  <2> QED BY <2>1, <2>2, <2>3, OneMoves DEF TokenInv, TokenType
\* The cached token is good for a whole operation.
<1>3. ASSUME NEW c \in Caller, Token(c) PROVE TokenInv'
  <2>1. /\ pc' = [pc EXCEPT ![c] = Ready(c)] /\ left' = [left EXCEPT ![c] = MaxCall]
        /\ cached > 0 /\ UNCHANGED <<token, adds, due>>
    BY <1>3 DEF Token, chat
  <2>2. /\ pc' \in [Caller -> PC] /\ left' \in [Caller -> 0 .. MaxCall]
        /\ pc'[c] \in {"owner", "refresh", "lookup"} /\ left'[c] = MaxCall
        /\ \A d \in Caller \ {c} : pc'[d] = pc[d] /\ left'[d] = left[d]
    BY <1>0, <2>1 DEF TokenInv, TokenType, PC
  <2>3. valid > MaxCall
    BY <2>1 DEF TokenInv, TokenType, CacheCovered
  <2>4. CallerCovered(c)'
    BY <2>1, <2>2, <2>3 DEF TokenInv, CallerCovered, Busy, token
  <2> QED BY <2>1, <2>2, <2>4, OneMoves DEF TokenInv, TokenType
\* A fresh token outlasts the one it replaces.
<1>4. ASSUME NEW c \in Caller, Fetch(c) PROVE TokenInv'
  <2>1. /\ pc' = [pc EXCEPT ![c] = "store"] /\ left' = [left EXCEPT ![c] = MaxCall]
        /\ cached = 0 /\ UNCHANGED <<cached, adds, due>> /\ valid' = TokenLife
        /\ \A d \in Caller : pc[d] # "store"
    BY <1>4 DEF Fetch, chat
  <2>2. TokenType' /\ CacheCovered'
    BY <2>1 DEF TokenInv, TokenType, PC, CacheCovered
  <2>3. /\ pc'[c] = "store" /\ left'[c] = MaxCall
        /\ \A d \in Caller \ {c} : pc'[d] = pc[d] /\ left'[d] = left[d]
    BY <2>1 DEF TokenInv, TokenType
  <2>4. valid <= TokenLife /\ valid \in Nat
    BY DEF TokenInv, TokenType
  <2>5. \A d \in Caller : left[d] \in Nat /\ due[d] \in Nat
    BY DEF TokenInv, TokenType
  <2>6. ASSUME NEW d \in Caller \ {c} PROVE CallerCovered(d)'
    BY <2>1, <2>3, <2>4, <2>5 DEF TokenInv, CallerCovered, Busy
  <2>7. TokenLife > MaxCall
    BY DEF Prompt
  <2>8. CallerCovered(c)'
    BY <2>1, <2>3, <2>4, <2>5, <2>7 DEF TokenInv, CallerCovered, Busy
  <2> QED BY <2>2, <2>6, <2>8 DEF TokenInv
\* Whoever stores the token has taken no more than MaxCall.
<1>5. ASSUME NEW c \in Caller, Store(c) PROVE TokenInv'
  <2>1. /\ pc' = [pc EXCEPT ![c] = Ready(c)] /\ left' = [left EXCEPT ![c] = MaxCall]
        /\ pc[c] = "store" /\ UNCHANGED <<valid, adds, due>> /\ cached' = CacheLife
    BY <1>5 DEF Store, chat
  <2>2. valid \in Nat /\ valid >= CacheLife + MaxCall
    BY <2>1 DEF TokenInv, TokenType, CallerCovered, Prompt
  <2>3. TokenType' /\ CacheCovered'
    BY <1>0, <2>1, <2>2 DEF TokenInv, TokenType, PC, CacheCovered
  <2>4. /\ pc'[c] \in {"owner", "refresh", "lookup"} /\ left'[c] = MaxCall
        /\ \A d \in Caller \ {c} : pc'[d] = pc[d] /\ left'[d] = left[d]
    BY <1>0, <2>1 DEF TokenInv, TokenType
  <2>5. \A d \in Caller : CallerCovered(d)'
    BY <2>1, <2>2, <2>4 DEF TokenInv, CallerCovered, Busy
  <2> QED BY <2>3, <2>5 DEF TokenInv
<1>6. ASSUME NEW c \in Caller, NoToken(c) PROVE TokenInv'
  BY <1>6, Ending DEF NoToken, chat
<1>7. ASSUME NEW c \in Caller, Owner(c) \/ Lookup(c) PROVE TokenInv'
  <2>1. Busy(c) /\ UNCHANGED <<token, left, adds, due>>
        /\ (pc' = [pc EXCEPT ![c] = "lookup"] \/ UNCHANGED pc)
    BY <1>7 DEF Owner, Lookup, Busy, chat
  <2> QED BY <2>1, GoingOn DEF PC
<1>8. ASSUME NEW c \in Caller, LookedUp(c) PROVE TokenInv'
  <2>1. Busy(c) /\ UNCHANGED <<token, adds, due>>
    BY <1>8 DEF LookedUp, Busy, chat
  <2>2. \/ Answers(c, "threw")
        \/ UNCHANGED left /\ \E to \in {"create", "send"} : pc' = [pc EXCEPT ![c] = to]
    BY <1>8 DEF LookedUp
  <2> QED BY <2>1, <2>2, Ending, GoingOn DEF PC
<1>9. ASSUME NEW c \in Caller, Send(c) PROVE TokenInv'
  <2>1. Busy(c) /\ UNCHANGED <<token, adds, due>>
    BY <1>9 DEF Send, Busy
  <2>2. UNCHANGED <<pc, left>> \/ \E what : Answers(c, what)
    BY <1>9 DEF Send
  <2> QED BY <1>1, <2>1, <2>2, Ending
<1>10. ASSUME NEW c \in Caller, Sent(c) \/ RefreshUser(c) PROVE TokenInv'
  BY <1>10, Ending DEF Sent, RefreshUser, chat
\* The later batches of a chat have what time createChat had left.
<1>11. ASSUME NEW c \in Caller, Create(c) PROVE TokenInv'
  <2>1. CASE chat' = chat
    <3>1. Answers(c, "true") \/ Answers(c, "threw")
      BY <1>11 DEF Create
    <3> QED BY <1>11, <2>1, <3>1, Ending DEF Create, chat
  <2>2. CASE /\ adds' = [adds EXCEPT ![c] = Later(ids[c])]
             /\ due' = [due EXCEPT ![c] = left[c]]
             /\ Answers(c, "true")
    <3>1. pc[c] = "create" /\ UNCHANGED token
      BY <1>11 DEF Create
    <3>2. pc' \in [Caller -> PC] /\ left' \in [Caller -> 0 .. MaxCall]
      BY <2>2 DEF Answers, TokenInv, TokenType, PC
    <3>3. due' \in [Caller -> 0 .. MaxCall] /\ adds' = [d \in Caller |-> adds'[d]]
      BY <2>2 DEF TokenInv, TokenType
    <3>4. pc'[c] = "idle" /\ due'[c] = left[c]
          /\ \A d \in Caller \ {c} : /\ pc'[d] = pc[d] /\ left'[d] = left[d]
                                     /\ adds'[d] = adds[d] /\ due'[d] = due[d]
      BY <2>2 DEF Answers, TokenInv, TokenType
    <3>5. CallerCovered(c)'
      BY <3>1, <3>4 DEF TokenInv, CallerCovered, Busy, token
    <3> QED BY <3>1, <3>2, <3>3, <3>4, <3>5, OneMoves
  <2> QED BY <1>11, <2>1, <2>2 DEF Create
<1>12. ASSUME NEW c \in Caller, Add(c) PROVE TokenInv'
  <2>1. UNCHANGED <<pc, left, due, token>> /\ adds[c] # {}
    BY <1>12 DEF Add, caller
  <2>2. \E i \in adds[c] : adds' = [adds EXCEPT ![c] = adds[c] \ {i}]
    BY <1>12 DEF Add
  <2>3. adds' = [d \in Caller |-> adds'[d]] /\ \A d \in Caller \ {c} : adds'[d] = adds[d]
    BY <2>2 DEF TokenInv, TokenType
  <2>4. CallerCovered(c)'
    BY <2>1 DEF TokenInv, CallerCovered, Busy, token
  <2> QED BY <2>1, <2>3, <2>4, OneMoves DEF TokenInv, TokenType
<1>13. ASSUME NEW d \in Depts, AddUser(d) PROVE TokenInv'
  BY <1>1, <1>13 DEF AddUser, caller, chat
<1>14. CASE Tick
  <2>1. /\ UNCHANGED <<pc, adds>>
        /\ left' = [c \in Caller |-> Less(left[c])] /\ due' = [c \in Caller |-> Less(due[c])]
        /\ cached' = Less(cached) /\ valid' = Less(valid)
        /\ \A c \in Caller : (Busy(c) => left[c] > 0) /\ (adds[c] # {} => due[c] > 0)
    BY <1>14 DEF Tick, caller
  <2>2. \A n \in Nat : Less(n) \in Nat /\ Less(n) <= n /\ n <= Less(n) + 1 /\ (n > 0 => Less(n) = n - 1)
    BY DEF Less
  <2>3. TokenType'
    BY <2>1, <2>2 DEF TokenInv, TokenType
  <2>4. CacheCovered'
    BY <2>1, <2>2 DEF TokenInv, TokenType, CacheCovered
  <2>5. ASSUME NEW c \in Caller PROVE CallerCovered(c)'
    <3>1. left[c] \in Nat /\ due[c] \in Nat /\ valid \in Nat
      BY DEF TokenInv, TokenType
    <3>2. left'[c] = Less(left[c]) /\ due'[c] = Less(due[c]) /\ CallerCovered(c)
      BY <2>1 DEF TokenInv
    <3>3. Busy(c) => left'[c] = left[c] - 1 /\ valid' = valid - 1
      BY <2>1, <2>2, <3>1, <3>2 DEF CallerCovered
    <3>4. adds[c] # {} => due'[c] = due[c] - 1 /\ valid' = valid - 1
      BY <2>1, <2>2, <3>1, <3>2 DEF CallerCovered
    <3> QED BY <2>1, <3>1, <3>2, <3>3, <3>4 DEF CallerCovered, Busy
  <2> QED BY <2>3, <2>4, <2>5 DEF TokenInv
<1>15. CASE UNCHANGED vars
  BY <1>1, <1>15 DEF vars, caller, chat
<1> QED
  BY <1>2, <1>3, <1>4, <1>5, <1>6, <1>7, <1>8, <1>9, <1>10, <1>11, <1>12, <1>13, <1>14, <1>15
  DEF Next, Run

\* The pages of a refresh have what time refreshUser had left; they keep its token.
PagesInv ==
  /\ pageDue \in 0 .. MaxCall
  /\ Reading => valid > pageDue

LEMMA PagesInit == Init => PagesInv
  BY Lifetimes DEF Init, PagesInv, Reading

LEMMA PagesStep == ASSUME Prompt PROVE TokenInv /\ PagesInv /\ [Next]_vars => PagesInv'
<1> SUFFICES ASSUME TokenInv, PagesInv, [Next]_vars PROVE PagesInv'
  OBVIOUS
<1> USE Lifetimes
<1>0. valid \in 0 .. TokenLife /\ left \in [Caller -> 0 .. MaxCall]
  BY DEF TokenInv, TokenType
<1>1. ASSUME UNCHANGED <<valid, pages>> PROVE PagesInv'
  BY <1>1 DEF PagesInv, Reading, pages
<1>2. ASSUME NEW c \in Caller,
             \/ Begin(c) \/ NoToken(c) \/ Token(c) \/ Store(c) \/ Owner(c) \/ Lookup(c)
             \/ LookedUp(c) \/ Send(c) \/ Sent(c) \/ Create(c) \/ Add(c)
      PROVE  PagesInv'
  BY <1>1, <1>2
  DEF Begin, NoToken, Token, Store, Owner, Lookup, LookedUp, Send, Sent, Create, Add, token
\* A fresh token outlasts whatever is under way.
<1>3. ASSUME NEW c \in Caller, Fetch(c) PROVE PagesInv'
  <2>1. valid' = TokenLife /\ UNCHANGED pages
    BY <1>3 DEF Fetch
  <2>2. TokenLife > MaxCall
    BY DEF Prompt
  <2> QED BY <2>1, <2>2 DEF PagesInv, Reading, pages
<1>4. ASSUME NEW c \in Caller, RefreshUser(c) PROVE PagesInv'
  <2>1. Busy(c) /\ UNCHANGED token /\ (pageDue' = left[c] \/ UNCHANGED pages)
    BY <1>4 DEF RefreshUser, Busy
  <2>2. valid > left[c]
    BY <2>1 DEF TokenInv, CallerCovered
  <2> QED BY <1>0, <1>1, <2>1, <2>2 DEF PagesInv, token
<1>5. ASSUME NEW d \in Depts, AddUser(d) PROVE PagesInv'
  <2>1. UNCHANGED <<valid, pageDue>> /\ page[d] \in 1 .. Len(d)
    BY <1>5 DEF AddUser, token
  <2> QED BY <2>1 DEF PagesInv, Reading
<1>6. CASE Tick
  <2>1. /\ UNCHANGED page /\ pageDue' = Less(pageDue) /\ valid' = Less(valid)
        /\ Reading => pageDue > 0
    BY <1>6 DEF Tick
  <2>2. \A n \in Nat : Less(n) \in Nat /\ Less(n) <= n /\ (n > 0 => Less(n) = n - 1)
    BY DEF Less
  <2>3. pageDue' \in 0 .. MaxCall
    BY <2>1, <2>2 DEF PagesInv
  <2>4. Reading => valid' > pageDue'
    BY <1>0, <2>1, <2>2 DEF PagesInv
  <2> QED BY <2>1, <2>3, <2>4 DEF PagesInv, Reading
<1>7. CASE UNCHANGED vars
  BY <1>1, <1>7 DEF vars, token
<1> QED
  BY <1>2, <1>3, <1>4, <1>5, <1>6, <1>7 DEF Next, Run

\* No operation, no late batch of a chat and no page of a refresh calls the server with
\* a token it no longer honours, if an operation with what it leaves behind takes at
\* most MaxCall.
THEOREM TokenStaysGood ==
  ASSUME Prompt PROVE Spec => []TokenGood
<1>1. TokenInv /\ [Next]_vars => TokenInv'
  BY TokenStep
<1>2. TokenInv /\ PagesInv /\ [Next]_vars => PagesInv'
  BY PagesStep
<1>3. TokenInv /\ PagesInv => TokenGood
  BY DEF TokenInv, TokenType, CallerCovered, PagesInv, TokenGood
<1> QED BY <1>1, <1>2, <1>3, TokenInit, PagesInit, PTL DEF Spec

-----------------------------------------------------------------------------
(* Batches.                                                                  *)

\* All batches together hold the list, all but the last no more than it.
LEMMA CountBounds ==
  ASSUME NEW U, NEW s \in Seq(U), NEW n \in Nat \ {0}
  PROVE  /\ Count(s, n) \in Nat \ {0}
         /\ n * (Count(s, n) - 1) <= Len(s) /\ Len(s) < n * Count(s, n)
<1>1. Len(s) \in Nat
  OBVIOUS
<1>2. /\ Len(s) \div n \in Nat /\ n * (Len(s) \div n) <= Len(s)
      /\ Len(s) < n * (Len(s) \div n) + n
  BY <1>1
<1> QED BY <1>2 DEF Count

LEMMA Times ==
  ASSUME NEW n \in Nat \ {0}, NEW i \in Nat
  PROVE  /\ n * i \in Nat /\ n * (i + 1) = n * i + n
         /\ \A j \in Nat : i <= j => n * i <= n * j
<1>1. n * i \in Nat /\ n * (i + 1) = n * i + n
  OBVIOUS
<1>2. ASSUME NEW j \in Nat, i <= j PROVE n * i <= n * j
  <2>1. n * (j - i) >= 0 /\ n * j = n * i + n * (j - i)
    BY <1>2
  <2> QED BY <2>1
<1> QED BY <1>1, <1>2

LEMMA SubRange ==
  ASSUME NEW U, NEW s \in Seq(U), NEW a \in Nat, NEW b \in Nat, b <= Len(s)
  PROVE  \A u : u \in Range(SubSeq(s, a + 1, b)) <=> \E p \in 1 .. Len(s) : a < p /\ p <= b /\ s[p] = u
<1> DEFINE t == SubSeq(s, a + 1, b)
<1>1. CASE b <= a
  <2>1. t = << >>
    BY <1>1
  <2> QED BY <1>1, <2>1 DEF Range
<1>2. CASE a < b
  <2>1. /\ DOMAIN t = 1 .. b - a /\ \A i \in 1 .. b - a : t[i] = s[a + i]
    BY <1>2
  <2> HIDE DEF t
  <2>2. \A u : u \in Range(t) <=> \E i \in 1 .. b - a : t[i] = u
    BY <2>1 DEF Range
  <2>3. ASSUME NEW p \in 1 .. Len(s), a < p, p <= b PROVE p - a \in 1 .. b - a /\ t[p - a] = s[p]
    BY <2>1, <2>3
  <2>4. ASSUME NEW i \in 1 .. b - a PROVE a + i \in 1 .. Len(s) /\ a < a + i /\ a + i <= b /\ t[i] = s[a + i]
    BY <2>1, <2>4
  <2>5. ASSUME NEW u PROVE u \in Range(t) <=> \E p \in 1 .. Len(s) : a < p /\ p <= b /\ s[p] = u
    BY <2>2, <2>3, <2>4
  <2> QED BY <2>5 DEF t
<1> QED BY <1>1, <1>2

\* Whom a batch reaches: the positions from its start, one size of them.
LEMMA BatchMembers ==
  ASSUME NEW U, NEW s \in Seq(U), NEW n \in Nat \ {0}, NEW i \in Nat
  PROVE  \A u : u \in Batch(s, n, i) <=> \E p \in 1 .. Len(s) : n * i < p /\ p <= n * i + n /\ s[p] = u
<1> DEFINE a == n * i
           b == Min({Len(s), a + n})
<1>1. a \in Nat /\ n * (i + 1) = a + n /\ Len(s) \in Nat
  BY Times
<1> HIDE DEF a
<1>2. b = IF Len(s) <= a + n THEN Len(s) ELSE a + n
  BY <1>1 DEF Min
<1> HIDE DEF b
<1>3. b \in Nat /\ b <= Len(s) /\ \A p \in 1 .. Len(s) : p <= b <=> p <= a + n
  BY <1>1, <1>2
<1>4. Batch(s, n, i) = Range(SubSeq(s, a + 1, b))
  BY <1>1 DEF Batch, a, b
<1> QED BY <1>1, <1>3, <1>4, SubRange DEF a

\* No batch is over the limit.
LEMMA BatchSize ==
  ASSUME NEW U, NEW s \in Seq(U), NEW n \in Nat \ {0}, NEW i \in Nat
  PROVE  Cardinality(Batch(s, n, i)) <= n
<1> DEFINE a == n * i
           P == {p \in 1 .. Len(s) : a < p /\ p <= a + n}
           f == [p \in P |-> s[p]]
<1>1. a \in Nat
  BY Times
<1>2. f \in Surjection(P, Batch(s, n, i))
  <2>1. \A u : u \in Batch(s, n, i) <=> \E p \in P : s[p] = u
    BY BatchMembers
  <2> QED BY <2>1 DEF Surjection
<1> HIDE DEF a
<1>3. IsFiniteSet((a + 1) .. (a + n)) /\ Cardinality((a + 1) .. (a + n)) = n
  <2>1. a + 1 \in Int /\ a + n \in Int /\ ~(a + 1 > a + n) /\ (a + n) - (a + 1) + 1 = n
    BY <1>1
  <2> QED BY <2>1, FS_Interval
<1>4. P \in SUBSET ((a + 1) .. (a + n))
  BY <1>1
<1>5. IsFiniteSet(P) /\ Cardinality(P) <= n
  BY <1>3, <1>4, FS_Subset
<1> HIDE DEF P, f
<1>6. IsFiniteSet(Batch(s, n, i)) /\ Cardinality(Batch(s, n, i)) <= Cardinality(P)
  BY <1>2, <1>5, FS_Surjection
<1> QED BY <1>5, <1>6, FS_CardinalityType

-----------------------------------------------------------------------------
(* Operations.                                                               *)

CallerType ==
  /\ pc \in [Caller -> PC]
  /\ op \in [Caller -> Op]
  /\ mobiles \in [Caller -> Seq(Mobile)] /\ pos \in [Caller -> Nat]
  /\ ids \in [Caller -> Seq(User)] /\ batch \in [Caller -> Nat]
  /\ told \in [Caller -> [User -> 0 .. 1]]
  /\ answer \in [Caller -> {"none", "true", "false", "threw"}]

\* A user has been told when his position is in a batch that was sent; no user has two.
Distinct(s) == \A p, q \in 1 .. Len(s) : s[p] = s[q] => p = q
SentTo(c, u) == \E p \in 1 .. Len(ids[c]) : p <= Size(c) * batch[c] /\ ids[c][p] = u
Match(c) == \A u \in User : told[c][u] = IF SentTo(c, u) THEN 1 ELSE 0

\* Where an operation is, and what it has done by then.  Only a lost answer leaves it
\* without knowing whom it has told.
Progress(c) ==
  /\ pc[c] # "idle" => answer[c] = "none" /\ mobiles[c] # <<>>
  /\ pc[c] \in {"token", "store", "owner", "refresh"} => pos[c] = 0 /\ ids[c] = <<>>
  /\ pc[c] \in {"owner", "create"} => op[c] = "chat"
  /\ pc[c] = "refresh" => op[c] = "refresh"
  /\ pc[c] = "lookup" => op[c] # "refresh"
  /\ pc[c] = "send" => Waiting(c) /\ pos[c] = Len(mobiles[c])
  /\ answer[c] = "none" /\ pc[c] # "send" => batch[c] = 0

Reached(c) ==
  /\ pos[c] <= Len(mobiles[c])
  /\ Distinct(ids[c])
  /\ answer[c] # "threw" => Match(c)
  /\ answer[c] = "false" => batch[c] < Count(ids[c], Size(c))
  /\ answer[c] = "true" /\ Waiting(c) => /\ batch[c] >= Count(ids[c], Size(c))
                                         /\ pos[c] = Len(mobiles[c])

OpInv == CallerType /\ \A c \in Caller : Progress(c) /\ Reached(c)

\* While no call has failed, every number looked up has its user among those found.
Found(c) == \A i \in 1 .. pos[c] : UserOf[mobiles[c][i]] \in Range(ids[c]) \cup {Nobody}
FoundInv == faults = 0 => \A c \in Caller : Found(c)

Others(c) ==
  \A d \in Caller \ {c} : UNCHANGED <<pc[d], op[d], mobiles[d], pos[d], ids[d], batch[d], told[d], answer[d]>>

LEMMA Sizes ==
  ASSUME NEW c
  PROVE  Size(c) \in Nat \ {0} /\ (op[c] = "notice" => Size(c) = NoticeSize)
  BY DingTalkAssumption DEF Size

\* There is always a batch to send at first.
LEMMA FirstBatch ==
  ASSUME OpInv, NEW c \in Caller
  PROVE  0 < Count(ids[c], Size(c))
<1>1. ids[c] \in Seq(User) /\ Size(c) \in Nat \ {0}
  BY Sizes DEF OpInv, CallerType
<1>2. Count(ids[c], Size(c)) \in Nat \ {0}
  BY <1>1, CountBounds
<1> QED BY <1>2

LEMMA OthersKeep ==
  ASSUME OpInv, CallerType', NEW c \in Caller, Others(c), Progress(c)', Reached(c)'
  PROVE  OpInv'
<1>1. ASSUME NEW d \in Caller \ {c} PROVE Progress(d)'
  BY DEF OpInv, Others, Progress, Waiting
<1>2. ASSUME NEW d \in Caller \ {c} PROVE Reached(d)'
  <2>1. UNCHANGED <<Size(d), Waiting(d), Match(d), Distinct(ids[d])>>
    BY DEF Others, Size, Waiting, Match, SentTo, Distinct
  <2> QED BY <2>1 DEF OpInv, Others, Reached, Count
<1> QED BY <1>1, <1>2 DEF OpInv

\* An operation that goes on without telling or finding anybody.
LEMMA GoesOn ==
  ASSUME OpInv, NEW c \in Caller, NEW to \in PC, pc' = [pc EXCEPT ![c] = to],
         UNCHANGED <<op, mobiles, pos, ids, batch, told, answer>>, Progress(c)'
  PROVE  OpInv'
<1>1. CallerType' /\ Others(c)
  BY DEF OpInv, CallerType, Others
<1>2. Reached(c)'
  <2>1. UNCHANGED <<Size(c), Waiting(c), Match(c)>>
    BY DEF Size, Waiting, Match, SentTo
  <2> QED BY <2>1 DEF OpInv, Reached, Count
<1> QED BY <1>1, <1>2, OthersKeep

\* An operation that ends.
LEMMA Ends ==
  ASSUME OpInv, NEW c \in Caller, NEW what \in {"true", "false", "threw"}, Answers(c, what),
         pc[c] # "idle", UNCHANGED <<op, mobiles, pos, ids, batch, told>>,
         what = "false" => batch[c] < Count(ids[c], Size(c)),
         what = "true" /\ Waiting(c) => /\ batch[c] >= Count(ids[c], Size(c))
                                        /\ pos[c] = Len(mobiles[c])
  PROVE  OpInv'
<1>1. pc' = [pc EXCEPT ![c] = "idle"] /\ answer' = [answer EXCEPT ![c] = what]
  BY DEF Answers
<1>2. CallerType' /\ Others(c)
  BY <1>1 DEF OpInv, CallerType, Others, PC
<1>3. pc'[c] = "idle" /\ answer'[c] = what
  BY <1>1 DEF OpInv, CallerType
<1>4. Progress(c)'
  BY <1>3 DEF Progress
<1>5. Match(c) /\ UNCHANGED <<Size(c), Waiting(c), Match(c), Count(ids[c], Size(c))>>
  BY DEF OpInv, Progress, Reached, Size, Waiting, Match, SentTo
<1>6. Reached(c)'
  BY <1>3, <1>5 DEF OpInv, Reached
<1> QED BY <1>2, <1>4, <1>6, OthersKeep

\* Whom the next batch reaches has not been told, and then all up to its end are.
LEMMA NextBatch ==
  ASSUME OpInv, NEW c \in Caller, pc[c] = "send"
  PROVE  LET S == Batch(ids[c], Size(c), batch[c])
         IN /\ S \subseteq Range(ids[c]) /\ S \subseteq User
            /\ \A u \in S : told[c][u] = 0
            /\ \A u : (\E p \in 1 .. Len(ids[c]) : p <= Size(c) * (batch[c] + 1) /\ ids[c][p] = u)
                        <=> SentTo(c, u) \/ u \in S
<1> DEFINE s == ids[c]
           n == Size(c)
           i == batch[c]
           S == Batch(s, n, i)
<1>1. s \in Seq(User) /\ n \in Nat \ {0} /\ i \in Nat
  BY Sizes DEF OpInv, CallerType
<1>2. \A u : SentTo(c, u) <=> \E p \in 1 .. Len(s) : p <= n * i /\ s[p] = u
  BY DEF SentTo
<1>3. Match(c) /\ Distinct(s)
  BY DEF OpInv, Progress, Reached
<1> HIDE DEF s, n, i
<1>4. \A u : u \in S <=> \E p \in 1 .. Len(s) : n * i < p /\ p <= n * i + n /\ s[p] = u
  BY <1>1, BatchMembers
<1>5. n * i \in Nat /\ n * (i + 1) = n * i + n
  BY <1>1, Times
<1>6. Len(s) \in Nat /\ \A p \in 1 .. Len(s) : s[p] \in User /\ s[p] \in Range(s)
  BY <1>1 DEF Range
<1> HIDE DEF S
<1> DEFINE a == n * i
<1>7. a \in Nat /\ n * (i + 1) = a + n
  BY <1>5
<1>8. \A u : u \in S <=> \E p \in 1 .. Len(s) : a < p /\ p <= a + n /\ s[p] = u
  BY <1>4
<1>9. \A u : SentTo(c, u) <=> \E p \in 1 .. Len(s) : p <= a /\ s[p] = u
  BY <1>2
<1> HIDE DEF a
<1>10. S \subseteq Range(s) /\ S \subseteq User
  BY <1>6, <1>8
<1>11. ASSUME NEW u \in S PROVE told[c][u] = 0
  <2>1. ~SentTo(c, u)
    BY <1>1, <1>3, <1>6, <1>7, <1>8, <1>9 DEF Distinct
  <2> QED BY <1>3, <1>10, <2>1 DEF Match
<1>12. ASSUME NEW u
       PROVE  (\E p \in 1 .. Len(s) : p <= a + n /\ s[p] = u) <=> SentTo(c, u) \/ u \in S
  BY <1>1, <1>6, <1>7, <1>8, <1>9
<1>13. \A u : (\E p \in 1 .. Len(s) : p <= n * (i + 1) /\ s[p] = u) <=> SentTo(c, u) \/ u \in S
  BY <1>7, <1>12
<1> QED BY <1>10, <1>11, <1>13 DEF S, s, n, i

\* So nobody is told twice.
LEMMA ReachOnce ==
  ASSUME OpInv, NEW c \in Caller, pc[c] = "send",
         Reach(c, Batch(ids[c], Size(c), batch[c]))
  PROVE  LET S == Batch(ids[c], Size(c), batch[c])
         IN /\ told' \in [Caller -> [User -> 0 .. 1]]
            /\ told' = [told EXCEPT ![c] = [u \in User |-> IF u \in S THEN 1 ELSE @[u]]]
            /\ \A d \in Caller \ {c} : told'[d] = told[d]
            /\ told'[c] = [u \in User |-> IF u \in S THEN 1 ELSE told[c][u]]
<1> DEFINE S == Batch(ids[c], Size(c), batch[c])
           new == [u \in User |-> IF u \in S THEN 1 ELSE told[c][u]]
<1>1. told \in [Caller -> [User -> 0 .. 1]]
  BY DEF OpInv, CallerType
<1>2. \A u \in S : told[c][u] = 0
  BY NextBatch
<1>3. told' = [told EXCEPT ![c] = [u \in User |-> IF u \in S THEN told[c][u] + 1 ELSE told[c][u]]]
  BY DEF Reach
<1> HIDE DEF S
<1>4. [u \in User |-> IF u \in S THEN told[c][u] + 1 ELSE told[c][u]] = new
  BY <1>1, <1>2
<1>5. new \in [User -> 0 .. 1]
  BY <1>1
<1>6. told' = [told EXCEPT ![c] = new]
  BY <1>3, <1>4
<1> HIDE DEF new
<1>7. told' \in [Caller -> [User -> 0 .. 1]] /\ told'[c] = new /\ \A d \in Caller \ {c} : told'[d] = told[d]
  BY <1>1, <1>5, <1>6
<1> QED BY <1>6, <1>7 DEF new, S

\* When no batch is left to send, everybody found has been told.
LEMMA AllTold ==
  ASSUME NEW c \in Caller, ids[c] \in Seq(User), batch[c] \in Nat,
         batch[c] >= Count(ids[c], Size(c)), Match(c)
  PROVE  \A u \in Range(ids[c]) : told[c][u] = 1
<1> SUFFICES ASSUME NEW u \in Range(ids[c]) PROVE told[c][u] = 1
  OBVIOUS
<1>1. PICK p \in 1 .. Len(ids[c]) : ids[c][p] = u
  BY DEF Range
<1> DEFINE x == Size(c) * Count(ids[c], Size(c))
           y == Size(c) * batch[c]
<1>2. Count(ids[c], Size(c)) \in Nat \ {0} /\ Len(ids[c]) < x /\ Size(c) \in Nat \ {0}
  BY Sizes, CountBounds
<1>3. x \in Nat /\ y \in Nat /\ x <= y /\ Len(ids[c]) \in Nat
  BY <1>2, Times
<1> HIDE DEF x, y
<1>4. p <= y
  BY <1>2, <1>3
<1> QED BY <1>1, <1>4 DEF Match, SentTo, y

LEMMA OpInit == Init => OpInv
<1> SUFFICES ASSUME Init PROVE OpInv
  OBVIOUS
<1>1. CallerType
  BY DEF Init, CallerType, PC, Op, Untold
<1>2. ASSUME NEW c \in Caller PROVE Progress(c) /\ Reached(c)
  BY DEF Init, Progress, Reached, Distinct, Match, SentTo, Untold
<1> QED BY <1>1, <1>2 DEF OpInv

\* A number's user, or null, which leaves users and numbers as they are.
LEMMA Collected ==
  ASSUME NEW s \in Seq(User), NEW id \in User \cup {Nobody}, Distinct(s)
  PROVE  /\ Collect(s, id) \in Seq(User) /\ Distinct(Collect(s, id))
         /\ Range(s) \cup {id} \subseteq Range(Collect(s, id)) \cup {Nobody}
<1>1. CASE id = Nobody \/ id \in Range(s)
  BY <1>1 DEF Collect
<1>2. CASE id # Nobody /\ id \notin Range(s)
  <2> DEFINE t == Append(s, id)
  <2>1. Collect(s, id) = t /\ id \in User
    BY <1>2 DEF Collect
  <2>2. /\ t \in Seq(User) /\ Len(s) \in Nat /\ Len(t) = Len(s) + 1
        /\ DOMAIN s = 1 .. Len(s) /\ DOMAIN t = 1 .. Len(s) + 1
        /\ \A p \in 1 .. Len(s) : t[p] = s[p]
        /\ t[Len(s) + 1] = id
    BY <2>1
  <2> HIDE DEF t
  <2>3. \A p \in 1 .. Len(s) : s[p] # id
    BY <1>2, <2>2 DEF Range
  <2>4. Distinct(t)
    <3> SUFFICES ASSUME NEW p \in 1 .. Len(t), NEW q \in 1 .. Len(t), t[p] = t[q] PROVE p = q
      BY DEF Distinct
    <3>1. CASE p \in 1 .. Len(s) /\ q \in 1 .. Len(s)
      BY <2>2, <3>1 DEF Distinct
    <3>2. CASE p \notin 1 .. Len(s) \/ q \notin 1 .. Len(s)
      BY <2>2, <2>3, <3>2
    <3> QED BY <3>1, <3>2
  <2>5. Range(s) \cup {id} \subseteq Range(t)
    BY <2>2 DEF Range
  <2> QED BY <2>1, <2>2, <2>4, <2>5
<1> QED BY <1>1, <1>2

\* An operation that has sent no batch has told nobody.
LEMMA NothingSent ==
  ASSUME OpInv, NEW c \in Caller, answer[c] = "none", pc[c] # "send"
  PROVE  batch[c] = 0 /\ told[c] = Untold
<1>1. batch[c] = 0 /\ Match(c)
  BY DEF OpInv, Progress, Reached
<1>2. Size(c) * 0 = 0 /\ Len(ids[c]) \in Nat
  BY Sizes DEF OpInv, CallerType
<1>3. \A u \in User : told[c][u] = 0
  BY <1>1, <1>2 DEF Match, SentTo
<1> QED BY <1>1, <1>3 DEF Untold, OpInv, CallerType

LEMMA OpStep == OpInv /\ [Next]_vars => OpInv'
<1> SUFFICES ASSUME OpInv, [Next]_vars PROVE OpInv'
  OBVIOUS
<1>1. ASSUME UNCHANGED caller PROVE OpInv'
  BY <1>1
  DEF OpInv, caller, CallerType, Progress, Reached, Waiting, Match, SentTo, Size
<1>2. ASSUME NEW c \in Caller, Begin(c) PROVE OpInv'
  <2>1. PICK o \in Op, l \in Lists \cup {mobiles[c]} :
          l # <<>> /\ op' = [op EXCEPT ![c] = o] /\ mobiles' = [mobiles EXCEPT ![c] = l]
    BY <1>2 DEF Begin
  <2>2. /\ pc' = [pc EXCEPT ![c] = "token"]
        /\ pos' = [pos EXCEPT ![c] = 0] /\ ids' = [ids EXCEPT ![c] = <<>>]
        /\ batch' = [batch EXCEPT ![c] = 0]
        /\ told' = [told EXCEPT ![c] = Untold] /\ answer' = [answer EXCEPT ![c] = "none"]
    BY <1>2 DEF Begin
  <2>3. l \in Seq(Mobile) /\ Untold \in [User -> 0 .. 1]
    BY DingTalkAssumption DEF OpInv, CallerType, Untold
  <2>4. CallerType' /\ Others(c)
    BY <2>1, <2>2, <2>3 DEF OpInv, CallerType, Others, PC
  <2>5. /\ pc'[c] = "token" /\ op'[c] = o /\ mobiles'[c] = l /\ pos'[c] = 0 /\ ids'[c] = <<>>
        /\ batch'[c] = 0 /\ told'[c] = Untold /\ answer'[c] = "none"
    BY <2>1, <2>2 DEF OpInv, CallerType
  <2>6. Progress(c)'
    BY <2>1, <2>5 DEF Progress
  <2>7. Reached(c)'
    <3>1. Len(l) \in Nat /\ Match(c)'
      BY <2>3, <2>5 DEF Match, SentTo, Untold
    <3> QED BY <2>5, <3>1 DEF Reached, Distinct
  <2> QED BY <2>4, <2>6, <2>7, OthersKeep
<1>3. ASSUME NEW c \in Caller, Token(c) \/ Fetch(c) \/ Store(c) PROVE OpInv'
  <2>1. /\ pc[c] \in {"token", "store"} /\ UNCHANGED <<op, mobiles, pos, ids, batch, told, answer>>
        /\ pc' = [pc EXCEPT ![c] = Ready(c)] \/ pc' = [pc EXCEPT ![c] = "store"]
    BY <1>3 DEF Token, Fetch, Store
  <2>2. PICK to \in PC : pc' = [pc EXCEPT ![c] = to] /\ to \in {"store", Ready(c)}
    BY <2>1 DEF PC, Ready
  <2>3. pc'[c] = to /\ to # "send" /\ to # "idle"
    BY <2>2 DEF OpInv, CallerType, Ready
  <2>4. Progress(c)'
    BY <2>1, <2>2, <2>3 DEF OpInv, Progress, Ready, Waiting
  <2> QED BY <2>1, <2>2, <2>4, GoesOn
<1>4. ASSUME NEW c \in Caller, NoToken(c) PROVE OpInv'
  <2>1. /\ pc[c] \in {"token", "store"} /\ Answers(c, Refusal(c))
        /\ UNCHANGED <<op, mobiles, pos, ids, batch, told>>
    BY <1>4 DEF NoToken
  <2>2. batch[c] = 0
    BY <2>1 DEF OpInv, Progress
  <2> QED BY <2>1, <2>2, FirstBatch, Ends DEF Refusal
<1>5. ASSUME NEW c \in Caller, Owner(c) PROVE OpInv'
  <2>1. PICK m \in Owners \cup {mobiles[c][1]} : mobiles' = [mobiles EXCEPT ![c] = Append(@, m)]
    BY <1>5 DEF Owner
  <2>2. /\ pc[c] = "owner" /\ pc' = [pc EXCEPT ![c] = "lookup"]
        /\ UNCHANGED <<op, pos, ids, batch, told, answer>>
    BY <1>5 DEF Owner
  <2>3. mobiles[c] \in Seq(Mobile) /\ mobiles[c] # <<>>
    BY <2>2 DEF OpInv, Progress, CallerType
  <2>4. m \in Mobile
    BY <2>3, DingTalkAssumption
  <2>5. Append(mobiles[c], m) \in Seq(Mobile) \ {<<>>} /\ Len(Append(mobiles[c], m)) = Len(mobiles[c]) + 1
    BY <2>3, <2>4
  <2>6. CallerType' /\ Others(c)
    BY <2>1, <2>2, <2>5 DEF OpInv, CallerType, Others, PC
  <2>7. pc'[c] = "lookup" /\ mobiles'[c] = Append(mobiles[c], m)
    BY <2>1, <2>2 DEF OpInv, CallerType
  <2>8. Progress(c)'
    BY <2>2, <2>5, <2>7 DEF OpInv, Progress
  <2>9. Reached(c)'
    <3>1. answer[c] = "none" /\ UNCHANGED Match(c) /\ Len(mobiles[c]) \in Nat /\ pos[c] \in Nat
      BY <2>2, <2>3 DEF OpInv, Progress, CallerType, Match, SentTo, Size
    <3> QED BY <2>2, <2>5, <2>7, <3>1 DEF OpInv, Reached
  <2> QED BY <2>6, <2>8, <2>9, OthersKeep
<1>6. ASSUME NEW c \in Caller, Lookup(c) PROVE OpInv'
  <2>1. PICK id \in User \cup {Nobody} : ids' = [ids EXCEPT ![c] = Collect(@, id)]
    BY <1>6 DEF Lookup
  <2>2. /\ pc[c] = "lookup" /\ pos[c] < Len(mobiles[c]) /\ pos' = [pos EXCEPT ![c] = @ + 1]
        /\ UNCHANGED <<pc, op, mobiles, batch, told, answer>>
    BY <1>6 DEF Lookup
  <2>3. ids[c] \in Seq(User) /\ Distinct(ids[c]) /\ mobiles[c] \in Seq(Mobile) /\ pos[c] \in Nat
    BY DEF OpInv, Reached, CallerType
  <2>4. Collect(ids[c], id) \in Seq(User) /\ Distinct(Collect(ids[c], id))
    BY <2>3, Collected
  <2>5. CallerType' /\ Others(c)
    BY <2>1, <2>2, <2>4 DEF OpInv, CallerType, Others
  <2>6. ids'[c] = Collect(ids[c], id) /\ pos'[c] = pos[c] + 1
    BY <2>1, <2>2 DEF OpInv, CallerType
  <2>7. Progress(c)'
    BY <2>2 DEF OpInv, Progress
  <2>8. Reached(c)'
    <3>1. answer[c] = "none" /\ batch[c] = 0 /\ told[c] = Untold
      BY <2>2, NothingSent DEF OpInv, Progress
    <3>2. Size(c)' = Size(c) /\ Size(c) * 0 = 0
      BY <2>2, Sizes DEF Size
    <3>3. Match(c)'
      BY <2>2, <3>1, <3>2 DEF Match, SentTo, Untold
    <3>4. pos[c] + 1 <= Len(mobiles[c])
      BY <2>2, <2>3
    <3> QED BY <2>2, <2>4, <2>6, <3>1, <3>3, <3>4 DEF Reached
  <2> QED BY <2>5, <2>7, <2>8, OthersKeep
<1>7. ASSUME NEW c \in Caller, LookedUp(c) PROVE OpInv'
  <2>1. /\ pc[c] = "lookup" /\ pos[c] = Len(mobiles[c])
        /\ UNCHANGED <<op, mobiles, pos, ids, batch, told>>
    BY <1>7 DEF LookedUp
  <2>2. CASE Answers(c, "threw")
    BY <2>1, <2>2, Ends
  <2>3. ASSUME pc' = [pc EXCEPT ![c] = IF op[c] = "chat" THEN "create" ELSE "send"], UNCHANGED answer
        PROVE  OpInv'
    <3>1. PICK to \in PC : /\ pc' = [pc EXCEPT ![c] = to]
                           /\ to = IF op[c] = "chat" THEN "create" ELSE "send"
      BY <2>3 DEF PC
    <3>2. pc'[c] = to /\ op[c] \in Op
      BY <3>1 DEF OpInv, CallerType
    <3>3. Progress(c)'
      BY <2>1, <2>3, <3>1, <3>2 DEF OpInv, Progress, Waiting, Op
    <3> QED BY <2>1, <2>3, <3>1, <3>3, GoesOn
  <2> QED BY <1>7, <2>2, <2>3 DEF LookedUp
<1>8. ASSUME NEW c \in Caller, Send(c) PROVE OpInv'
  <2> DEFINE people == Batch(ids[c], Size(c), batch[c])
  <2>1. /\ pc[c] = "send" /\ batch[c] < Count(ids[c], Size(c)) /\ UNCHANGED <<op, mobiles, pos, ids>>
    BY <1>8 DEF Send
  <2>2. answer[c] = "none" /\ Match(c) /\ batch[c] \in Nat
    BY <2>1 DEF OpInv, Progress, Reached, CallerType
  <2>3. ASSUME Reach(c, people), batch' = [batch EXCEPT ![c] = @ + 1], UNCHANGED <<pc, answer>>
        PROVE  OpInv'
    <3>1. /\ told' \in [Caller -> [User -> 0 .. 1]]
          /\ \A d \in Caller \ {c} : told'[d] = told[d]
          /\ told'[c] = [u \in User |-> IF u \in people THEN 1 ELSE told[c][u]]
      BY <2>1, <2>3, ReachOnce
    <3>2. CallerType' /\ Others(c)
      <4>1. batch' \in [Caller -> Nat] /\ \A d \in Caller \ {c} : batch'[d] = batch[d]
        BY <2>3 DEF OpInv, CallerType
      <4>2. CallerType'
        BY <2>1, <2>3, <3>1, <4>1 DEF OpInv, CallerType
      <4>3. Others(c)
        BY <2>1, <2>3, <3>1, <4>1 DEF Others
      <4> QED BY <4>2, <4>3
    <3>3. batch'[c] = batch[c] + 1 /\ Size(c)' = Size(c)
      BY <2>1, <2>3 DEF OpInv, CallerType, Size
    <3>4. \A u : SentTo(c, u)' <=> SentTo(c, u) \/ u \in people
      BY <2>1, <3>3, NextBatch DEF SentTo
    <3> HIDE DEF people
    <3>5. Match(c)'
      BY <2>2, <3>1, <3>4 DEF Match
    <3>6. Progress(c)'
      BY <2>1, <2>3 DEF OpInv, Progress, Waiting
    <3>7. Reached(c)'
      BY <2>1, <2>2, <2>3, <3>5 DEF OpInv, Reached
    <3> QED BY <3>2, <3>6, <3>7, OthersKeep
  <2>4. ASSUME Answers(c, Refusal(c)), UNCHANGED <<batch, told>> PROVE OpInv'
    BY <2>1, <2>4, Ends DEF Refusal
  <2>5. ASSUME Answers(c, "threw"), Reach(c, people), UNCHANGED batch PROVE OpInv'
    <3>1. /\ told' \in [Caller -> [User -> 0 .. 1]]
          /\ \A d \in Caller \ {c} : told'[d] = told[d]
      BY <2>1, <2>5, ReachOnce
    <3>2. pc' = [pc EXCEPT ![c] = "idle"] /\ answer' = [answer EXCEPT ![c] = "threw"]
      BY <2>5 DEF Answers
    <3>3. CallerType' /\ Others(c)
      BY <2>1, <2>5, <3>1, <3>2 DEF OpInv, CallerType, Others, PC
    <3>4. pc'[c] = "idle" /\ answer'[c] = "threw"
      BY <3>2 DEF OpInv, CallerType
    <3>5. Progress(c)' /\ Reached(c)'
      BY <2>1, <3>4 DEF OpInv, Progress, Reached
    <3> QED BY <3>3, <3>5, OthersKeep
  <2>6. ASSUME Answers(c, "threw"), UNCHANGED <<batch, told>> PROVE OpInv'
    BY <2>1, <2>6, Ends
  <2> QED BY <1>8, <2>3, <2>4, <2>5, <2>6 DEF Send
<1>9. ASSUME NEW c \in Caller, Sent(c) PROVE OpInv'
  <2>1. /\ pc[c] = "send" /\ batch[c] >= Count(ids[c], Size(c)) /\ Answers(c, "true")
        /\ UNCHANGED <<op, mobiles, pos, ids, batch, told>>
    BY <1>9 DEF Sent
  <2>2. pos[c] = Len(mobiles[c])
    BY <2>1 DEF OpInv, Progress
  <2> QED BY <2>1, <2>2, Ends
<1>10. ASSUME NEW c \in Caller, Create(c) \/ RefreshUser(c) PROVE OpInv'
  <2>1. /\ pc[c] \in {"create", "refresh"} /\ UNCHANGED <<op, mobiles, pos, ids, batch, told>>
        /\ Answers(c, "true") \/ Answers(c, "threw")
    BY <1>10 DEF Create, RefreshUser
  <2>2. ~Waiting(c)
    BY <2>1 DEF OpInv, Progress, Waiting
  <2> QED BY <2>1, <2>2, Ends
<1>11. CASE (\E c \in Caller : Add(c)) \/ (\E d \in Depts : AddUser(d)) \/ Tick
  BY <1>1, <1>11 DEF Add, AddUser, Tick
<1>12. CASE UNCHANGED vars
  BY <1>1, <1>12 DEF vars
<1> QED
  BY <1>2, <1>3, <1>4, <1>5, <1>6, <1>7, <1>8, <1>9, <1>10, <1>11, <1>12 DEF Next, Run

\* A number of people that all were told, without a batch to spare: the last batch
\* was empty, or the list is not all sent.
LEMMA AllSent ==
  ASSUME NEW U, NEW s \in Seq(U), NEW n \in Nat \ {0}, NEW i \in Nat,
         i < Count(s, n), Len(s) <= n * i
  PROVE  Len(s) % n = 0
<1>1. Len(s) \in Nat /\ Count(s, n) = Len(s) \div n + 1 /\ Len(s) \div n \in Nat
  BY DEF Count
<1>2. i <= Len(s) \div n
  BY <1>1
<1>3. n * i <= n * (Len(s) \div n) /\ n * (Len(s) \div n) <= Len(s)
  BY <1>1, <1>2, Times
<1>4. n * (Len(s) \div n) = Len(s)
  BY <1>1, <1>3, Times
<1> QED BY <1>1, <1>4

\* A notice answered with false although everybody found has been told: the number
\* of people is a multiple of the batch's size, for any size and number of people.
THEOREM FalseForEmptyBatch == Spec => []OnlyEmptyBatchRefused
<1>1. OpInv => OnlyEmptyBatchRefused
  <2> SUFFICES ASSUME OpInv, NEW c \in Caller, op[c] = "notice", answer[c] = "false",
                      ids[c] # <<>>, \A u \in Range(ids[c]) : told[c][u] = 1
               PROVE  Len(ids[c]) % NoticeSize = 0
    BY DEF OnlyEmptyBatchRefused
  <2>1. /\ ids[c] \in Seq(User) /\ Size(c) = NoticeSize /\ NoticeSize \in Nat \ {0}
        /\ batch[c] \in Nat /\ batch[c] < Count(ids[c], NoticeSize)
        /\ Match(c) /\ Distinct(ids[c])
    BY Sizes DEF OpInv, CallerType, Reached
  <2> DEFINE last == Len(ids[c])
  <2>2. last \in 1 .. Len(ids[c]) /\ ids[c][last] \in User \cap Range(ids[c])
    BY <2>1 DEF Range
  <2>3. SentTo(c, ids[c][last])
    BY <2>1, <2>2 DEF Match
  <2>4. Len(ids[c]) <= NoticeSize * batch[c]
    BY <2>1, <2>2, <2>3 DEF SentTo, Distinct
  <2> QED BY <2>1, <2>4, AllSent
<1> QED BY <1>1, OpInit, OpStep, PTL DEF Spec

-----------------------------------------------------------------------------
(* The types of the rest.                                                    *)

RestInv ==
  /\ left \in [Caller -> 0 .. MaxCall] /\ due \in [Caller -> 0 .. MaxCall]
  /\ wanted \in [Caller -> Seq(User)] /\ members \in [Caller -> SUBSET User]
  /\ adds \in [Caller -> SUBSET Nat]
  /\ cached \in 0 .. CacheLife /\ valid \in 0 .. TokenLife
  /\ users \subseteq Mobile /\ Cardinality(users) <= UserCache
  /\ page \in [Depts -> Nat] /\ \A d \in Depts : page[d] <= Len(d) + 1
  /\ pageDue \in 0 .. MaxCall
  /\ asks \in 0 .. MaxAsks /\ faults \in 0 .. MaxFaults

LEMMA RestInit == Init => RestInv
<1> SUFFICES ASSUME Init PROVE RestInv
  OBVIOUS
<1>1. Cardinality({}) = 0
  BY FS_EmptySet
<1>2. \A d \in Depts : Len(d) \in Nat
  BY DingTalkAssumption
<1> QED BY <1>1, <1>2, Lifetimes, DingTalkAssumption DEF Init, RestInv

LEMMA FaultStep ==
  ASSUME RestInv PROVE Fault => faults' \in 0 .. MaxFaults
  BY DingTalkAssumption DEF RestInv, Fault

\* The cache stays within its size, whatever it drops.
LEMMA PutFits ==
  ASSUME RestInv, NEW S \in SUBSET Mobile, Put(S)
  PROVE  users' \subseteq Mobile /\ Cardinality(users') <= UserCache
  BY DEF Put, RestInv

LEMMA LookedUpFits ==
  ASSUME RestInv, NEW m \in Mobile, NEW id, GetUserId(m, id)
  PROVE  users' \subseteq Mobile /\ Cardinality(users') <= UserCache /\ faults' \in 0 .. MaxFaults
<1>1. UNCHANGED users \/ Put({m})
  BY DEF GetUserId
<1>2. faults' \in 0 .. MaxFaults
  BY FaultStep DEF GetUserId, RestInv
<1> QED BY <1>1, <1>2, PutFits DEF RestInv

LEMMA PeopleAreUsers ==
  ASSUME NEW s \in Seq(User), NEW n \in Nat \ {0}, NEW i \in Nat
  PROVE  Batch(s, n, i) \in SUBSET User
  BY BatchMembers

LEMMA RestStep == RestInv /\ OpInv /\ [Next]_vars => RestInv'
<1> SUFFICES ASSUME RestInv, OpInv, [Next]_vars PROVE RestInv'
  OBVIOUS
<1> USE Lifetimes
<1>0. /\ left \in [Caller -> 0 .. MaxCall] /\ cached \in 0 .. CacheLife /\ valid \in 0 .. TokenLife
      /\ faults \in 0 .. MaxFaults /\ asks \in 0 .. MaxAsks
  BY DEF RestInv
<1>1. ASSUME NEW c \in Caller, Begin(c) PROVE RestInv'
  <2>1. UNCHANGED <<left, chat, token, users, pages, faults>> /\ asks' \in 0 .. MaxAsks
    BY <1>0, <1>1, DingTalkAssumption DEF Begin
  <2> QED BY <2>1 DEF RestInv, chat, token, pages
\* Operations that leave chats, caches and pages alone.
<1>2. ASSUME UNCHANGED <<chat, users, pages, asks>>,
             left' \in [Caller -> 0 .. MaxCall], cached' \in 0 .. CacheLife, valid' \in 0 .. TokenLife,
             faults' \in 0 .. MaxFaults
      PROVE  RestInv'
  BY <1>2 DEF RestInv, chat, pages
<1>3. ASSUME NEW c \in Caller, NEW what, Answers(c, what) PROVE left' \in [Caller -> 0 .. MaxCall]
  BY <1>0, <1>3 DEF Answers
<1>4. ASSUME NEW c \in Caller, Token(c) \/ Fetch(c) \/ Store(c) PROVE RestInv'
  <2>1. /\ left' = [left EXCEPT ![c] = MaxCall] /\ UNCHANGED <<chat, users, pages, asks, faults>>
        /\ cached' \in {cached, CacheLife} /\ valid' \in {valid, TokenLife}
    BY <1>4 DEF Token, Fetch, Store, token
  <2> QED BY <1>0, <1>2, <2>1
<1>5. ASSUME NEW c \in Caller, NoToken(c) PROVE RestInv'
  <2>1. UNCHANGED <<chat, token, users, pages, asks>> /\ Fault /\ Answers(c, Refusal(c))
    BY <1>5 DEF NoToken
  <2> QED BY <1>0, <1>2, <1>3, <2>1, FaultStep DEF token
<1>6. ASSUME NEW c \in Caller, Owner(c) \/ Lookup(c) PROVE RestInv'
  <2>1. UNCHANGED <<left, chat, token, pages, asks>>
    BY <1>6 DEF Owner, Lookup
  <2>2. mobiles[c] \in Seq(Mobile) /\ pos[c] \in Nat /\ (pc[c] = "owner" => mobiles[c] # <<>>)
    BY DEF OpInv, CallerType, Progress
  <2>3. \E m \in Mobile : \E id : GetUserId(m, id)
    <3>1. CASE Owner(c)
      <4>1. PICK m \in Owners \cup {mobiles[c][1]}, id \in User \cup {Nobody} : GetUserId(m, id)
        BY <3>1 DEF Owner
      <4>2. m \in Mobile
        BY <2>2, <3>1, DingTalkAssumption DEF Owner
      <4> QED BY <4>1, <4>2
    <3>2. CASE Lookup(c)
      <4>1. \E id : GetUserId(mobiles[c][pos[c] + 1], id)
        BY <3>2 DEF Lookup
      <4>2. mobiles[c][pos[c] + 1] \in Mobile
        BY <2>2, <3>2 DEF Lookup
      <4> QED BY <4>1, <4>2
    <3> QED BY <1>6, <3>1, <3>2
  <2>4. users' \subseteq Mobile /\ Cardinality(users') <= UserCache /\ faults' \in 0 .. MaxFaults
    BY <2>3, LookedUpFits
  <2> QED BY <2>1, <2>4 DEF RestInv, chat, token, pages
<1>7. ASSUME NEW c \in Caller, LookedUp(c) \/ Sent(c) PROVE RestInv'
  <2>1. UNCHANGED <<chat, token, users, pages, asks, faults>>
    BY <1>7 DEF LookedUp, Sent
  <2>2. left' \in [Caller -> 0 .. MaxCall]
    BY <1>0, <1>3, <1>7 DEF LookedUp, Sent
  <2> QED BY <1>0, <1>2, <2>1, <2>2 DEF token
<1>8. ASSUME NEW c \in Caller, Send(c) PROVE RestInv'
  <2> DEFINE people == Batch(ids[c], Size(c), batch[c])
  <2>1. UNCHANGED <<wanted, adds, due, token, users, pages, asks>>
    BY <1>8 DEF Send
  <2>2. people \in SUBSET User
    BY Sizes, PeopleAreUsers DEF OpInv, CallerType
  <2>3. members' = members \/ members' = [members EXCEPT ![c] = @ \cup people]
    BY <1>8 DEF Send, Reach
  <2> HIDE DEF people
  <2>4. members' \in [Caller -> SUBSET User]
    BY <2>2, <2>3 DEF RestInv
  <2>5. left' = left \/ \E what : Answers(c, what)
    BY <1>8 DEF Send
  <2>6. faults' = faults \/ Fault
    BY <1>8 DEF Send
  <2>7. left' \in [Caller -> 0 .. MaxCall] /\ faults' \in 0 .. MaxFaults
    BY <1>0, <1>3, <2>5, <2>6, FaultStep
  <2> QED BY <2>1, <2>4, <2>7 DEF RestInv, token, pages
<1>9. ASSUME NEW c \in Caller, Create(c) PROVE RestInv'
  <2> DEFINE first == Batch(ids[c], ChatSize, 0)
  <2>1. UNCHANGED <<token, users, pages, asks>> /\ (Answers(c, "true") \/ Answers(c, "threw"))
    BY <1>9 DEF Create
  <2>2. faults' = faults \/ Fault
    BY <1>9 DEF Create
  <2>3. left' \in [Caller -> 0 .. MaxCall] /\ faults' \in 0 .. MaxFaults
    BY <1>0, <1>3, <2>1, <2>2, FaultStep
  <2>4. ids[c] \in Seq(User) /\ ChatSize \in Nat \ {0}
    BY DingTalkAssumption DEF OpInv, CallerType
  <2>5. first \in SUBSET User /\ Later(ids[c]) \in SUBSET Nat
    BY <2>4, PeopleAreUsers, CountBounds DEF Later
  <2>6. \/ UNCHANGED chat
        \/ /\ wanted' = [wanted EXCEPT ![c] = ids[c]] /\ members' = [members EXCEPT ![c] = first]
           /\ adds' = [adds EXCEPT ![c] = Later(ids[c])] /\ due' = [due EXCEPT ![c] = left[c]]
    BY <1>9 DEF Create
  <2> HIDE DEF first
  <2>7. /\ due' \in [Caller -> 0 .. MaxCall] /\ wanted' \in [Caller -> Seq(User)]
        /\ members' \in [Caller -> SUBSET User] /\ adds' \in [Caller -> SUBSET Nat]
    BY <2>4, <2>5, <2>6 DEF RestInv, chat
  <2> QED BY <2>1, <2>3, <2>7 DEF RestInv, token, pages
<1>10. ASSUME NEW c \in Caller, Add(c) PROVE RestInv'
  <2>1. PICK i \in adds[c] : /\ adds' = [adds EXCEPT ![c] = @ \ {i}]
                             /\ \/ members' = [members EXCEPT ![c] = @ \cup Batch(wanted[c], ChatSize, i)]
                                \/ members' = members
    BY <1>10 DEF Add
  <2>2. UNCHANGED <<left, wanted, due, token, users, pages, asks>> /\ (faults' = faults \/ Fault)
    BY <1>10 DEF Add
  <2>3. i \in Nat /\ wanted[c] \in Seq(User) /\ ChatSize \in Nat \ {0}
    BY DingTalkAssumption DEF RestInv
  <2> DEFINE more == Batch(wanted[c], ChatSize, i)
  <2>4. more \in SUBSET User
    BY <2>3, PeopleAreUsers
  <2> HIDE DEF more
  <2>5. members' = [members EXCEPT ![c] = @ \cup more] \/ members' = members
    BY <2>1 DEF more
  <2>6. members' \in [Caller -> SUBSET User] /\ adds' \in [Caller -> SUBSET Nat]
    BY <2>1, <2>4, <2>5 DEF RestInv
  <2>7. faults' \in 0 .. MaxFaults
    BY <1>0, <2>2, FaultStep
  <2> QED BY <2>2, <2>6, <2>7 DEF RestInv, token, pages
<1>11. ASSUME NEW c \in Caller, RefreshUser(c) PROVE RestInv'
  <2>1. /\ UNCHANGED <<chat, token, users, asks>> /\ Answers(c, "true")
        /\ page' = [d \in Depts |-> 1] \/ page' = page
        /\ pageDue' \in {pageDue, left[c]}
        /\ faults' = faults \/ Fault
    BY <1>11 DEF RefreshUser, pages
  <2>2. \A d \in Depts : Len(d) \in Nat
    BY DingTalkAssumption
  <2>3. page' \in [Depts -> Nat] /\ \A d \in Depts : page'[d] <= Len(d) + 1
    BY <2>1, <2>2 DEF RestInv
  <2>4. left' \in [Caller -> 0 .. MaxCall] /\ faults' \in 0 .. MaxFaults
    BY <1>0, <1>3, <2>1, FaultStep
  <2>5. pageDue' \in 0 .. MaxCall
    BY <1>0, <2>1 DEF RestInv
  <2> QED BY <2>1, <2>3, <2>4, <2>5 DEF RestInv, chat, token
<1>12. ASSUME NEW d \in Depts, AddUser(d) PROVE RestInv'
  <2>1. /\ UNCHANGED <<left, chat, token, pageDue, asks>> /\ page[d] \in 1 .. Len(d)
        /\ page' = [page EXCEPT ![d] = page[d] + 1] \/ page' = [page EXCEPT ![d] = Len(d) + 1]
        /\ Put(d[page[d]]) \/ UNCHANGED users
        /\ faults' = faults \/ Fault
    BY <1>12 DEF AddUser, NextPage
  <2>2. d \in Seq(SUBSET Mobile) /\ \A e \in Depts : Len(e) \in Nat
    BY DingTalkAssumption
  <2>3. d[page[d]] \in SUBSET Mobile
    BY <2>1, <2>2
  <2>4. users' \subseteq Mobile /\ Cardinality(users') <= UserCache
    <3>1. CASE Put(d[page[d]])
      BY <2>3, <3>1, PutFits
    <3>2. CASE UNCHANGED users
      BY <3>2 DEF RestInv
    <3> QED BY <2>1, <3>1, <3>2
  <2>5. PICK next \in 1 .. Len(d) + 1 : page' = [page EXCEPT ![d] = next]
    <3>1. page[d] + 1 \in 1 .. Len(d) + 1 /\ Len(d) + 1 \in 1 .. Len(d) + 1
      BY <2>1, <2>2
    <3> QED BY <2>1, <3>1
  <2>6. page' \in [Depts -> Nat]
    BY <2>5 DEF RestInv
  <2>7. ASSUME NEW e \in Depts PROVE page'[e] <= Len(e) + 1
    BY <2>2, <2>5 DEF RestInv
  <2>8. faults' \in 0 .. MaxFaults
    BY <1>0, <2>1, FaultStep
  <2> QED BY <2>1, <2>4, <2>6, <2>7, <2>8 DEF RestInv, chat, token
<1>13. CASE Tick
  <2>1. \A n \in Nat : Less(n) \in Nat /\ Less(n) <= n
    BY DEF Less
  <2>2. /\ left' = [c \in Caller |-> Less(left[c])] /\ due' = [c \in Caller |-> Less(due[c])]
        /\ pageDue' = Less(pageDue) /\ cached' = Less(cached) /\ valid' = Less(valid)
        /\ UNCHANGED <<wanted, members, adds, users, page, asks, faults>>
    BY <1>13 DEF Tick
  <2>3. /\ \A c \in Caller : left[c] \in 0 .. MaxCall /\ due[c] \in 0 .. MaxCall
        /\ cached \in 0 .. CacheLife /\ valid \in 0 .. TokenLife /\ pageDue \in 0 .. MaxCall
    BY DEF RestInv
  <2>4. \A c \in Caller : Less(left[c]) \in 0 .. MaxCall /\ Less(due[c]) \in 0 .. MaxCall
    BY <2>1, <2>3
  <2>5. /\ Less(cached) \in 0 .. CacheLife /\ Less(valid) \in 0 .. TokenLife
        /\ Less(pageDue) \in 0 .. MaxCall
    BY <2>1, <2>3
  <2> QED BY <2>2, <2>4, <2>5 DEF RestInv
<1>14. CASE UNCHANGED vars
  BY <1>14 DEF vars, chat, token, pages, RestInv
<1> QED
  BY <1>1, <1>4, <1>5, <1>6, <1>7, <1>8, <1>9, <1>10, <1>11, <1>12, <1>13, <1>14 DEF Next, Run

\* The types; above all, that no operation tells a user twice and the user cache keeps
\* to its size.
THEOREM TypeCorrect == Spec => []TypeOK
<1>1. OpInv /\ RestInv => TypeOK
  BY DEF OpInv, CallerType, PC, Reached, RestInv, TypeOK
<1> QED BY <1>1, OpInit, OpStep, RestInit, RestStep, PTL DEF Spec

-----------------------------------------------------------------------------
\* While no call fails, null is the answer only for a number nobody has.
LEMMA FoundStep == OpInv /\ RestInv /\ FoundInv /\ [Next]_vars => FoundInv'
<1> SUFFICES ASSUME OpInv, RestInv, FoundInv, [Next]_vars, faults' = 0, NEW c \in Caller PROVE Found(c)'
  BY DEF FoundInv
<1>0. faults' # faults + 1
  BY DEF RestInv
<1>1. ASSUME UNCHANGED <<pos[c], mobiles[c], ids[c]>>, faults = 0 PROVE Found(c)'
  BY <1>1 DEF Found, FoundInv
<1>2. ASSUME pos'[c] = 0 PROVE Found(c)'
  BY <1>2 DEF Found
<1>4. ASSUME NEW d \in Caller, Begin(d) PROVE Found(c)'
  <2>1. faults = 0 /\ pos' = [pos EXCEPT ![d] = 0] /\ ids' = [ids EXCEPT ![d] = <<>>]
        /\ \E l : mobiles' = [mobiles EXCEPT ![d] = l]
    BY <1>4 DEF Begin
  <2>2. c # d => UNCHANGED <<pos[c], mobiles[c], ids[c]>>
    BY <2>1 DEF OpInv, CallerType
  <2>3. c = d => pos'[c] = 0
    BY <2>1 DEF OpInv, CallerType
  <2> QED BY <1>1, <1>2, <2>1, <2>2, <2>3
<1>5. ASSUME NEW d \in Caller, Token(d) \/ Fetch(d) \/ Store(d) \/ LookedUp(d) \/ Sent(d) PROVE Found(c)'
  BY <1>1, <1>5 DEF Token, Fetch, Store, LookedUp, Sent
<1>6. ASSUME NEW d \in Caller, Owner(d) PROVE Found(c)'
  <2>1. \E m : mobiles' = [mobiles EXCEPT ![d] = Append(@, m)]
    BY <1>6 DEF Owner
  <2>2. pos[d] = 0 /\ UNCHANGED <<pos, ids>>
    BY <1>6 DEF Owner, OpInv, Progress
  <2>3. faults = 0
    BY <1>0, <1>6 DEF Owner, GetUserId, Fault
  <2>4. c # d => mobiles'[c] = mobiles[c]
    BY <2>1 DEF OpInv, CallerType
  <2> QED BY <1>1, <1>2, <2>2, <2>3, <2>4
<1>7. ASSUME NEW d \in Caller, Lookup(d) PROVE Found(c)'
  <2>1. PICK id \in User \cup {Nobody} :
          GetUserId(mobiles[d][pos[d] + 1], id) /\ ids' = [ids EXCEPT ![d] = Collect(@, id)]
    BY <1>7 DEF Lookup
  <2>2. pos' = [pos EXCEPT ![d] = @ + 1] /\ UNCHANGED mobiles
    BY <1>7 DEF Lookup
  <2>3. faults = 0 /\ id = UserOf[mobiles[d][pos[d] + 1]]
    BY <1>0, <2>1 DEF GetUserId, Fault
  <2>4. CASE c # d
    BY <1>1, <2>1, <2>2, <2>3, <2>4 DEF OpInv, CallerType
  <2>5. CASE c = d
    <3>1. pos'[c] = pos[c] + 1 /\ pos[c] \in Nat /\ ids'[c] = Collect(ids[c], id)
      BY <2>1, <2>2, <2>5 DEF OpInv, CallerType
    <3>2. Range(ids[c]) \cup {id} \subseteq Range(ids'[c]) \cup {Nobody}
      BY <3>1, Collected DEF OpInv, CallerType, Reached
    <3>3. Found(c)
      BY <2>3 DEF FoundInv
    <3> QED BY <2>2, <2>3, <2>5, <3>1, <3>2, <3>3 DEF Found
  <2> QED BY <2>4, <2>5
<1>8. ASSUME NEW d \in Caller, NoToken(d) \/ Send(d) \/ Create(d) \/ RefreshUser(d) \/ Add(d)
      PROVE  Found(c)'
  <2>1. faults = 0
    BY <1>0, <1>8 DEF NoToken, Send, Create, RefreshUser, Add, Fault
  <2> QED BY <1>1, <1>8, <2>1 DEF NoToken, Send, Create, RefreshUser, Add, caller
<1>9. CASE (\E d \in Depts : AddUser(d)) \/ Tick \/ UNCHANGED vars
  <2>1. faults = 0
    BY <1>0, <1>9 DEF AddUser, Tick, vars, Fault
  <2> QED BY <1>1, <1>9, <2>1 DEF AddUser, Tick, vars, caller
<1> QED
  BY <1>4, <1>5, <1>6, <1>7, <1>8, <1>9 DEF Next, Run

\* If no call has failed, "true" means that everybody whose number was given has been
\* reached, whatever the shared cache held or dropped, for any lists and sizes.
THEOREM TrueForEverybody == Spec => []EverybodyReached
<1>1. Init => FoundInv
  BY DEF Init, FoundInv, Found
<1>2. OpInv /\ FoundInv => EverybodyReached
  <2> SUFFICES ASSUME OpInv, FoundInv, NEW c \in Caller, faults = 0, Waiting(c), answer[c] = "true",
                      NEW m \in Range(mobiles[c]), UserOf[m] # Nobody
               PROVE  told[c][UserOf[m]] = 1
    BY DEF EverybodyReached
  <2>1. /\ pos[c] = Len(mobiles[c]) /\ mobiles[c] \in Seq(Mobile) /\ ids[c] \in Seq(User)
        /\ batch[c] \in Nat /\ Size(c) \in Nat \ {0} /\ batch[c] >= Count(ids[c], Size(c)) /\ Match(c)
    BY Sizes DEF OpInv, CallerType, Reached
  <2>2. PICK i \in 1 .. pos[c] : mobiles[c][i] = m
    BY <2>1 DEF Range
  <2>3. UserOf[m] \in Range(ids[c])
    BY <2>2 DEF FoundInv, Found
  <2> QED BY <2>1, <2>3, AllTold
<1> QED BY <1>1, <1>2, OpInit, OpStep, RestInit, RestStep, FoundStep, PTL DEF Spec

-----------------------------------------------------------------------------
(* The refinement of Broadcast.                                              *)

\* Seen from outside (the substitutions of B).
ToldOf(c) == IF Waiting(c) THEN told[c] ELSE Untold
AnswerOf(c) == IF Waiting(c) THEN answer[c] ELSE "none"
SeenAsked == [c \in Caller |-> Asked(c)]
SeenLimit == [c \in Caller |-> Size(c)]
SeenTold == [c \in Caller |-> ToldOf(c)]
SeenAnswer == [c \in Caller |-> AnswerOf(c)]
Seen == <<SeenAsked, SeenLimit, SeenTold, SeenAnswer>>

\* Only one caller is seen to move.
LEMMA OneSeen ==
  ASSUME NEW c \in Caller, Others(c)
  PROVE  /\ SeenAsked' = [SeenAsked EXCEPT ![c] = Asked(c)']
         /\ SeenLimit' = [SeenLimit EXCEPT ![c] = Size(c)']
         /\ SeenTold' = [SeenTold EXCEPT ![c] = ToldOf(c)']
         /\ SeenAnswer' = [SeenAnswer EXCEPT ![c] = AnswerOf(c)']
         /\ SeenAsked[c] = Asked(c) /\ SeenLimit[c] = Size(c)
         /\ SeenTold[c] = ToldOf(c) /\ SeenAnswer[c] = AnswerOf(c)
<1>1. \A d \in Caller \ {c} : UNCHANGED <<Asked(d), Size(d), ToldOf(d), AnswerOf(d)>>
  BY DEF Others, Asked, Size, ToldOf, AnswerOf, Waiting
<1> QED BY <1>1 DEF SeenAsked, SeenLimit, SeenTold, SeenAnswer

LEMMA SeenNothing ==
  ASSUME NEW c \in Caller, Others(c), UNCHANGED <<Asked(c), Size(c), ToldOf(c), AnswerOf(c)>>
  PROVE  UNCHANGED Seen
<1>1. /\ SeenAsked' = SeenAsked /\ SeenLimit' = SeenLimit
  BY OneSeen DEF SeenAsked, SeenLimit
<1>2. SeenTold' = SeenTold /\ SeenAnswer' = SeenAnswer
  BY OneSeen DEF SeenTold, SeenAnswer
<1> QED BY <1>1, <1>2 DEF Seen

LEMMA SeenAsk ==
  ASSUME NEW c \in Caller, Others(c), ToldOf(c) = Untold \/ AnswerOf(c) # "none",
         Asked(c)' \subseteq User, Size(c)' \in Nat, ToldOf(c)' = Untold, AnswerOf(c)' = "none"
  PROVE  B!Next
<1> DEFINE a == Asked(c)'
           n == Size(c)'
<1>1. /\ SeenAsked' = [SeenAsked EXCEPT ![c] = a] /\ SeenLimit' = [SeenLimit EXCEPT ![c] = n]
      /\ SeenTold' = [SeenTold EXCEPT ![c] = Untold] /\ SeenAnswer' = [SeenAnswer EXCEPT ![c] = "none"]
      /\ SeenLimit'[c] = n
  BY OneSeen DEF SeenLimit
<1>2. SeenTold[c] = B!Untold \/ SeenAnswer[c] # "none"
  BY OneSeen DEF B!Untold, Untold
<1>3. a \in SUBSET User /\ n \in Nat /\ Untold = B!Untold
  BY DEF B!Untold, Untold
<1> HIDE DEF a, n
<1>4. B!Ask(c)
  BY <1>1, <1>2, <1>3 DEF B!Ask, SeenAsked, SeenLimit, SeenTold, SeenAnswer, ToldOf, AnswerOf
<1> QED BY <1>4 DEF B!Next

LEMMA SeenTell ==
  ASSUME NEW c \in Caller, Others(c), NEW S \in SUBSET User,
         AnswerOf(c) = "none", S \subseteq Asked(c), Cardinality(S) <= Size(c),
         \A u \in S : ToldOf(c)[u] = 0,
         ToldOf(c)' = [u \in User |-> IF u \in S THEN 1 ELSE ToldOf(c)[u]],
         AnswerOf(c)' \in {"none", "threw"}, UNCHANGED <<Asked(c), Size(c)>>
  PROVE  B!Next
<1>1. /\ UNCHANGED <<SeenAsked, SeenLimit>> /\ SeenTold[c] = ToldOf(c)
      /\ SeenTold' = [SeenTold EXCEPT ![c] = [u \in User |-> IF u \in S THEN 1 ELSE ToldOf(c)[u]]]
  BY OneSeen DEF SeenAsked, SeenLimit
<1>2. PICK said \in {"none", "threw"} : SeenAnswer' = [SeenAnswer EXCEPT ![c] = said]
  BY OneSeen
<1>3. /\ SeenAnswer[c] = "none" /\ S \subseteq SeenAsked[c] /\ Cardinality(S) <= SeenLimit[c]
      /\ \A u \in S : SeenTold[c][u] = 0
  BY OneSeen
<1>4. SeenTold' = [SeenTold EXCEPT ![c] = [u \in User |-> IF u \in S THEN 1 ELSE @[u]]]
  BY <1>1
<1>5. \E a \in {"none", "threw"} : SeenAnswer' = [SeenAnswer EXCEPT ![c] = a]
  BY <1>2
<1>6. /\ SeenAnswer[c] = "none"
      /\ S \subseteq SeenAsked[c] /\ B!Cardinality(S) <= SeenLimit[c]
      /\ \A p \in S : SeenTold[c][p] = 0
      /\ SeenTold' = [SeenTold EXCEPT ![c] = [p \in User |-> IF p \in S THEN 1 ELSE @[p]]]
      /\ \E a \in {"none", "threw"} : SeenAnswer' = [SeenAnswer EXCEPT ![c] = a]
      /\ UNCHANGED <<SeenAsked, SeenLimit>>
  BY <1>1, <1>3, <1>4, <1>5 DEF Cardinality, B!Cardinality
<1>7. B!Tell(c, S)
  BY <1>6, Zenon DEF B!Tell, SeenAsked, SeenLimit, SeenTold, SeenAnswer, ToldOf, AnswerOf
<1> QED BY <1>7 DEF B!Next

LEMMA SeenAnswered ==
  ASSUME NEW c \in Caller, Others(c), AnswerOf(c) = "none",
         UNCHANGED <<Asked(c), Size(c), ToldOf(c)>>,
         \/ AnswerOf(c)' = "true" /\ \A u \in Asked(c) : ToldOf(c)[u] = 1
         \/ AnswerOf(c)' \in {"false", "threw"}
  PROVE  B!Next
<1> DEFINE a == AnswerOf(c)'
<1>1. UNCHANGED <<SeenAsked, SeenLimit, SeenTold>> /\ SeenAnswer' = [SeenAnswer EXCEPT ![c] = a]
  BY OneSeen DEF SeenAsked, SeenLimit, SeenTold
<1>2. /\ SeenAnswer[c] = "none"
      /\ (a = "true" /\ \A u \in SeenAsked[c] : SeenTold[c][u] = 1) \/ a \in {"false", "threw"}
  BY OneSeen
<1> HIDE DEF a
<1>3. B!Answer(c)
  BY <1>1, <1>2 DEF B!Answer, SeenAsked, SeenLimit, SeenTold, SeenAnswer, ToldOf, AnswerOf
<1> QED BY <1>3 DEF B!Next

LEMMA OnlyOne ==
  ASSUME OpInv, NEW c \in Caller, Begin(c) \/ NoToken(c) \/ Run(c)
  PROVE  Others(c)
<1>0. CallerType
  BY DEF OpInv
<1>1. CASE Begin(c)
  <2>1. (\E o : op' = [op EXCEPT ![c] = o]) /\ \E l : mobiles' = [mobiles EXCEPT ![c] = l]
    BY <1>1 DEF Begin
  <2> QED BY <1>0, <1>1, <2>1 DEF Begin, CallerType, Others
<1>2. CASE NoToken(c) \/ Sent(c) \/ Create(c) \/ RefreshUser(c)
  <2>1. UNCHANGED <<op, mobiles, pos, ids, batch, told>> /\ \E what : Answers(c, what)
    BY <1>2 DEF NoToken, Sent, Create, RefreshUser
  <2> QED BY <1>0, <2>1 DEF Answers, CallerType, Others
<1>3. CASE Token(c) \/ Fetch(c) \/ Store(c)
  BY <1>0, <1>3 DEF Token, Fetch, Store, CallerType, Others
<1>4. CASE Owner(c)
  <2>1. \E l : mobiles' = [mobiles EXCEPT ![c] = l]
    BY <1>4 DEF Owner
  <2> QED BY <1>0, <1>4, <2>1 DEF Owner, CallerType, Others
<1>5. CASE Lookup(c)
  <2>1. \E s : ids' = [ids EXCEPT ![c] = s]
    BY <1>5 DEF Lookup
  <2> QED BY <1>0, <1>5, <2>1 DEF Lookup, CallerType, Others
<1>6. CASE LookedUp(c)
  <2>1. /\ UNCHANGED <<op, mobiles, pos, ids, batch, told>>
        /\ \E to : pc' = [pc EXCEPT ![c] = to]
        /\ answer' = answer \/ \E a : answer' = [answer EXCEPT ![c] = a]
    BY <1>6 DEF LookedUp, Answers
  <2> QED BY <1>0, <2>1 DEF CallerType, Others
<1>7. CASE Send(c)
  <2>1. /\ UNCHANGED <<op, mobiles, pos, ids>>
        /\ batch' = batch \/ batch' = [batch EXCEPT ![c] = @ + 1]
        /\ UNCHANGED <<pc, answer>> \/ \E what : Answers(c, what)
        /\ told' = told \/ \E t : told' = [told EXCEPT ![c] = t]
    BY <1>7 DEF Send, Reach
  <2> QED BY <1>0, <2>1 DEF Answers, CallerType, Others
<1> QED BY <1>1, <1>2, <1>3, <1>4, <1>5, <1>6, <1>7 DEF Run

LEMMA SeenStep == OpInv /\ [Next]_vars => [B!Next]_Seen
<1> SUFFICES ASSUME OpInv, [Next]_vars PROVE [B!Next]_Seen
  OBVIOUS
<1>0. ASSUME NEW c \in Caller, Waiting(c), answer[c] = "none", pc[c] # "idle",
             Others(c), NEW what \in {"false", "threw"}, Answers(c, what),
             pc[c] # "lookup", UNCHANGED <<op, ids, told>>
      PROVE  B!Next
  <2>1. pc'[c] = "idle" /\ answer'[c] = what
    BY <1>0 DEF Answers, OpInv, CallerType
  <2> QED BY <1>0, <2>1, SeenAnswered DEF Asked, Size, ToldOf, AnswerOf, Waiting
<1>1. ASSUME UNCHANGED caller PROVE UNCHANGED Seen
  BY <1>1 DEF caller, Seen, SeenAsked, SeenLimit, SeenTold, SeenAnswer, Asked, Size, ToldOf, AnswerOf, Waiting
\* What only operations do that reach nobody in batches.
<1>2. ASSUME NEW c \in Caller, ~Waiting(c), op' = op, Others(c) PROVE UNCHANGED Seen
  BY <1>2, SeenNothing DEF Asked, Size, ToldOf, AnswerOf, Waiting
<1>3. ASSUME NEW c \in Caller, Begin(c) PROVE B!Next
  <2>1. /\ pc' = [pc EXCEPT ![c] = "token"] /\ ids' = [ids EXCEPT ![c] = <<>>] /\ pc[c] = "idle"
        /\ told' = [told EXCEPT ![c] = Untold] /\ answer' = [answer EXCEPT ![c] = "none"]
    BY <1>3 DEF Begin
  <2>2. ids'[c] = <<>> /\ told'[c] = Untold /\ answer'[c] = "none"
    BY <2>1 DEF OpInv, CallerType
  <2>3. ToldOf(c) = Untold \/ AnswerOf(c) # "none"
    BY <2>1, NothingSent DEF ToldOf, AnswerOf
  <2>4. Asked(c)' \subseteq User
    BY <2>2 DEF Asked, Range
  <2>5. Size(c)' \in Nat /\ ToldOf(c)' = Untold /\ AnswerOf(c)' = "none"
    BY <2>2, DingTalkAssumption DEF Size, ToldOf, AnswerOf
  <2> QED BY <1>3, <2>3, <2>4, <2>5, OnlyOne, SeenAsk
<1>4. ASSUME NEW c \in Caller, Token(c) \/ Fetch(c) \/ Store(c) PROVE UNCHANGED Seen
  <2>1. pc[c] \in {"token", "store"} /\ UNCHANGED <<op, ids, told, answer>>
    BY <1>4 DEF Token, Fetch, Store
  <2>2. Range(ids[c]) = {}
    BY <2>1 DEF OpInv, Progress, Range
  <2>3. UNCHANGED <<Asked(c), Size(c), ToldOf(c), AnswerOf(c)>>
    BY <2>1, <2>2 DEF Asked, Size, ToldOf, AnswerOf, Waiting
  <2>4. Others(c)
    BY <1>4, OnlyOne DEF Run
  <2> QED BY <2>3, <2>4, SeenNothing
<1>5. ASSUME NEW c \in Caller, NoToken(c) PROVE B!Next \/ UNCHANGED Seen
  <2>1. /\ pc[c] \in {"token", "store"} /\ Answers(c, Refusal(c))
        /\ UNCHANGED <<op, ids, told>> /\ Others(c) /\ answer[c] = "none"
    BY <1>5, OnlyOne DEF NoToken, OpInv, Progress
  <2> QED BY <1>0, <1>2, <2>1 DEF Refusal
<1>6. ASSUME NEW c \in Caller, Owner(c) \/ Create(c) \/ RefreshUser(c) PROVE UNCHANGED Seen
  <2>1. pc[c] \in {"owner", "create", "refresh"} /\ op' = op
    BY <1>6 DEF Owner, Create, RefreshUser
  <2>2. ~Waiting(c) /\ Others(c)
    BY <1>6, <2>1, OnlyOne DEF OpInv, Progress, Waiting, Run
  <2> QED BY <1>2, <2>1, <2>2
<1>7. ASSUME NEW c \in Caller, Lookup(c) PROVE UNCHANGED Seen
  <2>1. pc[c] = "lookup" /\ UNCHANGED <<pc, op, told, answer>> /\ Others(c)
    BY <1>7, OnlyOne DEF Lookup, Run
  <2> QED BY <2>1, SeenNothing DEF Asked, Size, ToldOf, AnswerOf, Waiting
\* The operation has found out whom it is about.
<1>8. ASSUME NEW c \in Caller, LookedUp(c) PROVE B!Next \/ UNCHANGED Seen
  <2>1. pc[c] = "lookup" /\ UNCHANGED <<op, ids, told>> /\ Others(c)
    BY <1>8, OnlyOne DEF LookedUp, Run
  <2>2. ASSUME Waiting(c) PROVE B!Next
    <3>1. answer' = answer /\ answer[c] = "none" /\ told[c] = Untold
      BY <1>8, <2>1, <2>2, NothingSent DEF LookedUp, Waiting, OpInv, Progress
    <3>2. Asked(c)' \subseteq User
      BY <2>1 DEF Asked, Range, OpInv, CallerType
    <3>3. ToldOf(c) = Untold /\ ToldOf(c)' = Untold /\ AnswerOf(c)' = "none" /\ Size(c)' \in Nat
      BY <2>1, <2>2, <3>1, DingTalkAssumption DEF ToldOf, AnswerOf, Size, Waiting
    <3> QED BY <2>1, <3>2, <3>3, SeenAsk
  <2> QED BY <1>2, <2>1, <2>2
<1>9. ASSUME NEW c \in Caller, Send(c) PROVE B!Next
  <2> DEFINE S == Batch(ids[c], Size(c), batch[c])
  <2>1. /\ pc[c] = "send" /\ UNCHANGED <<op, mobiles, pos, ids>> /\ Others(c)
        /\ Waiting(c) /\ answer[c] = "none"
    BY <1>9, OnlyOne DEF Send, Run, OpInv, Progress
  <2>2. /\ S \subseteq Range(ids[c]) /\ S \subseteq User /\ \A u \in S : told[c][u] = 0
    BY <2>1, NextBatch
  <2>3. Cardinality(S) <= Size(c)
    BY Sizes, BatchSize DEF OpInv, CallerType
  \* A batch that was accepted, whether or not its answer arrived.
  <2>4. ASSUME Reach(c, S), answer'[c] \in {"none", "threw"}, pc'[c] # "lookup" PROVE B!Next
    <3>1. told'[c] = [u \in User |-> IF u \in S THEN 1 ELSE told[c][u]]
      BY <2>1, <2>4, ReachOnce
    <3> HIDE DEF S
    <3>2. UNCHANGED <<Asked(c), Size(c)>> /\ Asked(c) = Range(ids[c])
      BY <2>1, <2>4 DEF Asked, Size, Waiting
    <3>3. /\ ToldOf(c) = told[c] /\ ToldOf(c)' = told'[c]
          /\ AnswerOf(c) = "none" /\ AnswerOf(c)' = answer'[c]
      BY <2>1 DEF ToldOf, AnswerOf, Waiting
    <3> QED BY <2>1, <2>2, <2>3, <2>4, <3>1, <3>2, <3>3, SeenTell
  <2>5. ASSUME Reach(c, S), UNCHANGED <<pc, answer>> PROVE B!Next
    BY <2>1, <2>4, <2>5
  <2>6. ASSUME Reach(c, S), Answers(c, "threw") PROVE B!Next
    <3>1. answer'[c] = "threw" /\ pc'[c] = "idle"
      BY <2>6 DEF Answers, OpInv, CallerType
    <3> QED BY <2>4, <2>6, <3>1
  <2>7. ASSUME told' = told, Answers(c, Refusal(c)) \/ Answers(c, "threw") PROVE B!Next
    BY <1>0, <2>1, <2>7 DEF Refusal
  <2> QED BY <1>9, <2>5, <2>6, <2>7 DEF Send
<1>10. ASSUME NEW c \in Caller, Sent(c) PROVE B!Next
  <2>1. /\ pc[c] = "send" /\ batch[c] >= Count(ids[c], Size(c)) /\ Answers(c, "true")
        /\ UNCHANGED <<op, ids, told, batch>> /\ Others(c) /\ Waiting(c) /\ answer[c] = "none"
    BY <1>10, OnlyOne DEF Sent, Run, OpInv, Progress
  <2>2. pc'[c] = "idle" /\ answer'[c] = "true"
    BY <2>1 DEF Answers, OpInv, CallerType
  <2>3. \A u \in Range(ids[c]) : told[c][u] = 1
    BY <2>1, AllTold DEF OpInv, Reached, CallerType
  <2>4. /\ UNCHANGED <<Asked(c), Size(c), ToldOf(c)>> /\ Asked(c) = Range(ids[c]) /\ ToldOf(c) = told[c]
        /\ AnswerOf(c) = "none" /\ AnswerOf(c)' = "true"
    BY <2>1, <2>2 DEF Asked, Size, ToldOf, AnswerOf, Waiting
  <2> QED BY <2>1, <2>3, <2>4, SeenAnswered
<1>11. CASE (\E c \in Caller : Add(c)) \/ (\E d \in Depts : AddUser(d)) \/ Tick
  BY <1>1, <1>11 DEF Add, AddUser, Tick
<1>12. CASE UNCHANGED vars
  BY <1>1, <1>12 DEF vars
<1> QED
  BY <1>3, <1>4, <1>5, <1>6, <1>7, <1>8, <1>9, <1>10, <1>11, <1>12 DEF Next, Run

\* sendNotice and addCharUser keep the promise of Broadcast, for any lists, sizes of
\* batches, callers and failures: nobody is told twice, no batch is over the limit,
\* and "true" is said only when everybody found has been told.
THEOREM Implements == Spec => Broadcasts
<1>1. Init => B!Init
  BY DingTalkAssumption DEF Init, B!Init, Asked, Waiting, Size, Range, Untold, B!Untold
<1>2. OpInv /\ [Next]_vars => [B!Next]_B!vars
  BY SeenStep DEF B!vars, Seen, SeenAsked, SeenLimit, SeenTold, SeenAnswer, ToldOf, AnswerOf
<1> QED BY <1>1, <1>2, OpInit, OpStep, PTL DEF Spec, Broadcasts, B!Spec
=============================================================================

------------------------------ MODULE DingTalk ------------------------------
(***************************************************************************)
(* dingtalk: notices and chats for people known by their mobile numbers     *)
(* (DingTalkServiceImpl, AccessTokenService, DingTalkUserService).          *)
(*                                                                         *)
(* An operation of a caller gets the access token, from a cache that drops  *)
(* it before the server does, looks up the user of every number, through a  *)
(* cache of its own, and then calls the server once per batch.  createChat  *)
(* waits for the first batch only.  The callers share both caches with the  *)
(* pages of users that are read after the start.  A call to the server is   *)
(* accepted, refused, or its answer is lost; an empty batch may be refused. *)
(* sendChatMsg changes no state of the client and is left out.              *)
(***************************************************************************)
EXTENDS Naturals, Sequences, FiniteSets, Functions, FiniteSetsExt

CONSTANTS Caller,       \* threads that use the service
          User, Nobody, \* user ids; the answer for a number nobody has
          UserOf,       \* the server's directory: number -> User or Nobody
          Lists,        \* the lists of numbers callers pass
          Owners,       \* the numbers of those who may be made owner of a chat
          Depts,        \* departments: each a sequence of pages, a page a set of numbers
          NoticeSize,   \* 100 people in a notice
          ChatSize,     \* 40 people in a change of a chat
          ChatMax,      \* 1000 people in a chat
          UserCache,    \* 5000 numbers in the user cache at most
          TokenLife,    \* the server honours a token for 7200 s
          CacheLife,    \* the cache keeps it for 7100 s
          MaxCall,      \* how long fetching a token, or an operation that has one, takes
          MaxAsks,      \* how many operations are started
          MaxFaults     \* how many calls fail

Mobile == DOMAIN UserOf

ASSUME DingTalkAssumption ==
  /\ IsFiniteSet(Mobile) /\ Nobody \notin User
  /\ UserOf \in [Mobile -> User \cup {Nobody}]
  /\ Lists \subseteq Seq(Mobile) /\ <<>> \notin Lists /\ Owners \subseteq Mobile
  /\ Depts \subseteq Seq(SUBSET Mobile)
  /\ \A d \in Depts : \A S \in Range(d) : Cardinality(S) <= UserCache
  /\ {NoticeSize, ChatSize, ChatMax, UserCache, CacheLife} \subseteq Nat \ {0}
  /\ {TokenLife, MaxCall, MaxAsks, MaxFaults} \subseteq Nat

\* Operations are quick against the difference between the two lifetimes.
Prompt == CacheLife + MaxCall + MaxCall <= TokenLife

VARIABLES pc,       \* where an operation is
          op,       \* which operation a caller is in, or was last
          mobiles,  \* its mobileList
          pos,      \* how many numbers have been looked up
          ids,      \* userIds
          batch,    \* i, the number of batches sent
          told,     \* how often each user was reached by the operation
          answer,   \* what the operation answered
          left,     \* how long the operation may still take
          wanted,   \* per caller: userIds of the chat it created
          members,  \* that chat on the server
          adds,     \* its batches that are still on their way
          due,      \* how long they may still take
          cached,   \* how long TOKEN_CACHE keeps the token; 0 when it has none
          valid,    \* how long the server honours it
          users,    \* numbers in USER_CACHE
          page,     \* per department: the next page to read; 0 before the first
          pageDue,  \* how long the pages may still take
          asks, faults

caller == <<pc, op, mobiles, pos, ids, batch, told, answer>>
chat == <<wanted, members, adds, due>>
token == <<cached, valid>>
pages == <<page, pageDue>>
vars == <<caller, left, chat, token, users, pages, asks, faults>>

Op == {"notice", "chat", "add", "refresh"}
Untold == [u \in User |-> 0]

Init ==
  /\ pc = [c \in Caller |-> "idle"] /\ op = [c \in Caller |-> "notice"]
  /\ mobiles = [c \in Caller |-> <<>>] /\ pos = [c \in Caller |-> 0]
  /\ ids = [c \in Caller |-> <<>>] /\ batch = [c \in Caller |-> 0]
  /\ told = [c \in Caller |-> Untold] /\ answer = [c \in Caller |-> "none"]
  /\ left = [c \in Caller |-> 0]
  /\ wanted = [c \in Caller |-> <<>>] /\ members = [c \in Caller |-> {}]
  /\ adds = [c \in Caller |-> {}] /\ due = [c \in Caller |-> 0]
  /\ cached = 0 /\ valid = 0
  /\ users = {}
  /\ page = [d \in Depts |-> 0] /\ pageDue = 0
  /\ asks = 0 /\ faults = 0

-----------------------------------------------------------------------------
(* Batches: count = size / N + 1, of which the last is empty when N divides *)
(* the size.                                                                *)

Size(c) == IF op[c] = "notice" THEN NoticeSize ELSE ChatSize

\* Mutants: no last batch; one too many; batches that overlap.
CountFloor(s, n) == Len(s) \div n
CountMore(s, n) == Len(s) \div n + 2
BatchOverlap(s, n, i) == Range(SubSeq(s, Max({1, n * i}), Min({Len(s), n * (i + 1)})))

Count(s, n) == Len(s) \div n + 1
Batch(s, n, i) == Range(SubSeq(s, n * i + 1, Min({Len(s), n * (i + 1)})))

Fault == faults < MaxFaults /\ faults' = faults + 1

\* The operation ends; its other variables keep their last value.
Answers(c, what) ==
  /\ pc' = [pc EXCEPT ![c] = "idle"]
  /\ answer' = [answer EXCEPT ![c] = what]
  /\ left' = [left EXCEPT ![c] = 0]

\* What an operation that cannot go on does: sendNotice and refreshUser return, the
\* others throw.
Refusal(c) == IF op[c] \in {"notice", "refresh"} THEN "false" ELSE "threw"

\* Where an operation goes on once it has the token.
Ready(c) == CASE op[c] = "chat" -> "owner" [] op[c] = "refresh" -> "refresh" [] OTHER -> "lookup"

-----------------------------------------------------------------------------
\* A caller starts an operation with a new list or its last one, which createChat
\* has made longer.  The application refreshes once, when it starts: not before
\* another refresh has ended, nor after one that has read pages.
Begin(c) ==
  /\ pc[c] = "idle" /\ asks < MaxAsks
  /\ asks' = asks + 1
  /\ \E o \in Op, l \in Lists \cup {mobiles[c]} :
       /\ l # <<>>
       /\ o = "chat" => wanted[c] = <<>>
       /\ o = "add" => wanted[c] # <<>>
       /\ o = "refresh" => /\ \A d \in Depts : page[d] = 0
                           /\ \A e \in Caller : op[e] # "refresh" \/ pc[e] = "idle"
       /\ op' = [op EXCEPT ![c] = o]
       /\ mobiles' = [mobiles EXCEPT ![c] = l]
  /\ pc' = [pc EXCEPT ![c] = "token"]
  /\ pos' = [pos EXCEPT ![c] = 0] /\ ids' = [ids EXCEPT ![c] = <<>>]
  /\ batch' = [batch EXCEPT ![c] = 0]
  /\ told' = [told EXCEPT ![c] = Untold] /\ answer' = [answer EXCEPT ![c] = "none"]
  /\ UNCHANGED <<left, chat, token, users, pages, faults>>

\* getAccessToken: the cached token,
Token(c) ==
  /\ pc[c] = "token" /\ cached > 0
  /\ pc' = [pc EXCEPT ![c] = Ready(c)]
  /\ left' = [left EXCEPT ![c] = MaxCall]
  /\ UNCHANGED <<op, mobiles, pos, ids, batch, told, answer, chat, token, users, pages, asks, faults>>

\* or one from the server, which one thread fetches and stores while the others
\* wait for it,
Fetch(c) ==
  /\ pc[c] = "token" /\ cached = 0
  /\ \A d \in Caller : pc[d] # "store"
  /\ pc' = [pc EXCEPT ![c] = "store"]
  /\ valid' = TokenLife
  /\ left' = [left EXCEPT ![c] = MaxCall]
  /\ UNCHANGED <<op, mobiles, pos, ids, batch, told, answer, chat, cached, users, pages, asks, faults>>

\* Mutant: the cache keeps the token as long as the server does.
StoreLong(c) ==
  /\ pc[c] = "store"
  /\ cached' = TokenLife
  /\ pc' = [pc EXCEPT ![c] = Ready(c)]
  /\ left' = [left EXCEPT ![c] = MaxCall]
  /\ UNCHANGED <<op, mobiles, pos, ids, batch, told, answer, chat, valid, users, pages, asks, faults>>

Store(c) ==
  /\ pc[c] = "store"
  /\ cached' = CacheLife
  /\ pc' = [pc EXCEPT ![c] = Ready(c)]
  /\ left' = [left EXCEPT ![c] = MaxCall]
  /\ UNCHANGED <<op, mobiles, pos, ids, batch, told, answer, chat, valid, users, pages, asks, faults>>

\* or null.  A thread that waited for a fetch that failed gets null too, in a step
\* of its own that counts as one more failure.
NoToken(c) ==
  /\ pc[c] \in {"token", "store"}
  /\ pc[c] = "token" => cached = 0 /\ \A d \in Caller : pc[d] # "store"
  /\ Fault
  /\ Answers(c, Refusal(c))
  /\ UNCHANGED <<op, mobiles, pos, ids, batch, told, chat, token, users, pages, asks>>

-----------------------------------------------------------------------------
(* getUserId                                                                *)

\* USER_CACHE.put: the cache never holds more than its maximum and keeps what has just
\* been put, but may drop any others, also before the maximum is reached.
Put(S) ==
  users' \in {kept \in SUBSET (users \cup S) : S \subseteq kept /\ Cardinality(kept) <= UserCache}

\* The answer is null for a number nobody has and for a call that fails, and null
\* is not cached.
GetUserId(m, id) ==
  \/ id = UserOf[m] /\ (m \in users \/ id = Nobody) /\ UNCHANGED <<users, faults>>
  \/ id = UserOf[m] /\ m \notin users /\ id # Nobody /\ Put({m}) /\ UNCHANGED faults
  \/ id = Nobody /\ m \notin users /\ Fault /\ UNCHANGED users

\* createChat appends the owner's number, a given one or that of the first member.
Owner(c) ==
  /\ pc[c] = "owner"
  /\ \E m \in Owners \cup {mobiles[c][1]}, id \in User \cup {Nobody} :
       /\ GetUserId(m, id)
       /\ mobiles' = [mobiles EXCEPT ![c] = Append(@, m)]
  /\ pc' = [pc EXCEPT ![c] = "lookup"]
  /\ UNCHANGED <<op, pos, ids, batch, told, answer, left, chat, token, pages, asks>>

\* Mutant: a user with two numbers is in the list twice.
CollectAll(s, id) == IF id = Nobody THEN s ELSE Append(s, id)

\* filter(isNotBlank).distinct()
Collect(s, id) == IF id = Nobody \/ id \in Range(s) THEN s ELSE Append(s, id)

Lookup(c) ==
  /\ pc[c] = "lookup" /\ pos[c] < Len(mobiles[c])
  /\ pos' = [pos EXCEPT ![c] = @ + 1]
  /\ \E id \in User \cup {Nobody} :
       /\ GetUserId(mobiles[c][pos[c] + 1], id)
       /\ ids' = [ids EXCEPT ![c] = Collect(@, id)]
  /\ UNCHANGED <<pc, op, mobiles, batch, told, answer, left, chat, token, pages, asks>>

LookedUp(c) ==
  /\ pc[c] = "lookup" /\ pos[c] = Len(mobiles[c])
  /\ IF op[c] = "chat" /\ Len(ids[c]) \notin 1 .. ChatMax
     THEN Answers(c, "threw")
     ELSE /\ pc' = [pc EXCEPT ![c] = IF op[c] = "chat" THEN "create" ELSE "send"]
          /\ UNCHANGED <<answer, left>>
  /\ UNCHANGED <<op, mobiles, pos, ids, batch, told, chat, token, users, pages, asks, faults>>

-----------------------------------------------------------------------------
(* The calls to the server.                                                 *)

Reach(c, S) ==
  /\ told' = [told EXCEPT ![c] = [u \in User |-> IF u \in S THEN @[u] + 1 ELSE @[u]]]
  /\ members' = IF op[c] = "add" THEN [members EXCEPT ![c] = @ \cup S] ELSE members

\* sendNotice, addCharUser: the next batch is accepted; refused; or the call
\* throws, after the server has accepted it or not.
Send(c) ==
  /\ pc[c] = "send" /\ batch[c] < Count(ids[c], Size(c))
  /\ LET people == Batch(ids[c], Size(c), batch[c])
     IN \/ /\ Reach(c, people)
           /\ batch' = [batch EXCEPT ![c] = @ + 1]
           /\ UNCHANGED <<pc, answer, left, faults>>
        \/ /\ IF people = {} THEN UNCHANGED faults ELSE Fault
           /\ Answers(c, Refusal(c))
           /\ UNCHANGED <<batch, told, members>>
        \/ /\ Fault
           /\ Answers(c, "threw")
           /\ Reach(c, people) \/ UNCHANGED <<told, members>>
           /\ UNCHANGED batch
  /\ UNCHANGED <<op, mobiles, pos, ids, wanted, adds, due, token, users, pages, asks>>

Sent(c) ==
  /\ pc[c] = "send" /\ batch[c] >= Count(ids[c], Size(c))
  /\ Answers(c, "true")
  /\ UNCHANGED <<op, mobiles, pos, ids, batch, told, chat, token, users, pages, asks, faults>>

\* Mutant: the second batch is left out.
LaterFromTwo(s) == {i \in 2 .. 9 : i < Count(s, ChatSize)}

Later(s) == 1 .. Count(s, ChatSize) - 1

\* createChat: the first batch makes the chat, the others are handed to the client
\* library, and the chat's id is returned.  Nobody knows the chat of a lost answer.
Create(c) ==
  /\ pc[c] = "create"
  /\ \/ /\ Answers(c, "true")
        /\ wanted' = [wanted EXCEPT ![c] = ids[c]]
        /\ members' = [members EXCEPT ![c] = Batch(ids[c], ChatSize, 0)]
        /\ adds' = [adds EXCEPT ![c] = Later(ids[c])]
        /\ due' = [due EXCEPT ![c] = left[c]]
        /\ UNCHANGED faults
     \/ Fault /\ Answers(c, "threw") /\ UNCHANGED chat
  /\ UNCHANGED <<op, mobiles, pos, ids, batch, told, token, users, pages, asks>>

\* A later batch arrives, in any order; a failure is logged.
Add(c) ==
  /\ \E i \in adds[c] :
       /\ adds' = [adds EXCEPT ![c] = @ \ {i}]
       /\ \/ members' = [members EXCEPT ![c] = @ \cup Batch(wanted[c], ChatSize, i)]
             /\ UNCHANGED faults
          \/ Fault /\ UNCHANGED members
  /\ UNCHANGED <<caller, left, wanted, due, token, users, pages, asks>>

-----------------------------------------------------------------------------
(* refreshUser: the departments, then the pages of each, without waiting    *)
(* but with the token it got.                                               *)

RefreshUser(c) ==
  /\ pc[c] = "refresh"
  /\ Answers(c, "true")
  /\ \/ page' = [d \in Depts |-> 1] /\ pageDue' = left[c] /\ UNCHANGED faults
     \/ Fault /\ UNCHANGED pages
  /\ UNCHANGED <<op, mobiles, pos, ids, batch, told, chat, token, users, asks>>

\* Mutant: the first page is taken for all.
OnePage(d) == Len(d) + 1

\* addUser(token, department, next_cursor), if hasMore.
NextPage(d) == page[d] + 1

\* A page is put into the cache; after one that fails nothing more is read.
AddUser(d) ==
  /\ page[d] \in 1 .. Len(d)
  /\ \/ Put(d[page[d]]) /\ page' = [page EXCEPT ![d] = NextPage(d)] /\ UNCHANGED faults
     \/ Fault /\ page' = [page EXCEPT ![d] = Len(d) + 1] /\ UNCHANGED users
  /\ UNCHANGED <<caller, left, chat, token, pageDue, asks>>

-----------------------------------------------------------------------------
Busy(c) == pc[c] \notin {"idle", "token"}

Reading == \E d \in Depts : page[d] \in 1 .. Len(d)

Less(n) == IF n = 0 THEN 0 ELSE n - 1

\* Time passes: no operation takes longer than MaxCall, with the batches or pages it
\* leaves behind.
Tick ==
  /\ \A c \in Caller : (Busy(c) => left[c] > 0) /\ (adds[c] # {} => due[c] > 0)
  /\ Reading => pageDue > 0
  /\ left' = [c \in Caller |-> Less(left[c])]
  /\ due' = [c \in Caller |-> Less(due[c])]
  /\ pageDue' = Less(pageDue)
  /\ cached' = Less(cached) /\ valid' = Less(valid)
  /\ UNCHANGED <<caller, wanted, members, adds, users, page, asks, faults>>

Run(c) == \/ Token(c) \/ Fetch(c) \/ Store(c)
          \/ Owner(c) \/ Lookup(c) \/ LookedUp(c)
          \/ Send(c) \/ Sent(c) \/ Create(c) \/ RefreshUser(c)

Next == \/ \E c \in Caller : Begin(c) \/ NoToken(c) \/ Run(c) \/ Add(c)
        \/ \E d \in Depts : AddUser(d)
        \/ Tick

Spec == Init /\ [][Next]_vars

\* Every started operation and everything handed to the client library goes on.
FairSpec == /\ Spec
            /\ \A c \in Caller : WF_vars(Run(c)) /\ WF_vars(Add(c))
            /\ \A d \in Depts : WF_vars(AddUser(d))

-----------------------------------------------------------------------------
TypeOK ==
  /\ pc \in [Caller -> {"idle", "token", "store", "owner", "lookup", "send", "create", "refresh"}]
  /\ op \in [Caller -> Op]
  /\ mobiles \in [Caller -> Seq(Mobile)]
  /\ pos \in [Caller -> Nat] /\ \A c \in Caller : pos[c] <= Len(mobiles[c])
  /\ ids \in [Caller -> Seq(User)]
  /\ batch \in [Caller -> Nat] /\ told \in [Caller -> [User -> 0 .. 1]]
  /\ answer \in [Caller -> {"none", "true", "false", "threw"}]
  /\ left \in [Caller -> 0 .. MaxCall] /\ due \in [Caller -> 0 .. MaxCall]
  /\ wanted \in [Caller -> Seq(User)] /\ members \in [Caller -> SUBSET User]
  /\ adds \in [Caller -> SUBSET Nat]
  /\ cached \in 0 .. CacheLife /\ valid \in 0 .. TokenLife
  /\ users \subseteq Mobile /\ Cardinality(users) <= UserCache
  /\ page \in [Depts -> Nat] /\ \A d \in Depts : page[d] <= Len(d) + 1
  /\ pageDue \in 0 .. MaxCall
  /\ asks \in 0 .. MaxAsks /\ faults \in 0 .. MaxFaults

\* sendNotice and addCharUser keep the promise of Broadcast: nobody is told twice,
\* no batch is over the limit, and "true" means everybody.
Waiting(c) == op[c] \in {"notice", "add"}
Asked(c) == IF Waiting(c) /\ pc[c] # "lookup" THEN Range(ids[c]) ELSE {}

B == INSTANCE Broadcast WITH
       People <- User,
       asked  <- [c \in Caller |-> Asked(c)],
       limit  <- [c \in Caller |-> Size(c)],
       told   <- [c \in Caller |-> IF Waiting(c) THEN told[c] ELSE Untold],
       answer <- [c \in Caller |-> IF Waiting(c) THEN answer[c] ELSE "none"]

Broadcasts == B!Spec

\* "true" is about the numbers, not only about the users found for them: if no
\* call failed, everybody whose number was given has been reached, whatever the
\* caches held, dropped or shared.
EverybodyReached ==
  \A c \in Caller : faults = 0 /\ Waiting(c) /\ answer[c] = "true" =>
    \A m \in Range(mobiles[c]) : UserOf[m] # Nobody => told[c][UserOf[m]] = 1

\* A notice answered with false although everybody got it has had its empty last
\* batch refused: the number of people is a multiple of the batch's size.
OnlyEmptyBatchRefused ==
  \A c \in Caller :
    /\ op[c] = "notice" /\ answer[c] = "false"
    /\ ids[c] # <<>> /\ \A u \in Range(ids[c]) : told[c][u] = 1
    => Len(ids[c]) % NoticeSize = 0

\* No call goes to the server with a token it no longer honours, neither of an
\* operation nor of the batches and pages it leaves behind: the cache gives a token
\* away only while it is good for all of them.
TokenGood ==
  /\ \A c \in Caller : Busy(c) => valid > 0
  /\ \A c \in Caller : adds[c] # {} => valid > 0
  /\ Reading => valid > 0

\* The chat fills: if no call fails, all users found for createChat, also those
\* of batches sent after it returned, become members.
ChatFills ==
  \A c \in Caller : []([](faults = 0) => <>(Range(wanted[c]) \subseteq members[c]))

\* If no call fails, refreshUser reads every page of a department, and each of its
\* numbers gets into the cache, though the cache may drop it again.
WarmsUp ==
  \A d \in Depts : \A m \in UNION Range(d) :
    page[d] = 1 ~> faults > 0 \/ m \in users
=============================================================================

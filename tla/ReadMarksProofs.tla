---------------------------- MODULE ReadMarksProofs ----------------------------
(***************************************************************************)
(* For any number of messages, callers and results on their way: marking a  *)
(* join as read hides no regular message that the handler did not know to   *)
(* be read or deleted, and no overtaken answer comes back to the cache.     *)
(*                                                                         *)
(* The inductive invariant says what a count of 1 means while its handler   *)
(* goes on: every message before the join is read or deleted, unless the    *)
(* join itself was deleted when TDLib counted.  Later steps only read,      *)
(* delete, and add messages after the join.                                 *)
(***************************************************************************)
EXTENDS ReadMarks, TLAPS, FiniteSetTheorems

Types ==
    /\ kind \in [Messages -> {"none", "join", "regular"}]
    /\ lastRead \in Messages \union {0}
    /\ pc \in [Messages -> {"none", "get", "got", "view", "getAgain", "gotAgain", "done", "failed"}]
    /\ seen \in [Messages -> Int]

\* Messages arrive in their order, and only joins have a handler.
Ordered ==
    /\ \A k, m \in Messages : k < m /\ kind[k] = "none" => kind[m] = "none"
    /\ \A m \in Messages : pc[m] # "none" => kind[m] = "join"

\* Nothing before the message is unread.
Alone(m) == \A k \in Messages : k < m /\ kind[k] # "none" => k <= lastRead \/ k \in deleted

\* A handler that counted 1, or acts on it, is alone, or its message was deleted.
OneIsAlone ==
    \A m \in Messages :
        (pc[m] = "view" \/ (pc[m] = "got" /\ seen[m] = 1)) => Alone(m) \/ m \in gone

IInv == Types /\ Ordered /\ OneIsAlone

-----------------------------------------------------------------------------
\* The count is a number, as the messages are finitely many.
LEMMA UnreadCount == Cardinality(Unread) \in Nat /\ IsFiniteSet(Unread)
<1>1. IsFiniteSet(Messages)
    BY MessagesAssumption, FS_Interval, SMT DEF Messages
<1>2. IsFiniteSet(Unread)
    BY <1>1, FS_Subset DEF Unread, Arrived
<1> QED BY <1>2, FS_CardinalityType

\* When one message is unread and a message that is not deleted or read is there, it is that one.
LEMMA OnlyUnread ==
    ASSUME NEW m \in Messages, NEW k \in Messages, Cardinality(Unread) = 1, m \in Unread, k \in Unread
    PROVE  k = m
<1>1. PICK x : Unread = {x}
    BY UnreadCount, FS_Singleton
<1> QED BY <1>1

\* A count of 1 of a handler's own unread message leaves nothing unread before it.
LEMMA CountOfOne ==
    ASSUME Types, Ordered, NEW m \in Messages, kind[m] # "none", m \notin deleted,
           Cardinality(Unread) = 1
    PROVE  Alone(m)
<1> SUFFICES ASSUME NEW k \in Messages, k < m, kind[k] # "none", k > lastRead, k \notin deleted
             PROVE  FALSE
    BY MessagesAssumption, SMT DEF Alone, Messages, Types
<1>1. k \in Unread
    BY DEF Unread, Arrived
<1>2. m > lastRead
    BY MessagesAssumption, SMT DEF Messages, Types
<1>3. m \in Unread
    BY <1>2 DEF Unread, Arrived
<1>4. k = m
    BY <1>1, <1>3, OnlyUnread
<1> QED BY <1>4, SMT DEF Messages

LEMMA Initially == Init => IInv
BY MessagesAssumption, SMT DEF Init, IInv, Types, Ordered, OneIsAlone, Messages, None

\* What an answer of TDLib leaves in the handler.
LEMMA Answered ==
    ASSUME Types, NEW m \in Messages, GetFirst(m) \/ GetAgain(m)
    PROVE  seen' = [seen EXCEPT ![m] = Cardinality(Unread)] /\ seen' \in [Messages -> Int]
<1>1. Cardinality(Unread) \in Int
    BY UnreadCount, SMT
<1> QED BY <1>1 DEF GetFirst, GetAgain, Answer, Types

\* Other callers of GetChat, and results on their way, are neither messages nor handlers.
Others ==
    \/ \E count \in Counts : Echo(count)
    \/ \E c \in Callers : (\E force \in BOOLEAN : GetChat(c, force)) \/ GetChatAnswers(c) \/ GetChatCaches(c)
    \/ CustomRoutineAsks

LEMMA OthersStep == Others => UNCHANGED <<kind, deleted, lastRead, pc, seen, gone>>
BY DEF Others, Echo, GetChat, GetChatAnswers, GetChatCaches, CustomRoutineAsks, tdlib, callers

LEMMA TypesStep ==
    ASSUME Types, [Next]_vars
    PROVE  Types'
<1> USE DEF Types
<1>1. CASE UNCHANGED vars
    BY <1>1 DEF vars, tdlib
<1>2. ASSUME NEW m \in Messages, NewMessage(m) PROVE Types'
    BY <1>2 DEF NewMessage
<1>3. ASSUME NEW m \in Messages, Read(m) PROVE Types'
    BY <1>3 DEF Read, Unread, Arrived
<1>4. ASSUME NEW m \in Messages, Delete(m) PROVE Types'
    BY <1>4 DEF Delete
<1>5. ASSUME NEW m \in Messages, GetFirst(m) PROVE Types'
    BY <1>5, Answered DEF GetFirst, tdlib
<1>6. ASSUME NEW m \in Messages, Look(m) PROVE Types'
    <2>1. seen' = [seen EXCEPT ![m] = 0] /\ UNCHANGED tdlib /\ pc' \in [Messages -> {"none", "get", "got", "view", "getAgain", "gotAgain", "done", "failed"}]
        BY <1>6 DEF Look
    <2> QED BY <2>1 DEF tdlib
<1>7. ASSUME NEW m \in Messages, MarkAsRead(m) PROVE Types'
    BY <1>7, SMT DEF MarkAsRead
<1>8. ASSUME NEW m \in Messages, GetAgain(m) PROVE Types'
    BY <1>8, Answered DEF GetAgain, tdlib
<1>9. ASSUME NEW m \in Messages, CacheAgain(m) PROVE Types'
    BY <1>9, SMT DEF CacheAgain, tdlib
<1>10. ASSUME NEW m \in Messages, Fail(m) PROVE Types'
    BY <1>10 DEF Fail, tdlib
<1>11. ASSUME Others PROVE Types'
    BY <1>11, OthersStep
<1> QED BY <1>1, <1>2, <1>3, <1>4, <1>5, <1>6, <1>7, <1>8, <1>9, <1>10, <1>11 DEF Next, Handle, Others

LEMMA OrderedStep ==
    ASSUME Types, Ordered, [Next]_vars
    PROVE  Ordered'
<1>1. ASSUME NEW m \in Messages, NewMessage(m) PROVE Ordered'
    <2>1. kind[m] = "none" /\ \A k \in Messages : k < m => kind[k] # "none"
        BY <1>1 DEF NewMessage
    <2>2. \A k \in Messages : k > m => kind[k] = "none"
        BY <2>1 DEF Ordered
    <2>3. PICK new \in {"join", "regular"} :
              kind' = [kind EXCEPT ![m] = new]
              /\ pc' = [pc EXCEPT ![m] = IF new = "join" THEN "get" ELSE "none"]
        BY <1>1 DEF NewMessage
    <2>4. ASSUME NEW j \in Messages, NEW k \in Messages, j < k, kind'[j] = "none" PROVE kind'[k] = "none"
        <3>1. j # m /\ kind[j] = "none"
            BY <2>3, <2>4 DEF Types
        <3>2. k # m
            BY <3>1, <2>1, <2>4
        <3> QED BY <3>1, <3>2, <2>3, <2>4 DEF Types, Ordered
    <2>5. ASSUME NEW k \in Messages, pc'[k] # "none" PROVE kind'[k] = "join"
        BY <2>3, <2>5 DEF Types, Ordered
    <2> QED BY <2>4, <2>5 DEF Ordered, Messages
<1>2. ASSUME NEW m \in Messages, pc[m] # "none", kind' = kind,
             \A k \in Messages : k # m => pc'[k] = pc[k]
      PROVE  Ordered'
    BY <1>2 DEF Ordered, Messages
<1>3. ASSUME NEW m \in Messages, Handle(m) \/ Fail(m) PROVE Ordered'
    BY <1>3, <1>2, Zenon DEF Handle, GetFirst, Look, MarkAsRead, GetAgain, CacheAgain, Fail, tdlib, Types
<1>4. ASSUME kind' = kind, pc' = pc PROVE Ordered'
    BY <1>4 DEF Ordered, Messages
<1>5. ASSUME NEW m \in Messages, Read(m) \/ Delete(m) PROVE Ordered'
    BY <1>5, <1>4 DEF Read, Delete
<1>6. ASSUME Others PROVE Ordered'
    BY <1>6, <1>4, OthersStep
<1>7. CASE UNCHANGED vars
    BY <1>7, <1>4 DEF vars, tdlib
<1> QED BY <1>1, <1>3, <1>5, <1>6, <1>7 DEF Next, Others

\* What is alone stays so while messages are read, deleted or added after it.
LEMMA AloneStays ==
    ASSUME Types, NEW m \in Messages, Alone(m), kind[m] # "none", Ordered,
           kind' \in [Messages -> {"none", "join", "regular"}],
           lastRead' \in Nat, lastRead' >= lastRead, deleted \subseteq deleted',
           \A k \in Messages : k < m /\ kind'[k] # "none" => kind[k] # "none"
    PROVE  Alone(m)'
BY MessagesAssumption, SMT DEF Alone, Types, Messages

LEMMA OneIsAloneStep ==
    ASSUME IInv, [Next]_vars
    PROVE  OneIsAlone'
<1> USE DEF IInv
<1>0. Types'
    BY TypesStep
<1> DEFINE One(m) == pc[m] = "view" \/ (pc[m] = "got" /\ seen[m] = 1)
<1> SUFFICES ASSUME NEW m \in Messages, One(m)' PROVE Alone(m)' \/ m \in gone'
    BY DEF OneIsAlone, Messages
<1>1. ASSUME One(m), gone \subseteq gone', lastRead' >= lastRead, deleted \subseteq deleted',
             \A k \in Messages : k < m /\ kind'[k] # "none" => kind[k] # "none"
      PROVE  Alone(m)' \/ m \in gone'
    <2>1. kind[m] # "none"
        BY <1>1 DEF Ordered
    <2>2. lastRead' \in Nat
        BY <1>0, MessagesAssumption, SMT DEF Types, Messages
    <2>3. Alone(m) => Alone(m)'
        BY <1>0, <1>1, <2>1, <2>2, AloneStays DEF Types
    <2> QED BY <1>1, <2>3 DEF OneIsAlone
<1>2. ASSUME One(m), gone' = gone, UNCHANGED tdlib PROVE Alone(m)' \/ m \in gone'
    BY <1>1, <1>2, MessagesAssumption, SMT DEF tdlib, Types, Messages
<1>3. CASE UNCHANGED vars
    BY <1>2, <1>3 DEF vars
<1>4. ASSUME NEW n \in Messages, NewMessage(n) PROVE Alone(m)' \/ m \in gone'
    <2>1. PICK new \in {"join", "regular"} :
              kind' = [kind EXCEPT ![n] = new]
              /\ pc' = [pc EXCEPT ![n] = IF new = "join" THEN "get" ELSE "none"]
        BY <1>4 DEF NewMessage
    <2>2. m # n /\ One(m)
        BY <1>4, <2>1 DEF NewMessage, Types
    <2>3. m < n
        BY <2>2, <1>4, MessagesAssumption, SMT DEF NewMessage, Ordered, Messages
    <2>4. \A k \in Messages : k < m /\ kind'[k] # "none" => kind[k] # "none"
        BY <2>1, <2>3, MessagesAssumption, SMT DEF Types, Messages
    <2> QED BY <1>1, <1>4, <2>2, <2>4, MessagesAssumption, SMT DEF NewMessage, Types, Messages
<1>5. ASSUME NEW n \in Messages, Read(n) PROVE Alone(m)' \/ m \in gone'
    <2>1. One(m) /\ lastRead' >= lastRead
        BY <1>5, MessagesAssumption, SMT DEF Read, Unread, Types, Messages
    <2> QED BY <1>1, <1>5, <2>1 DEF Read
<1>6. ASSUME NEW n \in Messages, Delete(n) PROVE Alone(m)' \/ m \in gone'
    <2>1. One(m) /\ lastRead' >= lastRead
        BY <1>6, MessagesAssumption, SMT DEF Delete, Types, Messages
    <2> QED BY <1>1, <1>6, <2>1 DEF Delete
<1>7. ASSUME NEW n \in Messages, GetFirst(n) PROVE Alone(m)' \/ m \in gone'
    <2>1. UNCHANGED tdlib /\ gone \subseteq gone' /\ pc[n] = "get" /\ pc' = [pc EXCEPT ![n] = "got"]
        BY <1>7 DEF GetFirst
    <2>2. seen' = [seen EXCEPT ![n] = Cardinality(Unread)]
        BY <1>7, Answered
    <2>3. CASE m # n
        BY <2>1, <2>2, <2>3, <1>1, MessagesAssumption, SMT DEF tdlib, Types, Messages
    <2>4. CASE m = n
        <3>1. Cardinality(Unread) = 1
            BY <2>1, <2>2, <2>4 DEF Types
        <3>2. CASE m \in deleted
            BY <3>2, <2>4, <1>7 DEF GetFirst
        <3>3. CASE m \notin deleted
            <4>1. Alone(m)
                BY <3>1, <3>3, <2>1, <2>4, CountOfOne DEF Ordered
            <4> QED BY <4>1, <2>1 DEF Alone, tdlib, Messages
        <3> QED BY <3>2, <3>3
    <2> QED BY <2>3, <2>4
<1>8. ASSUME NEW n \in Messages, Look(n) PROVE Alone(m)' \/ m \in gone'
    BY <1>8, <1>2, SMT DEF Look, cacheChat, Types
<1>9. ASSUME NEW n \in Messages, MarkAsRead(n) PROVE Alone(m)' \/ m \in gone'
    <2>1. One(m)
        BY <1>9, SMT DEF MarkAsRead, Types
    <2>2. lastRead' >= lastRead
        BY <1>9, MessagesAssumption, SMT DEF MarkAsRead, Types, Messages
    <2> QED BY <1>1, <1>9, <2>1, <2>2 DEF MarkAsRead
<1>10. ASSUME NEW n \in Messages, GetAgain(n) PROVE Alone(m)' \/ m \in gone'
    <2>1. seen' = [seen EXCEPT ![n] = Cardinality(Unread)]
        BY <1>10, Answered
    <2> QED BY <1>10, <1>2, <2>1, SMT DEF GetAgain, Types
<1>11. ASSUME NEW n \in Messages, CacheAgain(n) PROVE Alone(m)' \/ m \in gone'
    BY <1>11, <1>2, SMT DEF CacheAgain, cacheChat, Types
<1>12. ASSUME NEW n \in Messages, Fail(n) PROVE Alone(m)' \/ m \in gone'
    BY <1>12, <1>2, SMT DEF Fail, Types
<1>13. ASSUME Others PROVE Alone(m)' \/ m \in gone'
    BY <1>13, <1>2, OthersStep DEF tdlib
<1> QED BY <1>3, <1>4, <1>5, <1>6, <1>7, <1>8, <1>9, <1>10, <1>11, <1>12, <1>13 DEF Next, Handle, Others

THEOREM Invariance == Spec => []IInv
<1>1. IInv /\ [Next]_vars => IInv'
    BY TypesStep, OrderedStep, OneIsAloneStep DEF IInv
<1> QED BY <1>1, Initially, PTL DEF Spec

-----------------------------------------------------------------------------
\* Only MarkAsRead leaves "view" for "getAgain".
LEMMA MarkingStep ==
    ASSUME IInv, [Next]_vars, NEW m \in Messages, pc[m] = "view", pc'[m] = "getAgain"
    PROVE  MarkAsRead(m)
<1> USE DEF IInv, Types
<1>1. ASSUME NEW n \in Messages, n # m, Handle(n) \/ Fail(n) PROVE FALSE
    <2>1. pc'[m] = pc[m]
        BY <1>1 DEF Handle, GetFirst, Look, MarkAsRead, GetAgain, CacheAgain, Fail
    <2> QED BY <2>1
<1>2. ASSUME NEW n \in Messages, NewMessage(n) PROVE FALSE
    BY <1>2 DEF NewMessage
<1>3. pc' # pc
    OBVIOUS
<1>4. ~ Fail(m)
    BY DEF Fail
<1>5. Handle(m) => MarkAsRead(m)
    BY DEF Handle, GetFirst, Look, GetAgain, CacheAgain
<1>6. ASSUME NEW n \in Messages, Read(n) \/ Delete(n) PROVE FALSE
    BY <1>3, <1>6 DEF Read, Delete
<1>7. ~ Others
    BY <1>3, OthersStep
<1>8. ~ UNCHANGED vars
    BY <1>3 DEF vars
<1> QED BY <1>1, <1>2, <1>4, <1>5, <1>6, <1>7, <1>8 DEF Next, Others

\* Marking a join as read hides a regular message only when the join was deleted before
\* its handler looked at the unread count.
THEOREM RegularsStayUnread == Spec => RegularStaysUnread
<1>1. ASSUME IInv, [Next]_vars, NEW m \in Messages, pc[m] = "view", pc'[m] = "getAgain",
             NEW k \in Unread, kind[k] = "regular", k <= lastRead'
      PROVE  m \in gone
    <2>1. MarkAsRead(m)
        BY <1>1, MarkingStep
    <2>2. k \in Messages /\ k > lastRead /\ k \notin deleted
        BY <1>1 DEF Unread, Arrived
    <2>3. k <= m
        BY <2>1, <2>2, <1>1, MessagesAssumption, SMT DEF MarkAsRead, IInv, Types, Messages
    <2>4. k < m => m \in gone
        BY <2>2, <1>1, MessagesAssumption, SMT DEF IInv, OneIsAlone, Alone, Types, Messages
    <2>5. k # m
        BY <1>1 DEF IInv, Ordered
    <2> QED BY <2>2, <2>3, <2>4, <2>5, MessagesAssumption, SMT DEF Messages
<1>2. IInv /\ [Next]_vars =>
        [\A m \in Messages : pc[m] = "view" /\ pc'[m] = "getAgain" =>
            \A k \in Unread : kind[k] = "regular" /\ k <= lastRead' => m \in gone]_vars
    BY <1>1
<1> QED BY <1>2, Invariance, PTL DEF Spec, RegularStaysUnread

-----------------------------------------------------------------------------
\* TypeOK has, beyond Types and Ordered, the bounds of what is counted.
Placed ==
    /\ deleted \subseteq Arrived /\ lastRead \in Arrived \union {0} /\ gone \subseteq Joins
    /\ \A m \in Messages : kind[m] = "join" => pc[m] # "none"

Bounds ==
    /\ Placed
    /\ seen \in [Messages -> Counts]
    /\ step \in [Callers -> {"idle", "asks", "got"}] /\ got \in [Callers -> Counts]
    /\ echoes \in [Counts -> Nat] /\ cache \in {None} \union Counts
    /\ recent \subseteq {None} \union Counts

\* What is still to be written was answered last or overtaken by the last answer, and so is
\* what the cache holds once nothing is.
Newest ==
    /\ Pending \subseteq recent
    /\ CacheHasCause

LEMMA UnreadBound == Cardinality(Unread) \in Counts
<1>1. IsFiniteSet(1..MaxMessages) /\ Cardinality(1..MaxMessages) = MaxMessages
    BY MessagesAssumption, FS_Interval, SMT
<1>2. Unread \subseteq 1..MaxMessages
    BY DEF Unread, Arrived, Messages
<1>3. Cardinality(Unread) <= MaxMessages
    BY <1>1, <1>2, FS_Subset
<1> QED BY <1>3, UnreadCount, MessagesAssumption, SMT DEF Counts

\* The steps by their effect on the cache: an answer adds to what is pending, a write takes
\* from it, and no other step touches it.
Answering ==
    \E count \in Counts :
        /\ Answer(count)
        /\ \/ \E m \in Messages : /\ pc[m] \notin {"got", "gotAgain"} /\ pc'[m] \in {"got", "gotAgain"}
                                  /\ \A k \in Messages \ {m} : pc'[k] = pc[k]
                                  /\ seen' = [seen EXCEPT ![m] = count] /\ UNCHANGED callers
           \/ \E c \in Callers : /\ step[c] # "got" /\ step' = [step EXCEPT ![c] = "got"]
                                 /\ got' = [got EXCEPT ![c] = count] /\ UNCHANGED <<pc, seen>>
           \/ UNCHANGED <<pc, seen, callers>>

Writing ==
    \E count \in Pending :
        /\ cache' = count /\ UNCHANGED recent
        /\ \/ \E m \in Messages : /\ pc'[m] \notin {"got", "gotAgain"}
                                  /\ \A k \in Messages \ {m} : pc'[k] = pc[k]
                                  /\ seen' = [seen EXCEPT ![m] = 0] /\ UNCHANGED <<echoes, callers>>
           \/ \E c \in Callers : /\ step' = [step EXCEPT ![c] = "idle"]
                                 /\ got' = [got EXCEPT ![c] = 0] /\ UNCHANGED <<echoes, pc, seen>>
           \/ echoes[count] > 0 /\ echoes' = [echoes EXCEPT ![count] = @ - 1]
                /\ UNCHANGED <<pc, seen, callers>>

Waiting ==
    /\ UNCHANGED <<seen, got, chats>>
    /\ \A m \in Messages : pc'[m] \in {"got", "gotAgain"} <=> pc[m] \in {"got", "gotAgain"}
    /\ \A c \in Callers : step'[c] = "got" <=> step[c] = "got"
    /\ step' \in [Callers -> {"idle", "asks", "got"}]

LEMMA CacheSteps ==
    ASSUME Types, Ordered, Bounds, [Next]_vars
    PROVE  Answering \/ Writing \/ Waiting
<1> USE DEF Types, Bounds
<1>1. CASE UNCHANGED vars
    BY <1>1 DEF vars, chats, callers, Waiting
<1>2. ASSUME NEW m \in Messages, NewMessage(m) PROVE Waiting
    <2>1. pc[m] = "none"
        BY <1>2 DEF NewMessage, Ordered
    <2> QED BY <1>2, <2>1 DEF NewMessage, Waiting, chats, callers
<1>3. ASSUME NEW m \in Messages, Read(m) \/ Delete(m) \/ MarkAsRead(m) \/ Fail(m) PROVE Waiting
    BY <1>3 DEF Read, Delete, MarkAsRead, Fail, Waiting, chats, callers
<1>4. ASSUME NEW m \in Messages, GetFirst(m) \/ GetAgain(m) PROVE Answering
    <2>1. /\ pc[m] \notin {"got", "gotAgain"} /\ pc'[m] \in {"got", "gotAgain"}
          /\ \A k \in Messages \ {m} : pc'[k] = pc[k]
        BY <1>4 DEF GetFirst, GetAgain
    <2>2. UNCHANGED callers /\ \E count \in Counts : Answer(count) /\ seen' = [seen EXCEPT ![m] = count]
        BY <1>4, Zenon DEF GetFirst, GetAgain
    <2> QED BY <2>1, <2>2, Zenon DEF Answering
<1>5. ASSUME NEW m \in Messages, Look(m) \/ CacheAgain(m) PROVE Writing
    <2>1. /\ pc[m] \in {"got", "gotAgain"} /\ pc'[m] \notin {"got", "gotAgain"}
          /\ \A k \in Messages \ {m} : pc'[k] = pc[k]
          /\ cache' = seen[m] /\ seen' = [seen EXCEPT ![m] = 0] /\ UNCHANGED <<echoes, recent, callers>>
        BY <1>5 DEF Look, CacheAgain, cacheChat
    <2>2. seen[m] \in Pending
        BY <2>1 DEF Pending
    <2> QED BY <2>1, <2>2, Zenon DEF Writing
<1>6. ASSUME NEW count \in Counts, Echo(count) PROVE Writing
    <2>1. count \in Pending
        BY <1>6 DEF Echo, Pending
    <2> QED BY <1>6, <2>1, Zenon DEF Echo, cacheChat, Writing
<1>7. ASSUME NEW c \in Callers, NEW force \in BOOLEAN, GetChat(c, force) PROVE Waiting
    BY <1>7 DEF GetChat, Waiting, chats
<1>8. ASSUME NEW c \in Callers, GetChatAnswers(c) PROVE Answering \/ Waiting
    <2>1. step[c] # "got" /\ UNCHANGED <<pc, seen>>
        BY <1>8 DEF GetChatAnswers
    <2>2. CASE step' = [step EXCEPT ![c] = "idle"] /\ UNCHANGED <<got, chats>>
        BY <2>1, <2>2 DEF Waiting
    <2>3. CASE /\ step' = [step EXCEPT ![c] = "got"]
               /\ \E count \in Counts : Answer(count) /\ got' = [got EXCEPT ![c] = count]
        BY <2>1, <2>3, Zenon DEF Answering
    <2> QED BY <1>8, <2>2, <2>3, Zenon DEF GetChatAnswers
<1>9. ASSUME NEW c \in Callers, GetChatCaches(c) PROVE Writing
    <2>1. got[c] \in Pending
        BY <1>9 DEF GetChatCaches, Pending
    <2> QED BY <1>9, <2>1, Zenon DEF GetChatCaches, cacheChat, Writing
<1>10. CustomRoutineAsks => Answering
    BY Zenon DEF CustomRoutineAsks, Answering
<1> QED BY <1>1, <1>2, <1>3, <1>4, <1>5, <1>6, <1>7, <1>8, <1>9, <1>10 DEF Next, Handle

LEMMA BoundsStep ==
    ASSUME Types, Ordered, Bounds, [Next]_vars
    PROVE  Bounds'
<1> USE DEF Bounds
<1>0. /\ \A m \in Messages : pc[m] \in {"none", "get", "got", "view", "getAgain", "gotAgain", "done", "failed"}
      /\ \A m \in Messages : pc[m] # "none" => kind[m] = "join"
    BY DEF Types, Ordered
\* What arrived, and who handles it.
<1>1. Placed'
    <2> USE DEF Placed, Arrived, Joins
    <2>1. CASE UNCHANGED vars
        BY <2>1 DEF vars, tdlib
    <2>2. ASSUME NEW m \in Messages, NewMessage(m) PROVE Placed'
        <3>1. PICK new \in {"join", "regular"} :
                  kind' = [kind EXCEPT ![m] = new]
                  /\ pc' = [pc EXCEPT ![m] = IF new = "join" THEN "get" ELSE "none"]
            BY <2>2 DEF NewMessage
        <3>2. \A k \in Messages : k # m => kind'[k] = kind[k] /\ pc'[k] = pc[k]
            BY <3>1 DEF Types
        <3>3. /\ kind[m] = "none" /\ kind'[m] = new /\ (new = "join" => pc'[m] = "get")
              /\ UNCHANGED <<deleted, lastRead, gone>>
            BY <2>2, <3>1 DEF NewMessage, Types
        <3> QED BY <3>2, <3>3
    <2>3. ASSUME NEW m \in Messages, Read(m) \/ Delete(m) PROVE Placed'
        BY <2>3 DEF Read, Delete, Unread
    <2>4. ASSUME NEW m \in Messages, Handle(m) \/ Fail(m) PROVE Placed'
        <3>1. kind' = kind /\ deleted' = deleted /\ kind[m] = "join"
            BY <2>4, <1>0 DEF Handle, GetFirst, Look, MarkAsRead, GetAgain, CacheAgain, Fail, tdlib
        <3>2. gone' \subseteq gone \union {m} /\ lastRead' \in {lastRead, m}
            BY <2>4 DEF Handle, GetFirst, Look, MarkAsRead, GetAgain, CacheAgain, Fail, tdlib
        <3>3. \A k \in Messages : pc'[k] = "none" => pc[k] = "none"
            BY <2>4 DEF Handle, GetFirst, Look, MarkAsRead, GetAgain, CacheAgain, Fail, Types
        <3> QED BY <3>1, <3>2, <3>3
    <2>5. CASE Others
        BY <2>5, OthersStep
    <2> QED BY <2>1, <2>2, <2>3, <2>4, <2>5 DEF Next, Others
\* What is counted.
<1>2. /\ seen' \in [Messages -> Counts] /\ got' \in [Callers -> Counts]
      /\ step' \in [Callers -> {"idle", "asks", "got"}]
      /\ echoes' \in [Counts -> Nat] /\ cache' \in {None} \union Counts
      /\ recent' \subseteq {None} \union Counts
    <2>0. 0 \in Counts /\ Pending \subseteq Counts
        BY MessagesAssumption DEF Pending, Counts
    <2>1. CASE Answering
        <3>1. PICK count \in Counts : 
                /\ Answer(count)
                /\ seen' \in {seen} \union {[seen EXCEPT ![m] = count] : m \in Messages}
                /\ \/ UNCHANGED callers
                   \/ \E c \in Callers : step' = [step EXCEPT ![c] = "got"] /\ got' = [got EXCEPT ![c] = count]
            BY <2>1 DEF Answering, callers
        <3>2. echoes' = [echoes EXCEPT ![count] = echoes[count] + 1] /\ echoes[count] + 1 \in Nat
              /\ recent' = Pending \union {count} /\ cache' = cache
            BY <3>1 DEF Answer
        <3>3. echoes' \in [Counts -> Nat]
            BY <3>2
        <3>4. seen' \in [Messages -> Counts] /\ got' \in [Callers -> Counts]
              /\ step' \in [Callers -> {"idle", "asks", "got"}]
            BY <3>1 DEF callers
        <3> QED BY <2>0, <3>2, <3>3, <3>4
    <2>2. CASE Writing
        <3>1. PICK count \in Pending :
                /\ cache' = count /\ recent' = recent
                /\ \/ \E m \in Messages : seen' = [seen EXCEPT ![m] = 0] /\ UNCHANGED <<echoes, callers>>
                   \/ \E c \in Callers : /\ step' = [step EXCEPT ![c] = "idle"]
                                         /\ got' = [got EXCEPT ![c] = 0] /\ UNCHANGED <<echoes, pc, seen>>
                   \/ echoes[count] > 0 /\ echoes' = [echoes EXCEPT ![count] = @ - 1]
                        /\ UNCHANGED <<pc, seen, callers>>
            BY <2>2, Zenon DEF Writing
        <3>2. echoes' \in [Counts -> Nat]
            <4>1. CASE UNCHANGED echoes
                BY <4>1
            <4>2. CASE echoes[count] > 0 /\ echoes' = [echoes EXCEPT ![count] = @ - 1]
                BY <2>0, <4>2
            <4> QED BY <3>1, <4>1, <4>2
        <3>3. seen' \in [Messages -> Counts] /\ got' \in [Callers -> Counts]
              /\ step' \in [Callers -> {"idle", "asks", "got"}]
            BY <2>0, <3>1 DEF callers
        <3> QED BY <2>0, <3>1, <3>2, <3>3
    <2>3. CASE Waiting
        BY <2>3 DEF Waiting, chats
    <2> QED BY <2>1, <2>2, <2>3, CacheSteps
<1> QED BY <1>1, <1>2

LEMMA NewestStep ==
    ASSUME Types, Ordered, Bounds, Newest, [Next]_vars
    PROVE  Newest'
<1> USE DEF Newest, CacheHasCause
<1>0. Types' /\ Bounds'
    BY TypesStep, BoundsStep
<1>1. CASE Answering
    <2>1. PICK count \in Counts :
            /\ echoes' = [echoes EXCEPT ![count] = @ + 1] /\ recent' = Pending \union {count}
            /\ \/ \E m \in Messages : /\ pc[m] \notin {"got", "gotAgain"} /\ pc'[m] \in {"got", "gotAgain"}
                                      /\ \A k \in Messages \ {m} : pc'[k] = pc[k]
                                      /\ seen' = [seen EXCEPT ![m] = count] /\ UNCHANGED callers
               \/ \E c \in Callers : /\ step[c] # "got" /\ step' = [step EXCEPT ![c] = "got"]
                                     /\ got' = [got EXCEPT ![c] = count] /\ UNCHANGED <<pc, seen>>
               \/ UNCHANGED <<pc, seen, callers>>
        BY <1>1 DEF Answering, Answer
    <2>2. Pending' \subseteq Pending \union {count}
        BY <2>1 DEF Pending, callers, Types, Bounds
    <2>3. echoes'[count] > 0
        BY <2>1 DEF Bounds
    <2>4. Pending' # {}
        BY <2>3 DEF Pending
    <2> QED BY <2>1, <2>2, <2>4
<1>2. CASE Writing
    <2>1. Pending' \subseteq Pending /\ cache' \in Pending /\ recent' = recent
        <3>1. PICK count \in Pending :
                /\ cache' = count /\ UNCHANGED recent
                /\ \/ \E m \in Messages : /\ pc'[m] \notin {"got", "gotAgain"}
                                          /\ \A k \in Messages \ {m} : pc'[k] = pc[k]
                                          /\ seen' = [seen EXCEPT ![m] = 0] /\ UNCHANGED <<echoes, callers>>
                   \/ \E c \in Callers : /\ step' = [step EXCEPT ![c] = "idle"]
                                         /\ got' = [got EXCEPT ![c] = 0] /\ UNCHANGED <<echoes, pc, seen>>
                   \/ echoes[count] > 0 /\ echoes' = [echoes EXCEPT ![count] = @ - 1]
                        /\ UNCHANGED <<pc, seen, callers>>
            BY <1>2, Zenon DEF Writing
        <3>2. \A n \in Counts : echoes'[n] > 0 => echoes[n] > 0
            BY <3>1 DEF Bounds, Counts
        <3>3. \A m \in Messages : pc'[m] \in {"got", "gotAgain"} => pc[m] \in {"got", "gotAgain"} /\ seen'[m] = seen[m]
            BY <3>1 DEF Types
        <3>4. \A c \in Callers : step'[c] = "got" => step[c] = "got" /\ got'[c] = got[c]
            BY <3>1 DEF Bounds, callers
        <3>5. Pending' \subseteq Pending
            BY <3>2, <3>3, <3>4 DEF Pending
        <3> QED BY <3>1, <3>5
    <2> QED BY <2>1
<1>3. CASE Waiting
    <2>1. Pending' = Pending
        BY <1>3 DEF Waiting, Pending, chats
    <2> QED BY <1>3, <2>1 DEF Waiting, chats
<1> QED BY <1>1, <1>2, <1>3, CacheSteps

LEMMA CacheInvariance == Spec => [](Bounds /\ Newest)
<1>1. Init => Bounds /\ Newest
    BY MessagesAssumption DEF Init, Bounds, Placed, Newest, CacheHasCause, Pending, Counts, Arrived, Joins
<1>2. IInv /\ Bounds /\ Newest /\ [Next]_vars => (Bounds /\ Newest)'
    BY BoundsStep, NewestStep DEF IInv
<1> QED BY <1>1, <1>2, Invariance, PTL DEF Spec

\* The types of ReadMarks, for any number of messages, callers and results on their way.
THEOREM TypeCorrect == Spec => []TypeOK
<1>1. IInv /\ Bounds => TypeOK
    BY DEF IInv, Types, Ordered, Bounds, Placed, TypeOK
<1> QED BY <1>1, Invariance, CacheInvariance, PTL

\* Whoever wrote last, the cache ends with TDLib's newest answer or with one that was still to be
\* written when TDLib gave that answer; for any number of messages, callers and results on their way.
THEOREM CachesHaveCause == Spec => []CacheHasCause
<1>1. Newest => CacheHasCause
    BY DEF Newest
<1> QED BY <1>1, CacheInvariance, PTL
=============================================================================

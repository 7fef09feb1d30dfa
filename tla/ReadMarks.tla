------------------------------- MODULE ReadMarks -------------------------------
(***************************************************************************)
(* Joins in a chat and their read marks: for every "somebody joined"       *)
(* message UpdatesCallback starts MarkJoinAsRead, which asks TDLib for the  *)
(* chat and, when its unread count is 1, marks the chat read up to that     *)
(* message.  The handlers of several messages, the owner's own reading and  *)
(* deletions interleave, and so do the other callers of GetChat: pages,     *)
(* other updates and the filling of a folder.  Each answer of TDLib is      *)
(* written to the chat cache twice, by the GetChat that asked and by a      *)
(* goroutine of its own that sees the same result.                          *)
(*                                                                         *)
(* One chat: the handlers of different chats share nothing.  Messages are   *)
(* numbered as they arrive, up to MaxMessages; a cached chat is the unread  *)
(* count in it.  MaxResults bounds the results with a same count that are   *)
(* on their way when another caller gets its answer; the handlers of joins  *)
(* are not held up by it.                                                   *)
(***************************************************************************)
EXTENDS Integers, FiniteSets

CONSTANTS MaxMessages, Callers, MaxResults

ASSUME MessagesAssumption == MaxMessages \in Nat \ {0}

VARIABLES
    kind,       \* TDLib: the incoming messages so far, each a "join" or "regular"
    deleted,    \* TDLib: those that were deleted
    lastRead,   \* TDLib: the chat is read up to this message
    pc,         \* MarkJoinAsRead of each join
    seen,       \* chat.UnreadCount of the chat it holds
    step,       \* GetChat of each other caller
    got,        \* the unread count in the chat it got
    echoes,     \* of each count, the results UpdatesCallback has still to cache
    cache,      \* localChats
    recent,     \* history: TDLib's newest answer, and those it overtook
    gone        \* history: joins that were deleted before their handler looked

tdlib == <<kind, deleted, lastRead>>
callers == <<step, got>>
chats == <<echoes, cache, recent>>
vars == <<tdlib, pc, seen, callers, chats, gone>>

Messages == 1..MaxMessages
Arrived == {m \in Messages : kind[m] # "none"}
Unread == {m \in Arrived : m > lastRead /\ m \notin deleted}
Joins == {m \in Arrived : kind[m] = "join"}
None == -1
Counts == 0..MaxMessages

Init ==
    /\ kind = [m \in Messages |-> "none"]
    /\ deleted = {} /\ lastRead = 0
    /\ pc = [m \in Messages |-> "none"]
    /\ seen = [m \in Messages |-> 0]
    /\ step = [c \in Callers |-> "idle"]
    /\ got = [c \in Callers |-> 0]
    /\ echoes = [n \in Counts |-> 0] /\ cache = None /\ recent = {None}
    /\ gone = {}

-----------------------------------------------------------------------------
\* A faulty UpdatesCallback, which takes every message for a join.
NewMessageAnyKind(m) ==
    /\ kind[m] = "none" /\ \A k \in Messages : k < m => kind[k] # "none"
    /\ \E new \in {"join", "regular"} : kind' = [kind EXCEPT ![m] = new]
    /\ pc' = [pc EXCEPT ![m] = "get"]
    /\ UNCHANGED <<deleted, lastRead, seen, callers, chats, gone>>

\* A new message: for the two kinds of joins, go t.MarkJoinAsRead.
NewMessage(m) ==
    /\ kind[m] = "none" /\ \A k \in Messages : k < m => kind[k] # "none"
    /\ \E new \in {"join", "regular"} :
        /\ kind' = [kind EXCEPT ![m] = new]
        /\ pc' = [pc EXCEPT ![m] = IF new = "join" THEN "get" ELSE "none"]
    /\ UNCHANGED <<deleted, lastRead, seen, callers, chats, gone>>

\* The owner reads the chat in another client, or opens a message's page.
Read(m) ==
    /\ m \in Unread
    /\ lastRead' = m
    /\ UNCHANGED <<kind, deleted, pc, seen, callers, chats, gone>>

Delete(m) ==
    /\ m \in Arrived \ deleted
    /\ deleted' = deleted \union {m}
    /\ UNCHANGED <<kind, lastRead, pc, seen, callers, chats, gone>>

\* The counts that are still to be written to the cache.
Pending ==
    {n \in Counts : echoes[n] > 0}
      \union {seen[m] : m \in {k \in Messages : pc[k] \in {"got", "gotAgain"}}}
      \union {got[c] : c \in {d \in Callers : step[d] = "got"}}

\* TDLib answers a GetChat; a goroutine of its own takes the same result to UpdatesCallback.
Answer(count) ==
    /\ count = Cardinality(Unread)
    /\ echoes' = [echoes EXCEPT ![count] = @ + 1]
    /\ recent' = Pending \union {count}
    /\ UNCHANGED cache

\* The bound of the other callers.
Room == \A n \in Counts : echoes[n] < MaxResults

\* A faulty cacheChat, which keeps the chat it has.
CacheChatOnce(count) == cache' = IF cache = None THEN count ELSE cache

cacheChat(count) == cache' = count

\* GetChat(ctx, chatId, force) of another caller: a cached chat is returned unless it is forced.
GetChat(c, force) ==
    /\ step[c] = "idle"
    /\ force \/ cache = None
    /\ step' = [step EXCEPT ![c] = "asks"]
    /\ UNCHANGED <<tdlib, pc, seen, got, chats, gone>>

\* TDLib's answer to the caller, or an error, which ends the call.
GetChatAnswers(c) ==
    /\ step[c] = "asks"
    /\ \/ /\ Room
          /\ \E count \in Counts : Answer(count) /\ got' = [got EXCEPT ![c] = count]
          /\ step' = [step EXCEPT ![c] = "got"]
       \/ /\ step' = [step EXCEPT ![c] = "idle"]
          /\ UNCHANGED <<got, chats>>
    /\ UNCHANGED <<tdlib, pc, seen, gone>>

\* A chat without an error is cached before it is returned.
GetChatCaches(c) ==
    /\ step[c] = "got"
    /\ cacheChat(got[c])
    /\ got' = [got EXCEPT ![c] = 0]
    /\ step' = [step EXCEPT ![c] = "idle"]
    /\ UNCHANGED <<tdlib, pc, seen, echoes, recent, gone>>

\* A custom routine asks TDLib itself: only the goroutine of the result caches the chat.
CustomRoutineAsks ==
    /\ Room
    /\ \E count \in Counts : Answer(count)
    /\ UNCHANGED <<tdlib, pc, seen, callers, gone>>

\* MarkJoinAsRead up to the answer of its first GetChat, which is forced.
GetFirst(m) ==
    /\ pc[m] = "get"
    /\ \E count \in Counts : Answer(count) /\ seen' = [seen EXCEPT ![m] = count]
    /\ pc' = [pc EXCEPT ![m] = "got"]
    /\ gone' = IF m \in deleted THEN gone \union {m} ELSE gone
    /\ UNCHANGED <<tdlib, callers>>

\* A faulty MarkJoinAsRead, which does not look at the count.
LookAny(m) ==
    /\ pc[m] = "got"
    /\ cacheChat(seen[m])
    /\ seen' = [seen EXCEPT ![m] = 0]
    /\ pc' = [pc EXCEPT ![m] = "view"]
    /\ UNCHANGED <<tdlib, callers, echoes, recent, gone>>

\* A faulty test: an unread count the join was not added to yet.
LookNone(m) ==
    /\ pc[m] = "got"
    /\ cacheChat(seen[m])
    /\ seen' = [seen EXCEPT ![m] = 0]
    /\ pc' = [pc EXCEPT ![m] = IF seen[m] = 0 THEN "view" ELSE "done"]
    /\ UNCHANGED <<tdlib, callers, echoes, recent, gone>>

\* cacheChat, then the test of the unread count.
Look(m) ==
    /\ pc[m] = "got"
    /\ cacheChat(seen[m])
    /\ seen' = [seen EXCEPT ![m] = 0]
    /\ pc' = [pc EXCEPT ![m] = IF seen[m] = 1 THEN "view" ELSE "done"]
    /\ UNCHANGED <<tdlib, callers, echoes, recent, gone>>

\* markAsRead: ViewMessages with force_read reads the chat up to the message.  Of a message
\* that is deleted by then TDLib may keep or ignore the place.
MarkAsRead(m) ==
    /\ pc[m] = "view"
    /\ \/ lastRead' = IF m > lastRead THEN m ELSE lastRead
       \/ m \in deleted /\ UNCHANGED lastRead
    /\ pc' = [pc EXCEPT ![m] = "getAgain"]
    /\ UNCHANGED <<kind, deleted, seen, callers, chats, gone>>

\* The second GetChat is forced too; its answer is only cached.
GetAgain(m) ==
    /\ pc[m] = "getAgain"
    /\ \E count \in Counts : Answer(count) /\ seen' = [seen EXCEPT ![m] = count]
    /\ pc' = [pc EXCEPT ![m] = "gotAgain"]
    /\ UNCHANGED <<tdlib, callers, gone>>

\* The second answer is cached too.
CacheAgain(m) ==
    /\ pc[m] = "gotAgain"
    /\ cacheChat(seen[m])
    /\ seen' = [seen EXCEPT ![m] = 0]
    /\ pc' = [pc EXCEPT ![m] = "done"]
    /\ UNCHANGED <<tdlib, callers, echoes, recent, gone>>

\* Any of the three calls may fail, and ends the handler.
Fail(m) ==
    /\ pc[m] \in {"get", "view", "getAgain"}
    /\ pc' = [pc EXCEPT ![m] = "failed"]
    /\ UNCHANGED <<tdlib, seen, callers, chats, gone>>

\* UpdatesCallback for a Chat result: cacheChat, in a goroutine of its own.
Echo(count) ==
    /\ echoes[count] > 0
    /\ echoes' = [echoes EXCEPT ![count] = @ - 1]
    /\ cacheChat(count)
    /\ UNCHANGED <<tdlib, pc, seen, callers, recent, gone>>

Handle(m) == GetFirst(m) \/ Look(m) \/ MarkAsRead(m) \/ GetAgain(m) \/ CacheAgain(m)

Next ==
    \/ \E m \in Messages : NewMessage(m) \/ Read(m) \/ Delete(m) \/ Handle(m) \/ Fail(m)
    \/ \E count \in Counts : Echo(count)
    \/ \E c \in Callers : (\E force \in BOOLEAN : GetChat(c, force)) \/ GetChatAnswers(c) \/ GetChatCaches(c)
    \/ CustomRoutineAsks

Spec == Init /\ [][Next]_vars

\* Handlers are goroutines between calls that end (the client's fallback timeout).
FairSpec == Spec /\ \A m \in Messages : WF_vars(Handle(m))

-----------------------------------------------------------------------------
\* Types, and the order of messages: what is read, deleted or handled has arrived.
TypeOK ==
    /\ kind \in [Messages -> {"none", "join", "regular"}]
    /\ \A k, m \in Messages : k < m /\ kind[k] = "none" => kind[m] = "none"
    /\ deleted \subseteq Arrived /\ lastRead \in Arrived \union {0}
    /\ pc \in [Messages -> {"none", "get", "got", "view", "getAgain", "gotAgain", "done", "failed"}]
    /\ \A m \in Messages : pc[m] # "none" <=> kind[m] = "join"
    /\ seen \in [Messages -> Counts]
    /\ step \in [Callers -> {"idle", "asks", "got"}] /\ got \in [Callers -> Counts]
    /\ echoes \in [Counts -> Nat] /\ cache \in {None} \union Counts
    /\ recent \subseteq {None} \union Counts
    /\ gone \subseteq Joins

\* Marking a join never hides a regular message: whatever arrives, is read or is deleted between
\* the look at the count and the call, a count of 1 was the join's own.  The exception is a
\* join that was deleted before its handler looked: the 1 is then another message.
RegularStaysUnread ==
    [][\A m \in Messages : pc[m] = "view" /\ pc'[m] = "getAgain" =>
        \A k \in Unread : kind[k] = "regular" /\ k <= lastRead' => m \in gone]_vars

\* Whoever wrote last, the cache ends with the answer TDLib gave last, or with one that was
\* still to be written when TDLib gave it: an older answer never comes back.
CacheHasCause ==
    Pending = {} => cache \in recent

\* A join that is alone unread when its handler starts does not stay so: it gets read, or
\* something else happens in the chat or to TDLib.
LoneJoinIsRead ==
    \A j \in Messages : (pc[j] = "get" /\ Unread = {j}) ~> (Unread # {j} \/ pc[j] = "failed")
=============================================================================

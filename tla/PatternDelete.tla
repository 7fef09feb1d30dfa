----------------------------- MODULE PatternDelete -----------------------------
(***************************************************************************)
(* processTgDelete: go back through a chat's history until Limit messages   *)
(* contain the pattern, then delete those.  A page is left at its first     *)
(* message that does not match when none before it on the page did; the     *)
(* next page starts there.  The loop has no end for a chat with fewer        *)
(* matches: TDLib answers with no messages and is asked again.              *)
(*                                                                         *)
(* Meanwhile messages arrive, are edited and are removed by others, which   *)
(* includes a second request for the chat.  A message is its id, and its    *)
(* text "match", "other" or "empty" (no text), or "none" if there is none.   *)
(***************************************************************************)
EXTENDS Integers, FiniteSets

CONSTANTS
    MaxId,      \* bound on messages
    PageSize,   \* GetChatHistory answers with at most so many
    Limit       \* the limit asked for

ASSUME SizesAssumption == MaxId \in Nat \ {0} /\ PageSize \in Nat \ {0} /\ Limit \in Nat

VARIABLES
    text,       \* the chat
    newest,     \* the last id given to a message
    pc,         \* processTgDelete
    lastId,     \* the message the scan came to
    messageIds, \* what it will delete
    top,        \* history: the newest message when the scan began
    touched     \* history: messages that were edited or removed since

scan == <<pc, lastId, messageIds, top>>
vars == <<text, newest, scan, touched>>

Ids == 1..MaxId

\* What the scan reads of a message: the text or caption people wrote, if any, nothing of a video
\* note or a pinned message, and of the others words of the program's own, in which the pattern
\* may be found as well.
GetContentWithText ==
    [written   |-> {"match", "other", "empty"},
     textless  |-> {"empty"},
     described |-> {"match", "other"}]

Texts == UNION {GetContentWithText[kind] : kind \in DOMAIN GetContentWithText}
Present == {m \in Ids : text[m] # "none"}
Matching == {m \in Ids : text[m] = "match"}

Init ==
    /\ newest \in 0..MaxId
    /\ text \in [Ids -> Texts \union {"none"}]
    /\ \A m \in Ids : text[m] # "none" <=> m <= newest
    /\ pc = "scan" /\ lastId = 0 /\ messageIds = {} /\ top = newest /\ touched = {}

-----------------------------------------------------------------------------
\* What others do.
Arrive ==
    /\ newest < MaxId
    /\ newest' = newest + 1
    /\ \E new \in Texts : text' = [text EXCEPT ![newest'] = new]
    /\ UNCHANGED <<scan, touched>>

Edit(m) ==
    /\ m \in Present
    /\ \E new \in Texts \ {text[m]} : text' = [text EXCEPT ![m] = new]
    /\ touched' = touched \union {m}
    /\ UNCHANGED <<newest, scan>>

Remove(m) ==
    /\ m \in Present
    /\ text' = [text EXCEPT ![m] = "none"]
    /\ touched' = touched \union {m}
    /\ UNCHANGED <<newest, scan>>

-----------------------------------------------------------------------------
\* Another request.
Request ==
    /\ pc = "done"
    /\ pc' = "scan" /\ lastId' = 0 /\ messageIds' = {} /\ top' = newest /\ touched' = {}
    /\ UNCHANGED <<text, newest>>

\* GetChatHistory: the newest messages before lastId, as many as TDLib likes.
Before(id) == {m \in Present : id = 0 \/ m < id}
PagesOf(id) ==
    {page \in SUBSET Before(id) :
        /\ Cardinality(page) <= PageSize
        /\ page = {} => Before(id) = {}
        /\ \A m \in page : \A k \in Before(id) : k > m => k \in page}

\* The messages of a page that end its loop: not matching, with no match before.
Ends(page) == {m \in page : text[m] = "other" /\ \A k \in page : k > m => text[k] # "match"}
Reached(page) == {m \in page : \A k \in Ends(page) : k <= m}

\* A faulty loop, which goes on after the page though it left it early.
ReadPageOver(page) ==
    /\ messageIds' = messageIds \union (Reached(page) \intersect Matching)
    /\ lastId' \in IF page = {} THEN {lastId} ELSE {m \in page : \A k \in page : m <= k}

\* A faulty loop, which asks for the next page from the page's first message.
ReadPageFirst(page) ==
    /\ messageIds' = messageIds \union (Reached(page) \intersect Matching)
    /\ lastId' \in IF page = {} THEN {lastId} ELSE {m \in page : \A k \in page : m >= k}

\* A faulty loop, which begins a new list for every page.
ReadPageAnew(page) ==
    /\ messageIds' = Reached(page) \intersect Matching
    /\ lastId' \in IF page = {} THEN {lastId} ELSE {m \in Reached(page) : \A k \in Reached(page) : m <= k}

\* The loop over the page.
ReadPage(page) ==
    /\ messageIds' = messageIds \union (Reached(page) \intersect Matching)
    /\ lastId' \in IF page = {} THEN {lastId} ELSE {m \in Reached(page) : \A k \in Reached(page) : m <= k}

\* One more page, or the end of the loop.
Scan ==
    /\ pc = "scan" /\ Cardinality(messageIds) < Limit
    /\ \E page \in PagesOf(lastId) : ReadPage(page)
    /\ UNCHANGED <<text, newest, pc, top, touched>>

Enough ==
    /\ pc = "scan" /\ Cardinality(messageIds) >= Limit
    /\ pc' = "delete"
    /\ UNCHANGED <<text, newest, lastId, messageIds, top, touched>>

\* TDLib fails, or the person has left the page: nothing is deleted.
ScanFails ==
    /\ pc = "scan"
    /\ pc' = "done"
    /\ UNCHANGED <<text, newest, lastId, messageIds, top, touched>>

\* DeleteMessages, which may fail.
Delete ==
    /\ pc = "delete"
    /\ pc' = "done"
    /\ \/ text' = [m \in Ids |-> IF m \in messageIds THEN "none" ELSE text[m]]
       \/ UNCHANGED text
    /\ UNCHANGED <<newest, lastId, messageIds, top, touched>>

Work == Scan \/ Enough \/ Delete

Next ==
    \/ Arrive \/ Request \/ Work \/ ScanFails
    \/ \E m \in Ids : Edit(m) \/ Remove(m)

Spec == Init /\ [][Next]_vars

\* The handler is a goroutine, and its calls end.
FairSpec == Spec /\ WF_vars(Work)

-----------------------------------------------------------------------------
\* Types; the scan has come to a message that was there when it began, or after it
\* only from a chat without messages.
TypeOK ==
    /\ newest \in 0..MaxId
    /\ text \in [Ids -> Texts \union {"none"}]
    /\ \A m \in Present : m <= newest
    /\ pc \in {"scan", "delete", "done"}
    /\ lastId \in 0..newest /\ messageIds \subseteq Ids /\ top \in 0..newest
    /\ \A m \in messageIds : m >= lastId
    /\ touched \subseteq Ids

\* The scan passes no match by, though it leaves pages early: of what was there when it began,
\* all it came past and that still is as it was is taken.
NoneSkipped ==
    pc # "done" /\ lastId > 0 =>
        \A m \in Matching : lastId <= m /\ m <= top => m \in messageIds \union touched

\* Only matches are deleted, but for those that were edited since they were read.
OnlyMatches == \A m \in messageIds : pc # "done" => m \in Matching \union touched

\* What is deleted is what matches: all of it that the scan came past, and nothing else.
ScanIsExact == NoneSkipped /\ OnlyMatches

\* A request in a chat with enough matches ends, if nobody touches the chat.
EndsWithEnough ==
    (pc = "scan" /\ lastId = 0 /\ Cardinality(Matching) >= Limit) ~> (pc # "scan" \/ touched # {})
=============================================================================

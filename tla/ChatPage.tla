-------------------------------- MODULE ChatPage --------------------------------
(***************************************************************************)
(* The chat-list page /l beside the mirror it reads: processTgChatList of  *)
(* internal/web/controller.go, without its refresh, which ChatLists has.   *)
(* The page looks at one chat after another, and "not in any folder" reads  *)
(* the rows of one folder after another for each: updates, refreshes and   *)
(* other pages go on between its reads.                                    *)
(*                                                                         *)
(* One page: pages share nothing but the mirror.  The chats in localChats,  *)
(* the folders in t.chatFolders and the members of a chat are what they    *)
(* may be; titles, usernames and the page's markup are left out.           *)
(***************************************************************************)
EXTENDS ChatLists

CONSTANT Private    \* chats with one person

NoChat == "none"

ASSUME PrivateAssumption == Private \subseteq Chats /\ NoChat \notin Chats

VARIABLES
    step,      \* where the page is
    view,      \* the value of ?folder=, or the groups in common with a person
    list,      \* the list shown, or the folder chats are added to
    left,      \* chats still to come
    at,        \* the chat whose folders are read
    todo,      \* folders whose rows are still to be read for it
    saved,     \* a row for it was found
    shown,     \* the chats on the page
    known      \* history: what was read of these rows, found or not, is still so

page == <<step, view, list, left, at, todo, saved, shown, known>>
pageVars == <<vars, page>>

LocalViews == {"cached", "owned", "notSubscribed", "notAssigned"}
Views == LocalViews \union {"list", "inCommon"}

HasRow(p) == rows[p] # NoRow

Reset ==
    /\ step' = "idle" /\ view' = "list" /\ list' = NoList
    /\ left' = {} /\ at' = NoChat /\ todo' = {} /\ saved' = FALSE
    /\ shown' = {} /\ known' = {}

PageInit ==
    /\ Init
    /\ step = "idle" /\ view = "list" /\ list = NoList
    /\ left = {} /\ at = NoChat /\ todo = {} /\ saved = FALSE
    /\ shown = {} /\ known = {}

-----------------------------------------------------------------------------
\* The pages that go through GetLocalChats, the chats some answer put in the cache.
OpenLocal(v) ==
    /\ step = "idle"
    /\ step' = "chats" /\ view' = v
    /\ left' \in SUBSET Chats
    /\ UNCHANGED <<vars, list, at, todo, saved, shown, known>>

\* GetSavedChats of the list: no chats when it fails.
OpenList(l) ==
    /\ step = "idle"
    /\ step' = "chats" /\ view' = "list" /\ list' = l
    /\ \/ left' = {c \in Chats : HasRow(<<c, l>>)} /\ known' = RowsOf(l)
       \/ Failures /\ left' = {} /\ UNCHANGED known
    /\ UNCHANGED <<vars, at, todo, saved, shown>>

\* GetGroupsInCommon: nil chats when it fails, which panics; net/http ends the request.
GroupsInCommon ==
    \/ /\ step' = "chats" /\ view' = "inCommon" /\ list' = NoList
       /\ left' \in SUBSET Chats
       /\ UNCHANGED <<at, todo, saved, shown, known>>
    \/ Failures /\ Reset

OpenInCommon == step = "idle" /\ GroupsInCommon /\ UNCHANGED vars

\* The form of that page: the chats to add and their folder.
PostInCommon(l) ==
    /\ step = "idle"
    /\ step' = "add" /\ view' = "inCommon" /\ list' = l
    /\ left' \in SUBSET Chats \ {{}}
    /\ UNCHANGED <<vars, at, todo, saved, shown, known>>

\* AddChatsToFolder: TDLib puts the chat in the folder, has it there, or refuses.
AddChat(c) ==
    /\ step = "add" /\ c \in left
    /\ \/ Join(c, list)
       \/ (Failures \/ order[<<c, list>>] > 0) /\ UNCHANGED vars
    /\ left' = left \ {c}
    /\ UNCHANGED <<step, view, list, at, todo, saved, shown, known>>

\* After the redirect the handler goes on, as there is no return.
AddedAll == step = "add" /\ left = {} /\ GroupsInCommon /\ UNCHANGED vars

-----------------------------------------------------------------------------
\* A row of the page: GetChat's, or its error's.
ShowChat(c) ==
    /\ step = "chats" /\ view \in {"list", "inCommon", "cached"} /\ c \in left
    /\ left' = left \ {c} /\ shown' = shown \union {c}
    /\ UNCHANGED <<vars, step, view, list, at, todo, saved, known>>

\* GetChatMember says who created the chat, or fails, which skips it; or what was read of
\* the chat says there is nothing the person ever saw in it.
ShowSome(c) ==
    /\ step = "chats" /\ view \in {"owned", "notSubscribed"} /\ c \in left
    /\ left' = left \ {c}
    /\ shown' \in {shown, shown \union {c}}
    /\ UNCHANGED <<vars, step, view, list, at, todo, saved, known>>

\* CHANNEL_PRIVATE is let through to a member that is nil: the panic ends the request.
OwnedPanics ==
    /\ step = "chats" /\ view = "owned" /\ left # {}
    /\ Reset
    /\ UNCHANGED vars

\* GetChatFolders for the next chat of "not in any folder".
LookUp(c) ==
    /\ step = "chats" /\ view = "notAssigned" /\ c \in left
    /\ step' = "rows" /\ at' = c /\ left' = left \ {c} /\ saved' = FALSE
    /\ todo' \in SUBSET Folders
    /\ UNCHANGED <<vars, view, list, shown, known>>

\* A faulty loop, in which the last folder decides.
ReadRowsLast(l) ==
    LET p == <<at, l>>
    IN  /\ step = "rows" /\ l \in todo
        /\ todo' = todo \ {l}
        /\ \/ saved' = HasRow(p) /\ known' = known \union {p}
           \/ Failures /\ saved' = FALSE /\ UNCHANGED known
        /\ UNCHANGED <<vars, step, view, list, left, at, shown>>

\* GetSavedChats of a folder: no chats when it fails.
ReadRows(l) ==
    LET p == <<at, l>>
    IN  /\ step = "rows" /\ l \in todo
        /\ todo' = todo \ {l}
        /\ \/ saved' = (saved \/ HasRow(p)) /\ known' = known \union {p}
           \/ Failures /\ UNCHANGED <<saved, known>>
        /\ UNCHANGED <<vars, step, view, list, left, at, shown>>

\* A faulty loop, whose flag outlives its chat.
DecideStale ==
    /\ step = "rows" /\ todo = {}
    /\ step' = "chats" /\ at' = NoChat
    /\ \/ ~(saved \/ at \in Private) /\ shown' = shown \union {at} /\ UNCHANGED known
       \/ (saved \/ at \in Private) /\ known' = {p \in known : p[1] # at} /\ UNCHANGED shown
    /\ UNCHANGED <<vars, view, list, left, todo, saved>>

\* Chats with one person are never shown here.  What is known of a chat that is not
\* shown is of no use any more.
Decide ==
    /\ step = "rows" /\ todo = {}
    /\ step' = "chats" /\ at' = NoChat /\ saved' = FALSE
    /\ \/ ~(saved \/ at \in Private) /\ shown' = shown \union {at} /\ UNCHANGED known
       \/ (saved \/ at \in Private) /\ known' = {p \in known : p[1] # at} /\ UNCHANGED shown
    /\ UNCHANGED <<vars, view, list, left, todo>>

\* The page is closed, before it is complete or after.
Close == step # "idle" /\ Reset /\ UNCHANGED vars

-----------------------------------------------------------------------------
\* The mirror goes on.
Watch ==
    /\ known' = {p \in known : HasRow(p) <=> HasRow(p)'}
    /\ UNCHANGED <<step, view, list, left, at, todo, saved, shown>>

\* A page may be what ends the process: ranging over localChats while another goroutine
\* caches a chat is fatal.
PageNext ==
    \/ Live /\ Watch
    \/ Restart /\ Reset
    \/ \E v \in LocalViews : OpenLocal(v)
    \/ \E l \in Lists : OpenList(l)
    \/ OpenInCommon \/ AddedAll \/ OwnedPanics \/ Decide \/ Close
    \/ \E l \in Folders : PostInCommon(l) \/ ReadRows(l)
    \/ \E c \in Chats : AddChat(c) \/ ShowChat(c) \/ ShowSome(c) \/ LookUp(c)

PageSpec == PageInit /\ [][PageNext]_pageVars

-----------------------------------------------------------------------------
\* Types; folders are read for a chat that is not on the page yet.
PageTypeOK ==
    /\ step \in {"idle", "add", "chats", "rows"} /\ view \in Views
    /\ list \in Lists \union {NoList}
    /\ left \subseteq Chats /\ shown \subseteq Chats /\ left \intersect shown = {}
    /\ at \in Chats \union {NoChat} /\ (step = "rows" <=> at # NoChat)
    /\ at \notin left \union shown
    /\ todo \subseteq Folders /\ saved \in BOOLEAN /\ (saved => step = "rows")
    /\ known \subseteq Pairs

\* All chats are looked at: the page is rendered.
Complete == step = "chats" /\ left = {}

\* A page read from many queries while the mirror changes: once updates and refreshes are
\* handled, a chat TDLib has in the list is on the list's page, and one TDLib has in a folder is
\* not among those in no folder, unless a query failed, a row came or went while the page was
\* made, or one of the causes of MissingHasCause left the row out.
PageHasCause ==
    Complete /\ Quiet =>
        \A p \in known \ cut : p[1] \in loaded[p[2]] =>
            (view = "list" <=> p[1] \in shown)
=================================================================================

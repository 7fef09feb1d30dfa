------------------------------- MODULE ChatLists -------------------------------
(***************************************************************************)
(* The chat-list mirror of one account: MongoDB rows (chat, list) -> order *)
(* kept by the handlers of TDLib's updates (each update runs in its own    *)
(* goroutine, so updates are handled in any order) and by /l?refresh=1,    *)
(* which deletes the rows of a list and asks TDLib to load it.             *)
(*                                                                         *)
(* Lists are the main list, the archive (the code treats both alike) and   *)
(* the Folders.  An order is a small number: 0 stands for "no order", any  *)
(* other value for one position in the list.  MaxUpdates bounds the        *)
(* updates in flight and MaxOrder the orders; Limit is the code's 500.     *)
(* Failures says whether MongoDB and TDLib may fail.                       *)
(***************************************************************************)
EXTENDS Integers, FiniteSets

CONSTANTS Chats, Lists, Folders, Requests, NoList, Limit, MaxOrder, MaxUpdates, Failures

ASSUME BoundsAssumption ==
    /\ NoList \notin Lists /\ IsFiniteSet(Chats)
    /\ Limit \in Nat \ {0} /\ MaxOrder \in Nat \ {0} /\ MaxUpdates \in Nat \ {0}
    /\ Failures \in BOOLEAN /\ Folders \subseteq Lists

VARIABLES
    order,     \* TDLib: the place of each chat in each list, 0 when it is not in it
    loaded,    \* TDLib: the chats of each list it has told the program about
    updates,   \* the updates whose goroutine has not finished
    rows,      \* MongoDB: the order of each row, NoRow when there is none
    req,       \* the refresh requests: pc, the list, the chats still to be saved
    cut,       \* history: pairs a reload, a folder or a failed write left without a row
    may        \* history: the orders each row may end with

vars == <<order, loaded, updates, rows, req, cut, may>>
ghosts == <<cut, may>>

Pairs == Chats \X Lists
Orders == 1..MaxOrder
NoRow == -1
Idle == [pc |-> "idle", list |-> NoList, chats |-> {}]

\* UpdateChatRemovedFromList is left out: its handler returns before it does anything.
Places == SUBSET (Lists \X (0..MaxOrder))
Copies == 1..MaxUpdates
Updates == [kind: {"placed", "added"}, chat: Chats, places: Places, copy: Copies]

\* Equal updates have goroutines of their own: a number tells apart those that are equal, or
\* may be when some of their places are written.
Copy(kind, c, places) ==
    LET alike == {u \in updates : u.kind = kind /\ u.chat = c /\ u.places \intersect places # {}}
        used == {u.copy : u \in alike}
    IN  CHOOSE k \in Copies : k \notin used \/ Copies \subseteq used

Update(kind, c, places) == [kind |-> kind, chat |-> c, places |-> places, copy |-> Copy(kind, c, places)]
Position(c, l, o) == Update("placed", c, {<<l, o>>})
Added(c, l) == Update("added", c, {<<l, 0>>})

\* UpdateChatPosition, which has one place, or UpdateChatLastMessage, which has them all.
PlacesChat(u) == u.kind = "placed"
Writes(u, p) == u.chat = p[1] /\ \E pl \in u.places : pl[1] = p[2]
InFlight(p) == \E u \in updates : PlacesChat(u) /\ Writes(u, p)
OrdersIn(us, p) == {o \in 0..MaxOrder : \E u \in us : PlacesChat(u) /\ u.chat = p[1] /\ <<p[2], o>> \in u.places}

Members(l) == {c \in Chats : order[<<c, l>>] > 0}
RowsOf(l) == {p \in Pairs : p[2] = l}

Init ==
    /\ order \in [Pairs -> {0, 1}]
    /\ loaded = [l \in Lists |-> {}]
    /\ updates = {}
    /\ rows = [p \in Pairs |-> NoRow]
    /\ req = [r \in Requests |-> Idle]
    /\ cut = {} /\ may = [p \in Pairs |-> {}]

-----------------------------------------------------------------------------
\* TDLib's side: what it knows changes, and it sends the updates that say so.

\* go t.UpdatesCallback(ctx, result): one goroutine per update.
Post(new) ==
    /\ updates' = updates \union new
    /\ Cardinality(updates') <= MaxUpdates
    /\ LET touched == {p \in Pairs : \E u \in new : PlacesChat(u) /\ Writes(u, p)}
       IN may' = [p \in Pairs |-> IF p \in touched THEN OrdersIn(updates', p) ELSE may[p]]

Move(c, l) ==
    /\ order[<<c, l>>] > 0
    /\ \E o \in Orders \ {order[<<c, l>>]} :
        /\ order' = [order EXCEPT ![<<c, l>>] = o]
        /\ Post({Position(c, l, o)})
    /\ loaded' = [loaded EXCEPT ![l] = @ \union {c}]
    /\ UNCHANGED <<rows, req, cut>>

NewMessage(c) ==
    LET in == {l \in Lists : order[<<c, l>>] > 0}
    IN  /\ in # {}
        /\ \E o \in Orders :
            /\ order' = [p \in Pairs |-> IF p[1] = c /\ p[2] \in in THEN o ELSE order[p]]
            /\ Post({Update("placed", c, {<<l, o>> : l \in in})})
        /\ loaded' = [l \in Lists |-> IF l \in in THEN loaded[l] \union {c} ELSE loaded[l]]
        /\ UNCHANGED <<rows, req, cut>>

Join(c, l) ==
    /\ order[<<c, l>>] = 0
    /\ \E o \in Orders :
        /\ order' = [order EXCEPT ![<<c, l>>] = o]
        /\ Post({Added(c, l), Position(c, l, o)})
    /\ loaded' = [loaded EXCEPT ![l] = @ \union {c}]
    /\ UNCHANGED <<rows, req, cut>>

Leave(c, l) ==
    /\ c \in loaded[l]
    /\ order' = [order EXCEPT ![<<c, l>>] = 0]
    /\ loaded' = [loaded EXCEPT ![l] = @ \ {c}]
    /\ Post({Position(c, l, 0)})
    /\ UNCHANGED <<rows, req, cut>>

-----------------------------------------------------------------------------
\* The handlers of updates.

\* A row without an order may be the last one written; so may one a failed write should replace.
MayEnd(p, orders) == may' = [may EXCEPT ![p] = @ \union (orders \ {NoRow})]

\* A faulty SaveChatPosition: $setOnInsert for $set, so that a row once written keeps its order.
SaveChatPositionOnInsert(p, o, byPlace) ==
    /\ rows' = [rows EXCEPT ![p] = IF @ = NoRow THEN o ELSE @]
    /\ cut' = cut \ {p}
    /\ MayEnd(p, IF byPlace THEN {} ELSE {o})

\* SaveChatPosition: the upsert of one row; a failure is only printed.
SaveChatPosition(p, o, byPlace) ==
    \/ /\ rows' = [rows EXCEPT ![p] = o]
       /\ cut' = cut \ {p}
       /\ MayEnd(p, IF byPlace THEN {} ELSE {o})
    \/ /\ Failures
       /\ cut' = IF rows[p] = NoRow THEN cut \union {p} ELSE cut
       /\ MayEnd(p, IF byPlace THEN {rows[p]} ELSE {})
       /\ UNCHANGED rows

\* A faulty SaveAllChatPositions, which returns in its loop: the other places stay as they are.
HandlePlacesOnce(u) ==
    /\ PlacesChat(u)
    /\ \E pl \in u.places : SaveChatPosition(<<u.chat, pl[1]>>, pl[2], TRUE)
    /\ updates' = updates \ {u}
    /\ UNCHANGED <<order, loaded, req>>

\* UpdateChatPosition, and SaveAllChatPositions for UpdateChatLastMessage: place by place.
HandlePlaces(u) ==
    /\ PlacesChat(u)
    /\ \E pl \in u.places :
        /\ SaveChatPosition(<<u.chat, pl[1]>>, pl[2], TRUE)
        /\ LET left == u.places \ {pl}
           IN updates' = (updates \ {u}) \union (IF left = {} THEN {} ELSE {[u EXCEPT !.places = left]})
    /\ UNCHANGED <<order, loaded, req>>

\* What UpdateChatAddedToList saves has no order.
HandleAdded(u) ==
    /\ u.kind = "added"
    /\ \E pl \in u.places : SaveChatPosition(<<u.chat, pl[1]>>, 0, FALSE)
    /\ updates' = updates \ {u}
    /\ UNCHANGED <<order, loaded, req>>

\* SaveChatFolder drops the rows of chats the folder does not name: those TDLib
\* puts in it by their type (all groups, all contacts) among them.
SaveChatFolder(l) ==
    /\ \E included \in SUBSET Chats :
        LET dropped == {p \in RowsOf(l) : p[1] \notin included}
        IN  /\ rows' = [p \in Pairs |-> IF p \in dropped THEN NoRow ELSE rows[p]]
            /\ cut' = cut \union dropped
    /\ UNCHANGED <<order, loaded, updates, req, may>>

-----------------------------------------------------------------------------
\* LoadChatsList, the refresh of a list.

Refresh(r, l) ==
    /\ req[r].pc = "idle"
    /\ req' = [req EXCEPT ![r] = [pc |-> "delete", list |-> l, chats |-> {}]]
    /\ UNCHANGED <<order, loaded, updates, rows, cut, may>>

\* The request ends where it is: what it has not saved stays out of the list.
GiveUp(r) ==
    /\ req' = [req EXCEPT ![r] = Idle]
    /\ cut' = cut \union {p \in RowsOf(req[r].list) : rows'[p] = NoRow}
    /\ UNCHANGED <<order, loaded, updates, may>>

\* DeleteChatFolder.
DeleteRows(r) ==
    /\ req[r].pc = "delete"
    /\ rows' = [p \in Pairs |-> IF p \in RowsOf(req[r].list) THEN NoRow ELSE rows[p]]
    /\ req' = [req EXCEPT ![r].pc = "load"]
    /\ UNCHANGED <<order, loaded, updates, ghosts>>

\* When DeleteMany fails without a result, reading its count panics and net/http ends the
\* request; an error beside a result is only logged.  The rows may be gone all the same.
DeleteFails(r) ==
    /\ req[r].pc = "delete" /\ Failures
    /\ \E gone \in {{}, RowsOf(req[r].list)} :
        rows' = [p \in Pairs |-> IF p \in gone THEN NoRow ELSE rows[p]]
    /\ \/ GiveUp(r)
       \/ req' = [req EXCEPT ![r].pc = "load"] /\ UNCHANGED <<order, loaded, updates, ghosts>>

\* LoadChats succeeds while TDLib has chats to load and sends their positions; it says
\* nothing of the chats it loaded before.
LoadOk(r) ==
    LET l == req[r].list
    IN  /\ req[r].pc = "load"
        /\ \E new \in SUBSET (Members(l) \ loaded[l]) :
            /\ new # {} /\ Cardinality(new) <= Limit
            /\ loaded' = [loaded EXCEPT ![l] = @ \union new]
            /\ Post({Position(c, l, order[<<c, l>>]) : c \in new})
        /\ req' = [req EXCEPT ![r] = Idle]
        /\ cut' = cut \union {p \in RowsOf(l) : p[1] \in loaded[l] /\ rows[p] = NoRow}
        /\ UNCHANGED <<order, rows>>

\* A faulty LoadChatsList, which takes "all chats loaded" for success.
LoadNotFoundReturns(r) ==
    /\ req[r].pc = "load"
    /\ Members(req[r].list) \subseteq loaded[req[r].list]
    /\ req' = [req EXCEPT ![r] = Idle]
    /\ UNCHANGED <<order, loaded, updates, rows, ghosts>>

LoadNotFound(r) ==
    /\ req[r].pc = "load"
    /\ Members(req[r].list) \subseteq loaded[req[r].list]
    /\ req' = [req EXCEPT ![r].pc = "get"]
    /\ UNCHANGED <<order, loaded, updates, rows, ghosts>>

\* panic("LoadChats"), which net/http recovers.
LoadFails(r) == req[r].pc = "load" /\ Failures /\ UNCHANGED rows /\ GiveUp(r)

\* A faulty loop over the chats, entered when there are none.
GetChatsOrNone(r) ==
    /\ req[r].pc = "get"
    /\ req' = [req EXCEPT ![r].pc = "save", ![r].chats = loaded[req[r].list]]
    /\ UNCHANGED <<order, loaded, updates, rows, ghosts>>

\* The first Limit chats of the list, in TDLib's order.
GetChats(r) ==
    LET l == req[r].list
    IN  /\ req[r].pc = "get"
        /\ \E first \in SUBSET loaded[l] :
            /\ Cardinality(first) = IF Cardinality(loaded[l]) < Limit THEN Cardinality(loaded[l]) ELSE Limit
            /\ \A c \in first, d \in loaded[l] \ first : order[<<c, l>>] >= order[<<d, l>>]
            /\ req' = [req EXCEPT ![r] = IF first = {} THEN Idle ELSE [pc |-> "save", list |-> l, chats |-> first]]
            /\ cut' = cut \union {p \in RowsOf(l) : p[1] \in loaded[l] \ first /\ rows[p] = NoRow}
        /\ UNCHANGED <<order, loaded, updates, rows, may>>

\* A failed GetChats returns nil chats, and the loop over them panics.
GetFails(r) == req[r].pc = "get" /\ Failures /\ UNCHANGED rows /\ GiveUp(r)

SaveRow(r) ==
    /\ req[r].pc = "save"
    /\ \E c \in req[r].chats :
        /\ SaveChatPosition(<<c, req[r].list>>, 0, FALSE)
        /\ LET left == req[r].chats \ {c}
           IN req' = [req EXCEPT ![r] = IF left = {} THEN Idle ELSE [@ EXCEPT !.chats = left]]
    /\ UNCHANGED <<order, loaded, updates>>

\* The program stops and starts again: rows stay, goroutines and what TDLib had loaded do not.
Restart ==
    /\ loaded' = [l \in Lists |-> {}]
    /\ updates' = {}
    /\ req' = [r \in Requests |-> Idle]
    /\ cut' = {} /\ may' = [p \in Pairs |-> {}]
    /\ UNCHANGED <<order, rows>>

Live ==
    \/ \E c \in Chats, l \in Lists : Move(c, l) \/ Join(c, l) \/ Leave(c, l)
    \/ \E c \in Chats : NewMessage(c)
    \/ \E u \in updates : HandlePlaces(u) \/ HandleAdded(u)
    \/ \E l \in Folders : SaveChatFolder(l)
    \/ \E r \in Requests, l \in Lists : Refresh(r, l)
    \/ \E r \in Requests : DeleteRows(r) \/ DeleteFails(r) \/ LoadOk(r) \/ LoadNotFound(r) \/ LoadFails(r)
                           \/ GetChats(r) \/ GetFails(r) \/ SaveRow(r)

Next == Live \/ Restart

Spec == Init /\ [][Next]_vars

-----------------------------------------------------------------------------
\* Nothing is being handled: what the page then shows, it shows until something happens.
Quiet == updates = {} /\ \A r \in Requests : req[r].pc = "idle"

\* Types, the bound on updates, and that a refresh saves chats only in its last phase.
TypeOK ==
    /\ order \in [Pairs -> 0..MaxOrder]
    /\ loaded \in [Lists -> SUBSET Chats]
    /\ updates \subseteq Updates /\ Cardinality(updates) <= MaxUpdates
    /\ rows \in [Pairs -> {NoRow} \union 0..MaxOrder]
    /\ req \in [Requests -> [pc: {"idle", "delete", "load", "get", "save"}, list: Lists \union {NoList}, chats: SUBSET Chats]]
    /\ \A r \in Requests : req[r].chats # {} <=> req[r].pc = "save"
    /\ cut \subseteq Pairs /\ may \in [Pairs -> SUBSET (0..MaxOrder)]

\* However updates, refreshes and deletions of rows interleave, a chat that TDLib has
\* loaded in a list has its row once all is handled, unless its row was left out by a reload
\* that ended early or at its limit, by a folder that does not name it, or by a failed write.
MissingHasCause ==
    Quiet => \A l \in Lists : \A c \in loaded[l] : rows[<<c, l>>] = NoRow => <<c, l>> \in cut

\* Once all is handled, a row has the order TDLib gave the chat last, or one whose update was still in
\* flight when TDLib gave that (handlers are not ordered), or one that was there when a write of
\* these failed, or none as a refresh or UpdateChatAddedToList wrote it since: an order that was
\* replaced earlier never comes back.
OrderHasCause ==
    Quiet => \A l \in Lists : \A c \in loaded[l] :
        /\ order[<<c, l>>] \in may[<<c, l>>]
        /\ rows[<<c, l>>] \in {NoRow} \union may[<<c, l>>]

\* "load chats ok, chat list updated will be received asynchronous": with MongoDB and TDLib
\* up, no folders, and lists shorter than the limit, a refreshed list is complete again once
\* the updates are handled.
LoadedAreListed ==
    Quiet => \A l \in Lists : \A c \in loaded[l] : rows[<<c, l>>] # NoRow
=============================================================================

---------------------------- MODULE ChatListsProofs ----------------------------
(***************************************************************************)
(* ChatLists and ChatPage for any chats, lists, requests and bounds: the   *)
(* types, MissingHasCause, OrderHasCause and PageHasCause.                 *)
(*                                                                         *)
(* The mirror's properties speak of the moments when nothing is handled;   *)
(* IInv says what holds in between: a missing row has an update or a       *)
(* refresh that is going to write it; a position in flight is one its row  *)
(* may end with, and so is TDLib's own order; and a row with an order it   *)
(* may not end with is still going to be written.  The page leaves the     *)
(* mirror a mirror, so that all this holds beside pages too.               *)
(***************************************************************************)
EXTENDS ChatPage, FiniteSetTheorems, TLAPS

TOrder == order \in [Pairs -> 0..MaxOrder]
TLoaded == loaded \in [Lists -> SUBSET Chats]
OnePlace(u) == u.kind = "added" => \E pl \in Lists \X (0..MaxOrder) : u.places = {pl}
TUpdates == updates \subseteq Updates /\ \A u \in updates : OnePlace(u)
TRows == rows \in [Pairs -> Int]
TReq == /\ req \in [Requests -> [pc: {"idle", "delete", "load", "get", "save"},
                                 list: Lists \union {NoList}, chats: SUBSET Chats]]
        /\ \A r \in Requests : req[r].pc # "idle" => req[r].list \in Lists
TMay == may \in [Pairs -> SUBSET Int]
Types == TOrder /\ TLoaded /\ TUpdates /\ TRows /\ TReq

\* A refresh that is past its deletion and has the row still to write.
WillSave(r, p) ==
    /\ req[r].list = p[2]
    /\ req[r].pc \in {"load", "get"} \/ (req[r].pc = "save" /\ p[1] \in req[r].chats)

\* A missing row is going to be written, or was left out.
Covered ==
    \A l \in Lists : \A c \in loaded[l] :
        rows[<<c, l>>] = NoRow =>
            \/ <<c, l>> \in cut
            \/ \E u \in updates : Writes(u, <<c, l>>)
            \/ \E r \in Requests : WillSave(r, <<c, l>>)

\* A row may end with any position of it in flight.
Carried ==
    \A u \in updates : PlacesChat(u) => \A pl \in u.places : pl[2] \in may[<<u.chat, pl[1]>>]

\* It may end with TDLib's own order, and one that holds another order than these is about to be written.
Fresh ==
    \A l \in Lists : \A c \in loaded[l] :
        /\ order[<<c, l>>] \in may[<<c, l>>]
        /\ rows[<<c, l>>] \in {NoRow} \union may[<<c, l>>] \/ InFlight(<<c, l>>)

IInv == Types /\ TMay /\ Covered /\ Carried /\ Fresh

-----------------------------------------------------------------------------
LEMMA ZeroIsNone == 0 \in 0..MaxOrder
BY BoundsAssumption

\* What SaveChatPosition(p, o, byPlace) does to a row, whether it succeeds or fails.
LEMMA SavedRow ==
    ASSUME TRows, NEW p \in Pairs, NEW o \in 0..MaxOrder, NEW b \in BOOLEAN, SaveChatPosition(p, o, b)
    PROVE  /\ rows' \in [Pairs -> Int]
           /\ \A q \in Pairs : q # p => rows'[q] = rows[q]
           /\ \A q \in cut : q = p \/ q \in cut'
           /\ rows'[p] = NoRow => p \in cut'
<1>1. o \in Int /\ o # NoRow
  BY BoundsAssumption DEF NoRow
<1>2. CASE rows' = [rows EXCEPT ![p] = o] /\ cut' = cut \ {p}
  BY <1>1, <1>2 DEF TRows
<1>3. CASE UNCHANGED rows /\ cut' = IF rows[p] = NoRow THEN cut \union {p} ELSE cut
  BY <1>3 DEF TRows
<1> QED
  BY <1>2, <1>3 DEF SaveChatPosition

\* Whether it succeeds or fails, a row it leaves with an order that is not its own update's
\* may end with it, and no row loses an order it may end with.
LEMMA SavedMay ==
    ASSUME TRows, TMay, NEW p \in Pairs, NEW o \in 0..MaxOrder, NEW b \in BOOLEAN, SaveChatPosition(p, o, b)
    PROVE  /\ TMay'
           /\ \A q \in Pairs : may[q] \subseteq may'[q]
           /\ \/ rows'[p] \in {NoRow} \union may'[p]
              \/ b /\ rows'[p] = o
              \/ ~b /\ rows'[p] = rows[p]
<1>1. ASSUME NEW orders \in SUBSET Int, MayEnd(p, orders)
      PROVE  /\ TMay' /\ \A q \in Pairs : may[q] \subseteq may'[q]
             /\ orders \subseteq {NoRow} \union may'[p]
  BY <1>1 DEF MayEnd, TMay
<1>2. CASE rows' = [rows EXCEPT ![p] = o] /\ MayEnd(p, IF b THEN {} ELSE {o})
  <2>1. (IF b THEN {} ELSE {o}) \in SUBSET Int /\ rows'[p] = o
    BY <1>2, BoundsAssumption DEF TRows
  <2> QED
    BY <1>1, <1>2, <2>1
<1>3. CASE UNCHANGED rows /\ MayEnd(p, IF b THEN {rows[p]} ELSE {})
  <2>1. (IF b THEN {rows[p]} ELSE {}) \in SUBSET Int
    BY DEF TRows
  <2> QED
    BY <1>1, <1>3, <2>1
<1> QED
  BY <1>2, <1>3 DEF SaveChatPosition

\* An update that is posted is added to those in flight.
LEMMA PostGrows ==
    ASSUME NEW new, Post(new), TUpdates, \A u \in new : u \in Updates /\ OnePlace(u)
    PROVE  updates' = updates \union new /\ TUpdates'
BY DEF Post, TUpdates

\* The number of an update is one of the copies.
LEMMA CopyExists == ASSUME NEW kind, NEW c, NEW places PROVE Copy(kind, c, places) \in Copies
<1> DEFINE used == {u.copy : u \in {v \in updates : v.kind = kind /\ v.chat = c /\ v.places \intersect places # {}}}
<1>1. Copies # {}
  BY BoundsAssumption DEF Copies
<1>2. \E k \in Copies : k \notin used \/ Copies \subseteq used
  BY <1>1
<1> HIDE DEF used
<1>3. (CHOOSE k \in Copies : k \notin used \/ Copies \subseteq used) \in Copies
  BY <1>2
<1> QED
  BY <1>3 DEF Copy, used

\* The updates TDLib sends are updates.
LEMMA Sent ==
    ASSUME NEW c \in Chats, NEW l \in Lists, NEW o \in 0..MaxOrder
    PROVE  /\ Position(c, l, o) \in Updates /\ OnePlace(Position(c, l, o)) /\ Writes(Position(c, l, o), <<c, l>>)
           /\ Added(c, l) \in Updates /\ OnePlace(Added(c, l)) /\ Writes(Added(c, l), <<c, l>>)
           /\ PlacesChat(Position(c, l, o)) /\ ~PlacesChat(Added(c, l))
BY CopyExists, BoundsAssumption DEF Position, Added, Update, Updates, Places, OnePlace, Writes, PlacesChat
LEMMA SentWithMessage ==
    ASSUME NEW c \in Chats, NEW in \in SUBSET Lists, NEW o \in 0..MaxOrder
    PROVE  LET u == Update("placed", c, {<<l, o>> : l \in in})
           IN  u \in Updates /\ OnePlace(u) /\ PlacesChat(u) /\ \A l \in in : Writes(u, <<c, l>>)
<1>1. {<<l, o>> : l \in in} \in SUBSET (Lists \X (0..MaxOrder))
  OBVIOUS
<1> DEFINE places == {<<l, o>> : l \in in}
<1>2. \A l \in in : \E pl \in places : pl[1] = l
  <2> TAKE l \in in
  <2>1. <<l, o>> \in places /\ <<l, o>>[1] = l
    OBVIOUS
  <2> QED
    BY <2>1
<1> HIDE DEF places
<1>3. /\ Update("placed", c, places) \in Updates
      /\ OnePlace(Update("placed", c, places))
      /\ PlacesChat(Update("placed", c, places))
  BY <1>1, CopyExists DEF places, Update, Updates, Places, OnePlace, PlacesChat
<1>4. \A l \in in : Writes(Update("placed", c, places), <<c, l>>)
  BY <1>2 DEF Update, Writes
<1> QED
  BY <1>3, <1>4 DEF places

\* What one step of TDLib posts.
LEMMA MovePosts ==
    ASSUME NEW c \in Chats, NEW l \in Lists, Move(c, l) \/ Join(c, l) \/ Leave(c, l), TUpdates
    PROVE  /\ TUpdates'
           /\ \E o \in 0..MaxOrder :
               /\ order' = [order EXCEPT ![<<c, l>>] = o]
               /\ \E new \in SUBSET {Position(c, l, o), Added(c, l)} :
                    Post(new) /\ updates' = updates \union new /\ Position(c, l, o) \in new
<1>1. CASE Move(c, l)
  <2> PICK o \in Orders : order' = [order EXCEPT ![<<c, l>>] = o] /\ Post({Position(c, l, o)})
    BY <1>1 DEF Move
  <2>1. o \in 0..MaxOrder
    BY BoundsAssumption DEF Orders
  <2> QED
    BY <2>1, Sent, PostGrows
<1>2. CASE Join(c, l)
  <2> PICK o \in Orders : order' = [order EXCEPT ![<<c, l>>] = o] /\ Post({Added(c, l), Position(c, l, o)})
    BY <1>2 DEF Join
  <2>1. o \in 0..MaxOrder
    BY BoundsAssumption DEF Orders
  <2>2. Post({Added(c, l), Position(c, l, o)}) /\ updates' = updates \union {Added(c, l), Position(c, l, o)}
    BY PostGrows, Sent, <2>1
  <2>3. {Added(c, l), Position(c, l, o)} \in SUBSET {Position(c, l, o), Added(c, l)}
    OBVIOUS
  <2>4. TUpdates'
    BY <2>1, <2>2, Sent, PostGrows
  <2> QED
    BY <2>1, <2>2, <2>3, <2>4
<1>3. CASE Leave(c, l)
  <2>1. order' = [order EXCEPT ![<<c, l>>] = 0] /\ Post({Position(c, l, 0)})
    BY <1>3 DEF Leave
  <2> QED
    BY <2>1, Sent, ZeroIsNone, PostGrows
<1> QED
  BY <1>1, <1>2, <1>3
LEMMA NewMessagePosts ==
    ASSUME NEW c \in Chats, NewMessage(c), TUpdates
    PROVE  /\ TUpdates'
           /\ TOrder => TOrder'
           /\ \E o \in 0..MaxOrder, in \in SUBSET Lists, u \in Updates :
               /\ u = Update("placed", c, {<<l, o>> : l \in in})
               /\ order' = [p \in Pairs |-> IF p[1] = c /\ p[2] \in in THEN o ELSE order[p]]
               /\ loaded' = [l \in Lists |-> IF l \in in THEN loaded[l] \union {c} ELSE loaded[l]]
               /\ Post({u}) /\ updates' = updates \union {u}
               /\ PlacesChat(u) /\ \A l \in in : Writes(u, <<c, l>>)
<1> DEFINE in == {l \in Lists : order[<<c, l>>] > 0}
<1> PICK o \in Orders :
       /\ order' = [p \in Pairs |-> IF p[1] = c /\ p[2] \in in THEN o ELSE order[p]]
       /\ Post({Update("placed", c, {<<l, o>> : l \in in})})
  BY DEF NewMessage
<1>1. loaded' = [l \in Lists |-> IF l \in in THEN loaded[l] \union {c} ELSE loaded[l]]
  BY DEF NewMessage
<1>2. o \in 0..MaxOrder /\ in \in SUBSET Lists
  BY BoundsAssumption DEF Orders
<1> HIDE DEF in
<1> DEFINE u == Update("placed", c, {<<l, o>> : l \in in})
<1>3. u \in Updates /\ OnePlace(u) /\ PlacesChat(u) /\ \A l \in in : Writes(u, <<c, l>>)
  BY <1>2, SentWithMessage
<1>4. updates' = updates \union {u} /\ TUpdates'
  BY <1>3, PostGrows
<1>5. TOrder => TOrder'
  <2>1. \A p \in Pairs : TOrder => (IF p[1] = c /\ p[2] \in in THEN o ELSE order[p]) \in 0..MaxOrder
    BY <1>2 DEF TOrder
  <2> QED
    BY <2>1 DEF TOrder
<1> QED
  BY <1>1, <1>2, <1>3, <1>4, <1>5
LEMMA LoadPosts ==
    ASSUME Types, NEW r \in Requests, LoadOk(r)
    PROVE  /\ TUpdates'
           /\ req[r].list \in Lists
           /\ \E new \in SUBSET Chats, sent \in SUBSET Updates :
               /\ sent = {Position(c, req[r].list, order[<<c, req[r].list>>]) : c \in new}
               /\ loaded' = [loaded EXCEPT ![req[r].list] = @ \union new]
               /\ Post(sent) /\ updates' = updates \union sent
<1> DEFINE l == req[r].list
<1>1. l \in Lists
  BY DEF Types, TReq, LoadOk
<1> PICK new \in SUBSET (Members(l) \ loaded[l]) :
       /\ loaded' = [loaded EXCEPT ![l] = @ \union new]
       /\ Post({Position(c, l, order[<<c, l>>]) : c \in new})
  BY DEF LoadOk
<1>2. new \in SUBSET Chats
  BY DEF Members
<1>3. \A c \in new : order[<<c, l>>] \in 0..MaxOrder
  BY <1>1, <1>2 DEF Types, TOrder, Pairs
<1> HIDE DEF l
<1> DEFINE sent == {Position(c, l, order[<<c, l>>]) : c \in new}
<1>4. \A u \in sent : u \in Updates /\ OnePlace(u)
  BY <1>1, <1>2, <1>3, Sent
<1>5. updates' = updates \union sent /\ TUpdates'
  BY <1>4, PostGrows DEF Types
<1>6. sent \in SUBSET Updates
  BY <1>4
<1> QED
  BY <1>1, <1>2, <1>5, <1>6 DEF l

\* A row may end with what is in flight for it once a post touches it; the others stay as they were.
LEMMA PostMay ==
    ASSUME NEW new, Post(new), NEW p \in Pairs
    PROVE  IF \E u \in new : PlacesChat(u) /\ Writes(u, p)
           THEN may'[p] = OrdersIn(updates', p)
           ELSE may'[p] = may[p]
BY DEF Post
LEMMA PostMayType == ASSUME NEW new, Post(new), TMay PROVE TMay'
<1>1. \A p : OrdersIn(updates', p) \in SUBSET Int
  BY BoundsAssumption DEF OrdersIn
<1> QED
  BY <1>1 DEF Post, TMay

\* The handler that saves one place of an update leaves the others in flight.
LEMMA PlacesLeft ==
    ASSUME TUpdates, NEW u \in updates, NEW pl \in u.places,
           updates' = (updates \ {u}) \union
                         (IF u.places \ {pl} = {} THEN {} ELSE {[u EXCEPT !.places = u.places \ {pl}]}),
           NEW p \in Pairs, p # <<u.chat, pl[1]>>,
           NEW v \in updates, Writes(v, p)
    PROVE  \E w \in updates' : Writes(w, p) /\ (PlacesChat(v) => PlacesChat(w))
<1>1. CASE v # u
  BY <1>1
<1>2. CASE v = u
  <2>1. PICK pm \in u.places : pm[1] = p[2]
    BY <1>2 DEF Writes
  <2>2. u.chat = p[1] /\ p = <<p[1], p[2]>>
    BY <1>2 DEF Writes, Pairs
  <2>3. pm # pl
    BY <2>1, <2>2
  <2>4. [u EXCEPT !.places = u.places \ {pl}] \in updates'
    BY <2>1, <2>3
  <2>5. Writes([u EXCEPT !.places = u.places \ {pl}], p)
    BY <2>1, <2>2, <2>3 DEF Writes, TUpdates, Updates, Places
  <2>6. PlacesChat(u) => PlacesChat([u EXCEPT !.places = u.places \ {pl}])
    BY DEF PlacesChat, TUpdates, Updates, Places
  <2> QED
    BY <1>2, <2>4, <2>5, <2>6
<1> QED
  BY <1>1, <1>2

\* The initial states satisfy the invariant.
LEMMA InitIInv == Init => IInv
<1> SUFFICES ASSUME Init PROVE IInv
  OBVIOUS
<1>1. Types
  BY BoundsAssumption DEF Init, Types, TOrder, TLoaded, TUpdates, TRows, TReq, Idle, NoRow
<1>2. Covered /\ Carried /\ Fresh /\ TMay
  BY BoundsAssumption DEF Init, Covered, Carried, Fresh, TMay
<1> QED
  BY <1>1, <1>2 DEF IInv

\* Types.
LEMMA TypesStep == Types /\ [Next]_vars => Types'
<1> SUFFICES ASSUME Types, [Next]_vars PROVE Types'
  OBVIOUS
<1> USE DEF Types, TOrder, TLoaded, TRows, TReq
<1>1. ASSUME NEW c \in Chats, NEW l \in Lists, Move(c, l) \/ Join(c, l) \/ Leave(c, l) PROVE Types'
  <2>1. TUpdates' /\ TOrder'
    BY <1>1, MovePosts DEF Pairs
  <2>2. TLoaded' /\ UNCHANGED <<rows, req>>
    BY <1>1 DEF Move, Join, Leave
  <2> QED
    BY <2>1, <2>2
<1>2. ASSUME NEW c \in Chats, NewMessage(c) PROVE Types'
  <2>1. TUpdates' /\ TOrder'
    BY <1>2, NewMessagePosts
  <2>2. TLoaded'
    BY <1>2 DEF NewMessage
  <2> QED
    BY <1>2, <2>1, <2>2 DEF NewMessage
<1> USE DEF TUpdates, Updates, Places, OnePlace
<1>3. ASSUME NEW u \in updates, HandlePlaces(u) PROVE Types'
  <2> PICK pl \in u.places :
         /\ SaveChatPosition(<<u.chat, pl[1]>>, pl[2], TRUE)
         /\ updates' = (updates \ {u}) \union
                (IF u.places \ {pl} = {} THEN {} ELSE {[u EXCEPT !.places = u.places \ {pl}]})
    BY <1>3 DEF HandlePlaces
  <2>1. rows' \in [Pairs -> Int]
    BY SavedRow DEF Pairs
  <2> QED
    BY <1>3, <2>1 DEF HandlePlaces
<1>4. ASSUME NEW u \in updates, HandleAdded(u) PROVE Types'
  <2> PICK pl \in u.places : SaveChatPosition(<<u.chat, pl[1]>>, 0, FALSE)
    BY <1>4 DEF HandleAdded
  <2>1. rows' \in [Pairs -> Int]
    BY SavedRow, ZeroIsNone DEF Pairs
  <2> QED
    BY <1>4, <2>1 DEF HandleAdded
<1>5. ASSUME NEW l \in Folders, SaveChatFolder(l) PROVE Types'
  BY <1>5 DEF SaveChatFolder, NoRow
<1>6. ASSUME NEW r \in Requests, NEW l \in Lists, Refresh(r, l) PROVE Types'
  BY <1>6 DEF Refresh
<1>7. ASSUME NEW r \in Requests, DeleteRows(r) \/ DeleteFails(r) PROVE Types'
  <2>1. TRows'
    BY <1>7 DEF DeleteRows, DeleteFails, GiveUp, NoRow
  <2>2. CASE DeleteRows(r)
    BY <2>1, <2>2 DEF DeleteRows
  <2>3. CASE DeleteFails(r)
    <3>1. CASE GiveUp(r)
      BY <2>1, <3>1 DEF GiveUp, Idle
    <3>2. CASE req' = [req EXCEPT ![r].pc = "load"] /\ UNCHANGED <<order, loaded, updates, ghosts>>
      BY <2>1, <2>3, <3>2 DEF DeleteFails
    <3> QED
      BY <2>3, <3>1, <3>2 DEF DeleteFails
  <2> QED
    BY <1>7, <2>2, <2>3
<1>8. ASSUME NEW r \in Requests, LoadOk(r) PROVE Types'
  <2>1. PICK new \in SUBSET Chats : loaded' = [loaded EXCEPT ![req[r].list] = @ \union new]
    BY <1>8, LoadPosts
  <2>2. TUpdates'
    BY <1>8, LoadPosts
  <2> QED
    BY <1>8, <2>1, <2>2 DEF LoadOk, Idle
<1>9. ASSUME NEW r \in Requests, LoadNotFound(r) \/ LoadFails(r) \/ GetFails(r) PROVE Types'
  BY <1>9 DEF LoadNotFound, LoadFails, GetFails, GiveUp, Idle
<1>10. ASSUME NEW r \in Requests, GetChats(r) PROVE Types'
  <2> req[r].list \in Lists
    BY <1>10 DEF GetChats
  <2> PICK first \in SUBSET loaded[req[r].list] :
         req' = [req EXCEPT ![r] = IF first = {} THEN Idle
                                        ELSE [pc |-> "save", list |-> req[r].list, chats |-> first]]
    BY <1>10 DEF GetChats
  <2>1. first \subseteq Chats
    OBVIOUS
  <2>2. CASE first = {}
    BY <1>10, <2>2 DEF GetChats, Idle
  <2>3. CASE first # {}
    <3>1. req' = [req EXCEPT ![r] = [pc |-> "save", list |-> req[r].list, chats |-> first]]
      BY <2>3
    <3> QED
      BY <1>10, <2>1, <3>1 DEF GetChats
  <2> QED
    BY <2>2, <2>3
<1>11. ASSUME NEW r \in Requests, SaveRow(r) PROVE Types'
  <2> PICK c \in req[r].chats :
         /\ SaveChatPosition(<<c, req[r].list>>, 0, FALSE)
         /\ req' = [req EXCEPT ![r] = IF req[r].chats \ {c} = {} THEN Idle
                                        ELSE [@ EXCEPT !.chats = req[r].chats \ {c}]]
    BY <1>11 DEF SaveRow
  <2>1. rows' \in [Pairs -> Int]
    BY <1>11, SavedRow, ZeroIsNone DEF Pairs, SaveRow
  <2>2. TReq'
    BY <1>11 DEF Idle, SaveRow
  <2> QED
    BY <1>11, <2>1, <2>2 DEF SaveRow
<1>12. CASE Restart
  BY <1>12 DEF Restart, Idle
<1>13. CASE UNCHANGED vars
  BY <1>13 DEF vars
<1> QED
  BY <1>1, <1>2, <1>3, <1>4, <1>5, <1>6, <1>7, <1>8, <1>9, <1>10, <1>11, <1>12, <1>13 DEF Next, Live

-----------------------------------------------------------------------------
\* A missing row stays covered.
LEMMA CoveredStep == Types /\ Covered /\ [Next]_vars => Covered'
<1> SUFFICES ASSUME Types, Covered, [Next]_vars,
                    NEW l \in Lists', NEW c \in loaded'[l], rows'[<<c, l>>] = NoRow
             PROVE  \/ <<c, l>> \in cut'
                    \/ \E u \in updates' : Writes(u, <<c, l>>)
                    \/ \E r \in Requests' : WillSave(r, <<c, l>>)'
  BY DEF Covered, Writes
<1> DEFINE p == <<c, l>>
           Goal == \/ p \in cut'
                   \/ \E u \in updates' : Writes(u, p)
                   \/ \E r \in Requests : WillSave(r, p)'
<1> USE DEF Types, TOrder, TLoaded, TRows, TReq
<1>a. c \in Chats /\ p \in Pairs
  BY TypesStep DEF Pairs
<1>b. ASSUME c \in loaded[l], rows[p] = NoRow, updates \subseteq updates', UNCHANGED <<req, cut>> PROVE Goal
  BY <1>b DEF Covered, WillSave
<1>1. ASSUME NEW d \in Chats, NEW m \in Lists, Move(d, m) \/ Join(d, m) \/ Leave(d, m) PROVE Goal
  <2>1. updates \subseteq updates' /\ UNCHANGED <<rows, req, cut>>
    BY <1>1, MovePosts DEF Move, Join, Leave
  <2>2. CASE c \in loaded[l]
    BY <1>b, <2>1, <2>2
  <2>3. CASE c \notin loaded[l]
    <3>1. c = d /\ l = m
      BY <1>1, <2>3 DEF Move, Join, Leave
    <3>2. \E u \in updates' : Writes(u, p)
      BY <1>1, <3>1, MovePosts, Sent
    <3> QED
      BY <3>2
  <2> QED
    BY <2>2, <2>3
<1>2. ASSUME NEW d \in Chats, NewMessage(d) PROVE Goal
  <2>1. PICK in \in SUBSET Lists, u \in Updates :
           /\ loaded' = [k \in Lists |-> IF k \in in THEN loaded[k] \union {d} ELSE loaded[k]]
           /\ updates' = updates \union {u} /\ \A k \in in : Writes(u, <<d, k>>)
    BY <1>2, NewMessagePosts
  <2>2. CASE c \in loaded[l]
    BY <1>2, <1>b, <2>1, <2>2 DEF NewMessage
  <2>3. CASE c \notin loaded[l]
    <3>1. c = d /\ l \in in
      BY <2>1, <2>3
    <3> QED
      BY <2>1, <3>1
  <2> QED
    BY <2>2, <2>3
<1>3. ASSUME NEW u \in updates, HandlePlaces(u) PROVE Goal
  <2> PICK pl \in u.places :
         /\ SaveChatPosition(<<u.chat, pl[1]>>, pl[2], TRUE)
         /\ updates' = (updates \ {u}) \union
                (IF u.places \ {pl} = {} THEN {} ELSE {[u EXCEPT !.places = u.places \ {pl}]})
    BY <1>3 DEF HandlePlaces
  <2>1. <<u.chat, pl[1]>> \in Pairs /\ pl[2] \in 0..MaxOrder
    BY DEF Pairs, TUpdates, Updates, Places
  <2>2. /\ \A q \in Pairs : q # <<u.chat, pl[1]>> => rows'[q] = rows[q]
        /\ \A q \in cut : q = <<u.chat, pl[1]>> \/ q \in cut'
        /\ rows'[<<u.chat, pl[1]>>] = NoRow => <<u.chat, pl[1]>> \in cut'
    BY <2>1, SavedRow
  <2>3. CASE p = <<u.chat, pl[1]>>
    BY <2>2, <2>3
  <2>4. CASE p # <<u.chat, pl[1]>>
    <3>1. UNCHANGED <<loaded, req>> /\ rows[p] = NoRow
      BY <1>3, <1>a, <2>2, <2>4 DEF HandlePlaces
    <3>2. ASSUME NEW v \in updates, Writes(v, p) PROVE \E w \in updates' : Writes(w, p)
      BY <1>a, <2>4, <3>2, PlacesLeft
    <3> QED
      BY <2>2, <2>4, <3>1, <3>2 DEF Covered, WillSave
  <2> QED
    BY <2>3, <2>4
<1>4. ASSUME NEW u \in updates, HandleAdded(u) PROVE Goal
  <2> PICK pl \in u.places : SaveChatPosition(<<u.chat, pl[1]>>, 0, FALSE)
    BY <1>4 DEF HandleAdded
  <2>1. <<u.chat, pl[1]>> \in Pairs
    BY DEF Pairs, TUpdates, Updates, Places
  <2>2. /\ \A q \in Pairs : q # <<u.chat, pl[1]>> => rows'[q] = rows[q]
        /\ \A q \in cut : q = <<u.chat, pl[1]>> \/ q \in cut'
        /\ rows'[<<u.chat, pl[1]>>] = NoRow => <<u.chat, pl[1]>> \in cut'
    BY <2>1, SavedRow, ZeroIsNone
  <2>3. CASE p = <<u.chat, pl[1]>>
    BY <2>2, <2>3
  <2>4. CASE p # <<u.chat, pl[1]>>
    <3>1. UNCHANGED <<loaded, req>> /\ rows[p] = NoRow /\ updates' = updates \ {u}
      BY <1>4, <1>a, <2>2, <2>4 DEF HandleAdded
    <3>2. ~Writes(u, p)
      BY <1>4, <2>4 DEF HandleAdded, TUpdates, OnePlace, Writes
    <3> QED
      BY <2>2, <2>4, <3>1, <3>2 DEF Covered, WillSave
  <2> QED
    BY <2>3, <2>4
<1>5. ASSUME NEW m \in Folders, SaveChatFolder(m) PROVE Goal
  <2>1. UNCHANGED <<loaded, updates, req>>
    BY <1>5 DEF SaveChatFolder
  <2>2. (rows[p] = NoRow /\ cut \subseteq cut') \/ p \in cut'
    BY <1>5, <1>a DEF SaveChatFolder
  <2> QED
    BY <2>1, <2>2 DEF Covered, WillSave
<1>6. ASSUME NEW r \in Requests, NEW m \in Lists, Refresh(r, m) PROVE Goal
  <2>1. UNCHANGED <<loaded, updates, rows, cut>> /\ \A q \in Requests : WillSave(q, p) => WillSave(q, p)'
    BY <1>6 DEF Refresh, WillSave
  <2> QED
    BY <2>1 DEF Covered
\* Requests that end, and their rows.
<1>b7. ASSUME NEW r \in Requests, req[r].pc # "idle", GiveUp(r), l = req[r].list PROVE Goal
  BY <1>b7, <1>a DEF GiveUp, RowsOf
<1>b8. ASSUME NEW r \in Requests, req' = [req EXCEPT ![r] = Idle] \/ req' = [req EXCEPT ![r].pc = "load"],
              l # req[r].list, c \in loaded[l], rows[p] = NoRow, updates \subseteq updates', cut \subseteq cut'
       PROVE  Goal
  <2>1. \A q \in Requests : WillSave(q, p) => WillSave(q, p)'
    BY <1>b8 DEF WillSave
  <2> QED
    BY <1>b8, <2>1 DEF Covered
<1>7. ASSUME NEW r \in Requests, DeleteRows(r) PROVE Goal
  <2>1. CASE l = req[r].list
    BY <1>7, <2>1 DEF DeleteRows, WillSave
  <2>2. CASE l # req[r].list
    BY <1>7, <1>a, <1>b8, <2>2 DEF DeleteRows, RowsOf, ghosts
  <2> QED
    BY <2>1, <2>2
<1>8. ASSUME NEW r \in Requests, DeleteFails(r) \/ LoadFails(r) \/ GetFails(r) PROVE Goal
  <2>1. CASE l = req[r].list
    <3>1. CASE GiveUp(r)
      BY <1>8, <1>b7, <2>1, <3>1 DEF DeleteFails, LoadFails, GetFails
    <3>2. CASE req' = [req EXCEPT ![r].pc = "load"]
      BY <2>1, <3>2 DEF WillSave
    <3> QED
      BY <1>8, <3>1, <3>2 DEF DeleteFails, LoadFails, GetFails
  <2>2. CASE l # req[r].list
    <3>1. rows[p] = NoRow
      BY <1>8, <1>a, <2>2 DEF DeleteFails, LoadFails, GetFails, RowsOf
    <3> QED
      BY <1>8, <1>b8, <2>2, <3>1 DEF DeleteFails, LoadFails, GetFails, GiveUp, ghosts
  <2> QED
    BY <2>1, <2>2
<1>9. ASSUME NEW r \in Requests, LoadOk(r) PROVE Goal
  <2> DEFINE m == req[r].list
  <2>1. PICK new \in SUBSET Chats :
           /\ loaded' = [loaded EXCEPT ![m] = @ \union new]
           /\ updates' = updates \union {Position(d, m, order[<<d, m>>]) : d \in new}
    BY <1>9, LoadPosts
  <2>2. CASE l = m /\ c \in loaded[l]
    BY <1>9, <1>a, <2>2 DEF LoadOk, RowsOf
  <2>3. CASE l = m /\ c \notin loaded[l]
    <3>1. c \in new
      BY <2>1, <2>3
    <3>2. Position(c, l, order[<<c, l>>]) \in updates'
      BY <2>1, <2>3, <3>1
    <3>3. Writes(Position(c, l, order[<<c, l>>]), p)
      BY DEF Position, Update, Writes
    <3> QED
      BY <3>2, <3>3
  <2>4. CASE l # m
    <3>1. c \in loaded[l]
      BY <2>1, <2>4
    <3> QED
      BY <1>9, <1>b8, <2>1, <2>4, <3>1 DEF LoadOk
  <2> QED
    BY <2>2, <2>3, <2>4
<1>10. ASSUME NEW r \in Requests, LoadNotFound(r) PROVE Goal
  <2>1. \A q \in Requests : WillSave(q, p) => WillSave(q, p)'
    BY <1>10 DEF LoadNotFound, WillSave
  <2> QED
    BY <1>10, <2>1 DEF LoadNotFound, ghosts, Covered
<1>11. ASSUME NEW r \in Requests, GetChats(r) PROVE Goal
  <2> DEFINE m == req[r].list
  <2> PICK first \in SUBSET loaded[m] :
         /\ req' = [req EXCEPT ![r] = IF first = {} THEN Idle ELSE [pc |-> "save", list |-> m, chats |-> first]]
         /\ cut' = cut \union {q \in RowsOf(m) : q[1] \in loaded[m] \ first /\ rows[q] = NoRow}
    BY <1>11 DEF GetChats
  <2>1. c \in loaded[l] /\ rows[p] = NoRow /\ updates' = updates
    BY <1>11 DEF GetChats
  <2>2. CASE l = m /\ c \in first
    <3>1. req'[r] = [pc |-> "save", list |-> m, chats |-> first]
      BY <2>2
    <3> QED
      BY <2>2, <3>1 DEF WillSave
  <2>3. CASE l = m /\ c \notin first
    BY <1>a, <2>1, <2>3 DEF RowsOf
  <2>4. CASE l # m
    <3>1. \A q \in Requests : WillSave(q, p) => q # r /\ WillSave(q, p)'
      BY <2>4 DEF WillSave
    <3> QED
      BY <2>1, <3>1 DEF Covered
  <2> QED
    BY <2>2, <2>3, <2>4
<1>12. ASSUME NEW r \in Requests, SaveRow(r) PROVE Goal
  <2> DEFINE m == req[r].list
  <2> PICK d \in req[r].chats :
         /\ SaveChatPosition(<<d, m>>, 0, FALSE)
         /\ req' = [req EXCEPT ![r] = IF req[r].chats \ {d} = {} THEN Idle
                                        ELSE [@ EXCEPT !.chats = req[r].chats \ {d}]]
    BY <1>12 DEF SaveRow
  <2>1. <<d, m>> \in Pairs
    BY <1>12 DEF Pairs, SaveRow
  <2>2. /\ \A q \in Pairs : q # <<d, m>> => rows'[q] = rows[q]
        /\ \A q \in cut : q = <<d, m>> \/ q \in cut'
        /\ rows'[<<d, m>>] = NoRow => <<d, m>> \in cut'
    BY <2>1, SavedRow, ZeroIsNone
  <2>3. CASE p = <<d, m>>
    BY <2>2, <2>3
  <2>4. CASE p # <<d, m>>
    <3>1. UNCHANGED <<loaded, updates>> /\ rows[p] = NoRow
      BY <1>12, <1>a, <2>2, <2>4 DEF SaveRow
    <3>2. \A q \in Requests : q # r => req'[q] = req[q]
      OBVIOUS
    <3>3. WillSave(r, p) => WillSave(r, p)'
      <4> SUFFICES ASSUME WillSave(r, p) PROVE WillSave(r, p)'
        OBVIOUS
      <4>1. l = m /\ c \in req[r].chats \ {d}
        BY <1>12, <2>4 DEF WillSave, SaveRow
      <4>2. req'[r] = [req[r] EXCEPT !.chats = req[r].chats \ {d}]
        BY <4>1
      <4> QED
        BY <1>12, <4>1, <4>2 DEF WillSave, SaveRow
    <3> QED
      BY <2>2, <2>4, <3>1, <3>2, <3>3 DEF Covered, WillSave
  <2> QED
    BY <2>3, <2>4
<1>13. CASE Restart
  BY <1>13 DEF Restart
<1>14. CASE UNCHANGED vars
  BY <1>14, <1>b DEF vars
<1>15. Goal
  BY <1>1, <1>2, <1>3, <1>4, <1>5, <1>6, <1>7, <1>8, <1>9, <1>10, <1>11, <1>12, <1>13, <1>14 DEF Next, Live
<1> QED
  BY <1>15

-----------------------------------------------------------------------------
\* The steps that post nothing: no row loses an order it may end with.
MayGrows == TMay' /\ \A q \in Pairs : may[q] \subseteq may'[q]

LEMMA SamesMay == TMay /\ UNCHANGED may => MayGrows
BY DEF TMay, MayGrows

LEMMA HandledMay ==
    ASSUME Types, TMay, NEW u \in updates, HandlePlaces(u) \/ HandleAdded(u)
    PROVE  MayGrows
<1>1. PICK pl \in u.places : \E o \in {0, pl[2]}, b \in BOOLEAN : SaveChatPosition(<<u.chat, pl[1]>>, o, b)
  BY DEF HandlePlaces, HandleAdded
<1>2. PICK o \in {0, pl[2]}, b \in BOOLEAN : SaveChatPosition(<<u.chat, pl[1]>>, o, b)
  BY <1>1
<1>3. <<u.chat, pl[1]>> \in Pairs /\ o \in 0..MaxOrder
  BY BoundsAssumption DEF Pairs, Types, TUpdates, Updates, Places
<1> QED
  BY <1>2, <1>3, SavedMay DEF Types, MayGrows

LEMMA SaveRowMay ==
    ASSUME Types, TMay, NEW r \in Requests, SaveRow(r)
    PROVE  MayGrows
<1>1. PICK c \in req[r].chats : SaveChatPosition(<<c, req[r].list>>, 0, FALSE)
  BY DEF SaveRow
<1>2. <<c, req[r].list>> \in Pairs /\ 0 \in 0..MaxOrder
  BY BoundsAssumption DEF SaveRow, Pairs, Types, TReq
<1> QED
  BY <1>1, <1>2, SavedMay DEF Types, MayGrows

\* Every step posts updates, handles one, ends the program, or leaves the updates as they are.
LEMMA MaySteps ==
    ASSUME Types, TMay, [Next]_vars
    PROVE  \/ \E new : Post(new)
           \/ \E v \in updates : HandlePlaces(v) \/ HandleAdded(v)
           \/ Restart
           \/ updates' = updates /\ MayGrows
<1>1. CASE UNCHANGED vars
  BY <1>1, SamesMay DEF vars
<1>2. CASE Live
  <2>1. CASE \E c \in Chats, l \in Lists : Move(c, l) \/ Join(c, l) \/ Leave(c, l)
    <3>1. \E new : Post(new)
      BY <2>1 DEF Move, Join, Leave
    <3> QED
      BY <3>1
  <2>2. CASE \E c \in Chats : NewMessage(c)
    <3> PICK c \in Chats : NewMessage(c)
      BY <2>2
    <3>1. PICK in \in {{l \in Lists : order[<<c, l>>] > 0}}, o \in Orders :
             Post({Update("placed", c, {<<l, o>> : l \in in})})
      BY DEF NewMessage
    <3> QED
      BY <3>1
  <2>3. CASE \E r \in Requests : LoadOk(r)
    BY <2>3, LoadPosts
  <2>4. CASE \E v \in updates : HandlePlaces(v) \/ HandleAdded(v)
    BY <2>4
  <2>5. CASE \/ \E l \in Folders : SaveChatFolder(l)
             \/ \E r \in Requests, l \in Lists : Refresh(r, l)
    BY <2>5, SamesMay DEF SaveChatFolder, Refresh
  <2>6. CASE \E r \in Requests : \/ DeleteRows(r) \/ DeleteFails(r) \/ LoadNotFound(r)
                                 \/ LoadFails(r) \/ GetChats(r) \/ GetFails(r)
    BY <2>6, SamesMay DEF DeleteRows, DeleteFails, LoadNotFound, LoadFails, GetChats, GetFails, GiveUp, ghosts
  <2>7. CASE \E r \in Requests : SaveRow(r)
    BY <2>7, SaveRowMay DEF SaveRow
  <2> QED
    BY <1>2, <2>1, <2>2, <2>3, <2>4, <2>5, <2>6, <2>7 DEF Live
<1> QED
  BY <1>1, <1>2 DEF Next

LEMMA MayStep == Types /\ TMay /\ [Next]_vars => TMay'
<1>1. Restart => TMay'
  BY DEF Restart, TMay
<1> QED
  BY <1>1, MaySteps, HandledMay, PostMayType DEF MayGrows

\* A position in flight stays one its row may end with: a post that touches the row counts it in.
LEMMA CarriedStep == Types /\ TMay /\ Carried /\ [Next]_vars => Carried'
<1> SUFFICES ASSUME Types, TMay, Carried, [Next]_vars,
                    NEW u \in updates', PlacesChat(u), NEW pl \in u.places
             PROVE  pl[2] \in may'[<<u.chat, pl[1]>>]
  BY DEF Carried, PlacesChat
<1> DEFINE p == <<u.chat, pl[1]>>
           Goal == pl[2] \in may'[p]
<1>a. p \in Pairs /\ pl = <<p[2], pl[2]>> /\ pl[2] \in 0..MaxOrder
  BY TypesStep DEF Types, TUpdates, Updates, Places, Pairs
<1>1. ASSUME NEW new, Post(new) PROVE Goal
  <2>1. CASE \E v \in new : PlacesChat(v) /\ Writes(v, p)
    <3>1. may'[p] = OrdersIn(updates', p)
      BY <1>a, <1>1, <2>1, PostMay
    <3>2. pl[2] \in OrdersIn(updates', p)
      BY <1>a DEF OrdersIn
    <3> QED
      BY <3>1, <3>2
  <2>2. CASE ~(\E v \in new : PlacesChat(v) /\ Writes(v, p))
    <3>1. u \in updates
      BY <1>1, <2>2 DEF Post, Writes
    <3>2. may'[p] = may[p]
      BY <1>a, <1>1, <2>2, PostMay
    <3> QED
      BY <3>1, <3>2 DEF Carried
  <2> QED
    BY <2>1, <2>2
<1>2. ASSUME u \in updates, MayGrows PROVE Goal
  BY <1>2, <1>a DEF MayGrows, Carried
<1>3. ASSUME NEW v \in updates, HandlePlaces(v) \/ HandleAdded(v) PROVE Goal
  <2>1. CASE u \in updates
    BY <1>2, <1>3, <2>1, HandledMay
  <2>2. CASE u \notin updates
    <3>1. PICK pm \in v.places : u = [v EXCEPT !.places = v.places \ {pm}]
      BY <1>3, <2>2 DEF HandlePlaces, HandleAdded
    <3>2. PlacesChat(v) /\ u.chat = v.chat /\ pl \in v.places
      BY <3>1 DEF PlacesChat, Types, TUpdates, Updates, Places
    <3> QED
      BY <1>3, <1>a, <3>2, HandledMay DEF MayGrows, Carried
  <2> QED
    BY <2>1, <2>2
<1>4. CASE updates' = updates /\ MayGrows
  BY <1>2, <1>4
<1>5. CASE Restart
  BY <1>5 DEF Restart
<1> QED
  BY <1>1, <1>3, <1>4, <1>5, MaySteps

-----------------------------------------------------------------------------
\* TDLib's order stays one the row may end with, and a row with another stays about to be written.
LEMMA FreshStep == Types /\ TMay /\ Carried /\ Fresh /\ [Next]_vars => Fresh'
<1> SUFFICES ASSUME Types, TMay, Carried, Fresh, [Next]_vars, NEW l \in Lists', NEW c \in loaded'[l]
             PROVE  /\ order'[<<c, l>>] \in may'[<<c, l>>]
                    /\ rows'[<<c, l>>] \in {NoRow} \union may'[<<c, l>>] \/ InFlight(<<c, l>>)'
  BY DEF Fresh
<1> DEFINE p == <<c, l>>
           Goal == /\ order'[p] \in may'[p]
                   /\ rows'[p] \in {NoRow} \union may'[p] \/ InFlight(p)'
<1>a. c \in Chats /\ p \in Pairs /\ order'[p] \in 0..MaxOrder
  BY TypesStep DEF Types, TLoaded, TOrder, Pairs
\* A step that leaves the chat loaded, its order as it is, and its updates in flight.
<1>b. ASSUME c \in loaded[l], order'[p] = order[p], rows'[p] \in {NoRow, rows[p]} \union may'[p],
             may[p] \subseteq may'[p], InFlight(p) => InFlight(p)'
      PROVE  Goal
  BY <1>b DEF Fresh
\* A post of the chat's place in the list.
<1>c. ASSUME NEW new, Post(new), NEW v \in new, PlacesChat(v), v.chat = c, <<l, order'[p]>> \in v.places
      PROVE  Goal
  <2>1. Writes(v, p) /\ v \in updates'
    BY <1>c DEF Writes, Post
  <2>2. may'[p] = OrdersIn(updates', p)
    BY <1>a, <1>c, <2>1, PostMay
  <2>3. order'[p] \in OrdersIn(updates', p)
    BY <1>a, <1>c, <2>1 DEF OrdersIn
  <2>4. InFlight(p)'
    BY <1>c, <2>1 DEF InFlight, PlacesChat, Writes
  <2> QED
    BY <2>2, <2>3, <2>4
<1>d. ASSUME NEW new, Post(new), ~(\E v \in new : PlacesChat(v) /\ Writes(v, p))
      PROVE  may'[p] = may[p] /\ (InFlight(p) => InFlight(p)')
  BY <1>a, <1>d, PostMay DEF Post, InFlight, PlacesChat, Writes
<1>e. MayGrows => may[p] \subseteq may'[p]
  BY <1>a DEF MayGrows
<1>1. ASSUME NEW d \in Chats, NEW m \in Lists, Move(d, m) \/ Join(d, m) \/ Leave(d, m) PROVE Goal
  <2>0. PICK o \in 0..MaxOrder :
           /\ order' = [order EXCEPT ![<<d, m>>] = o]
           /\ \E new \in SUBSET {Position(d, m, o), Added(d, m)} :
                 Post(new) /\ updates' = updates \union new /\ Position(d, m, o) \in new
    BY <1>1, MovePosts DEF Types
  <2>1. PICK new \in SUBSET {Position(d, m, o), Added(d, m)} :
           /\ order' = [order EXCEPT ![<<d, m>>] = o]
           /\ Post(new) /\ updates' = updates \union new /\ Position(d, m, o) \in new
           /\ new \subseteq {Position(d, m, o), Added(d, m)}
    BY <2>0
  <2>2. CASE p = <<d, m>>
    <3>1. order'[p] = o
      BY <1>a, <2>1, <2>2 DEF Types, TOrder
    <3>2. Position(d, m, o).chat = c /\ <<l, o>> \in Position(d, m, o).places /\ PlacesChat(Position(d, m, o))
      BY <2>2 DEF Position, Update, PlacesChat
    <3> QED
      BY <1>c, <2>1, <3>1, <3>2
  <2>3. CASE p # <<d, m>>
    <3>1. ~(\E v \in new : PlacesChat(v) /\ Writes(v, p))
      BY <2>1, <2>3 DEF Position, Added, Update, PlacesChat, Writes
    <3>2. c \in loaded[l] /\ UNCHANGED rows
      BY <1>1, <2>3 DEF Move, Join, Leave, Types, TLoaded
    <3>3. order'[p] = order[p]
      BY <1>a, <2>1, <2>3 DEF Types, TOrder
    <3> QED
      BY <1>b, <1>d, <2>1, <3>1, <3>2, <3>3
  <2> QED
    BY <2>2, <2>3
<1>2. ASSUME NEW d \in Chats, NewMessage(d) PROVE Goal
  <2>1. PICK o \in 0..MaxOrder, in \in SUBSET Lists, m \in Updates :
           /\ m = Update("placed", d, {<<k, o>> : k \in in})
           /\ order' = [q \in Pairs |-> IF q[1] = d /\ q[2] \in in THEN o ELSE order[q]]
           /\ loaded' = [k \in Lists |-> IF k \in in THEN loaded[k] \union {d} ELSE loaded[k]]
           /\ Post({m}) /\ updates' = updates \union {m}
           /\ PlacesChat(m) /\ \A k \in in : Writes(m, <<d, k>>)
    BY <1>2, NewMessagePosts DEF Types
  <2>2. CASE c = d /\ l \in in
    <3>1. order'[p] = o
      BY <1>a, <2>1, <2>2
    <3>2. m.chat = d /\ m.places = {<<k, o>> : k \in in}
      BY <2>1 DEF Update
    <3>3. <<l, o>> \in {<<k, o>> : k \in in}
      BY <2>2
    <3>4. Post({m}) /\ PlacesChat(m)
      BY <2>1
    <3> HIDE DEF Goal
    <3> QED
      BY <1>c, <2>2, <3>1, <3>2, <3>3, <3>4
  <2>3. CASE ~(c = d /\ l \in in)
    <3>1. ~Writes(m, p)
      <4> SUFFICES ASSUME Writes(m, p) PROVE FALSE
        OBVIOUS
      <4>1. m.chat = c /\ \E pl \in m.places : pl[1] = l
        BY DEF Writes
      <4>2. m.chat = d /\ m.places = {<<k, o>> : k \in in}
        BY <2>1 DEF Update
      <4>3. PICK k \in in : <<k, o>>[1] = l
        BY <4>1, <4>2
      <4> QED
        BY <2>3, <4>1, <4>2, <4>3
    <3>2. c \in loaded[l] /\ UNCHANGED rows
      BY <1>2, <2>1, <2>3 DEF NewMessage, Types, TLoaded
    <3>3. order'[p] = order[p]
      BY <1>a, <2>1, <2>3
    <3>4. ~(\E v \in {m} : PlacesChat(v) /\ Writes(v, p))
      BY <3>1
    <3>5. Post({m})
      BY <2>1
    <3>6. may'[p] = may[p] /\ (InFlight(p) => InFlight(p)')
      BY <1>d, <3>4, <3>5
    <3> QED
      BY <1>b, <3>2, <3>3, <3>6
  <2> QED
    BY <2>2, <2>3
<1>3. ASSUME NEW u \in updates, HandlePlaces(u) PROVE Goal
  <2> PICK pl \in u.places :
         /\ SaveChatPosition(<<u.chat, pl[1]>>, pl[2], TRUE)
         /\ updates' = (updates \ {u}) \union
                (IF u.places \ {pl} = {} THEN {} ELSE {[u EXCEPT !.places = u.places \ {pl}]})
    BY <1>3 DEF HandlePlaces
  <2>1. <<u.chat, pl[1]>> \in Pairs /\ pl[2] \in 0..MaxOrder
    BY DEF Pairs, Types, TUpdates, Updates, Places
  <2>2. /\ \A q \in Pairs : q # <<u.chat, pl[1]>> => rows'[q] = rows[q]
        /\ may[p] \subseteq may'[p]
        /\ \/ rows'[<<u.chat, pl[1]>>] \in {NoRow} \union may'[<<u.chat, pl[1]>>]
           \/ rows'[<<u.chat, pl[1]>>] = pl[2]
    BY <1>a, <2>1, SavedRow, SavedMay DEF Types
  <2>3. c \in loaded[l] /\ UNCHANGED order /\ PlacesChat(u)
    BY <1>3 DEF HandlePlaces
  <2>4. CASE p = <<u.chat, pl[1]>>
    <3>1. order[p] \in may[p] /\ pl[2] \in may[p]
      BY <2>3, <2>4 DEF Fresh, Carried
    <3> QED
      BY <2>2, <2>3, <2>4, <3>1
  <2>5. CASE p # <<u.chat, pl[1]>>
    <3>1. ASSUME NEW v \in updates, PlacesChat(v), Writes(v, p) PROVE InFlight(p)'
      <4>1. PICK w \in updates' : Writes(w, p) /\ PlacesChat(w)
        BY <1>a, <2>5, <3>1, PlacesLeft DEF Types
      <4> QED
        BY <4>1 DEF InFlight, PlacesChat, Writes
    <3>2. InFlight(p) => InFlight(p)'
      BY <3>1 DEF InFlight
    <3> QED
      BY <1>a, <1>b, <2>2, <2>3, <2>5, <3>2
  <2> QED
    BY <2>4, <2>5
<1>4. ASSUME NEW u \in updates, HandleAdded(u) PROVE Goal
  <2> PICK pl \in u.places : SaveChatPosition(<<u.chat, pl[1]>>, 0, FALSE)
    BY <1>4 DEF HandleAdded
  <2>1. <<u.chat, pl[1]>> \in Pairs
    BY DEF Pairs, Types, TUpdates, Updates, Places
  <2>2. rows'[p] \in {NoRow, rows[p]} \union may'[p] /\ may[p] \subseteq may'[p]
    BY <1>a, <2>1, ZeroIsNone, SavedRow, SavedMay DEF Types
  <2>3. InFlight(p) => InFlight(p)'
    BY <1>4 DEF HandleAdded, InFlight, PlacesChat, Writes
  <2> QED
    BY <1>4, <1>b, <2>2, <2>3 DEF HandleAdded
<1>5. ASSUME NEW m \in Folders, SaveChatFolder(m) PROVE Goal
  BY <1>5, <1>a, <1>b, <1>e, SamesMay DEF SaveChatFolder, InFlight, PlacesChat, Writes
<1>6. ASSUME NEW r \in Requests, NEW m \in Lists, Refresh(r, m) PROVE Goal
  BY <1>6, <1>b, <1>e, SamesMay DEF Refresh, InFlight, PlacesChat, Writes
<1>7. ASSUME NEW r \in Requests, DeleteRows(r) \/ DeleteFails(r) PROVE Goal
  <2>1. rows'[p] \in {NoRow, rows[p]}
    BY <1>7, <1>a DEF DeleteRows, DeleteFails
  <2> QED
    BY <1>7, <1>b, <1>e, <2>1, SamesMay DEF DeleteRows, DeleteFails, GiveUp, ghosts, InFlight, PlacesChat, Writes
<1>8. ASSUME NEW r \in Requests, LoadNotFound(r) \/ LoadFails(r) \/ GetChats(r) \/ GetFails(r) PROVE Goal
  BY <1>8, <1>b, <1>e, SamesMay DEF LoadNotFound, LoadFails, GetChats, GetFails, GiveUp, ghosts, InFlight, PlacesChat, Writes
<1>9. ASSUME NEW r \in Requests, LoadOk(r) PROVE Goal
  <2> DEFINE m == req[r].list
  <2>1. PICK new \in SUBSET Chats, sent \in SUBSET Updates :
           /\ sent = {Position(d, m, order[<<d, m>>]) : d \in new}
           /\ loaded' = [loaded EXCEPT ![m] = @ \union new]
           /\ Post(sent) /\ updates' = updates \union sent
    BY <1>9, LoadPosts
  <2>2. UNCHANGED <<order, rows>>
    BY <1>9 DEF LoadOk
  <2>3. CASE l = m /\ c \in new
    <3>1. Position(c, l, order[p]) \in sent
      BY <2>1, <2>3
    <3>2. PlacesChat(Position(c, l, order[p])) /\ Position(c, l, order[p]).chat = c
          /\ <<l, order[p]>> \in Position(c, l, order[p]).places
      BY DEF Position, Update, PlacesChat
    <3> QED
      BY <1>c, <2>1, <2>2, <3>1, <3>2
  <2>4. CASE ~(l = m /\ c \in new)
    <3>1. \A d \in new : ~Writes(Position(d, m, order[<<d, m>>]), p)
      BY <2>4 DEF Position, Update, Writes
    <3>2. c \in loaded[l]
      BY <2>1, <2>4 DEF Types, TLoaded
    <3>3. ~(\E v \in sent : PlacesChat(v) /\ Writes(v, p))
      BY <2>1, <3>1
    <3> QED
      BY <1>b, <1>d, <2>1, <2>2, <3>2, <3>3
  <2> QED
    BY <2>3, <2>4
<1>10. ASSUME NEW r \in Requests, SaveRow(r) PROVE Goal
  <2> PICK d \in req[r].chats : SaveChatPosition(<<d, req[r].list>>, 0, FALSE)
    BY <1>10 DEF SaveRow
  <2>1. <<d, req[r].list>> \in Pairs
    BY <1>10 DEF SaveRow, Pairs, Types, TReq
  <2>2. rows'[p] \in {NoRow, rows[p]} \union may'[p] /\ may[p] \subseteq may'[p]
    BY <1>a, <2>1, ZeroIsNone, SavedRow, SavedMay DEF Types
  <2> QED
    BY <1>10, <1>b, <2>2 DEF SaveRow, InFlight, PlacesChat, Writes
<1>11. CASE Restart
  BY <1>11 DEF Restart
<1>12. CASE UNCHANGED vars
  BY <1>12, <1>b, <1>e, SamesMay DEF vars, InFlight, PlacesChat, Writes
<1>13. Goal
  BY <1>1, <1>2, <1>3, <1>4, <1>5, <1>6, <1>7, <1>8, <1>9, <1>10, <1>11, <1>12 DEF Next, Live
<1> QED
  BY <1>13

-----------------------------------------------------------------------------
\* The invariant holds of every behaviour of the mirror.
THEOREM Invariance == Spec => []IInv
<1>1. Init => IInv
  BY InitIInv
<1>2. IInv /\ [Next]_vars => IInv'
  BY TypesStep, MayStep, CoveredStep, CarriedStep, FreshStep DEF IInv
<1> QED
  BY <1>1, <1>2, PTL DEF Spec

\* Once all updates and refreshes are handled, a chat TDLib has loaded in a list has its row
\* in MongoDB, unless a reload, a folder or a failed write left it out.
THEOREM RowsAreComplete == Spec => []MissingHasCause
<1>1. IInv => MissingHasCause
  <2> SUFFICES ASSUME IInv, Quiet, NEW l \in Lists, NEW c \in loaded[l], rows[<<c, l>>] = NoRow
               PROVE  <<c, l>> \in cut
    BY DEF MissingHasCause
  <2>1. \A r \in Requests : ~WillSave(r, <<c, l>>)
    BY DEF Quiet, WillSave
  <2> QED
    BY <2>1 DEF IInv, Covered, Quiet
<1> QED
  BY <1>1, Invariance, PTL

\* Once all updates and refreshes are handled, a row has TDLib's order for the chat, an order
\* whose update was still in flight when TDLib sent that, or one that was there when a write of these failed, or
\* none as a refresh or UpdateChatAddedToList wrote it since: an order replaced earlier never comes back.
THEOREM OrdersAreTdlibs == Spec => []OrderHasCause
<1>1. IInv => OrderHasCause
  BY DEF IInv, Fresh, OrderHasCause, Quiet, InFlight
<1> QED
  BY <1>1, Invariance, PTL

-----------------------------------------------------------------------------
\* Types again, sharp: the bound on the updates in flight is one on a finite set, and
\* every order is TDLib's or none.
Typed == TypeOK /\ IsFiniteSet(updates)

\* Updates are posted within the bound.
LEMMA PostTyped ==
    ASSUME NEW new \in SUBSET Updates, IsFiniteSet(new), Post(new), Typed
    PROVE  /\ updates' \subseteq Updates /\ Cardinality(updates') <= MaxUpdates
           /\ IsFiniteSet(updates') /\ may' \in [Pairs -> SUBSET (0..MaxOrder)]
<1>1. updates' = updates \union new /\ Cardinality(updates') <= MaxUpdates
  BY DEF Post
<1>2. IsFiniteSet(updates')
  BY <1>1, FS_Union DEF Typed
<1>3. may' \in [Pairs -> SUBSET (0..MaxOrder)]
  <2>1. \A p : OrdersIn(updates', p) \in SUBSET (0..MaxOrder)
    BY DEF OrdersIn
  <2> QED
    BY <2>1 DEF Post, Typed, TypeOK
<1> QED
  BY <1>1, <1>2, <1>3 DEF Typed, TypeOK

\* An update is handled: it goes, or what is left of it takes its place.
LEMMA HandledTyped ==
    ASSUME Typed, NEW u \in updates, NEW rest,
           rest \in SUBSET Updates, rest = {} \/ \E v \in Updates : rest = {v},
           updates' = (updates \ {u}) \union rest
    PROVE  updates' \subseteq Updates /\ Cardinality(updates') <= MaxUpdates /\ IsFiniteSet(updates')
<1> DEFINE others == updates \ {u}
<1>1. /\ IsFiniteSet(others) /\ Cardinality(others) = Cardinality(updates) - 1
      /\ Cardinality(updates) \in Nat /\ Cardinality(updates) <= MaxUpdates /\ MaxUpdates \in Nat
  BY FS_RemoveElement, FS_CardinalityType, BoundsAssumption DEF Typed, TypeOK
<1>2. updates' \subseteq Updates
  BY DEF Typed, TypeOK
<1> HIDE DEF others
<1>3. CASE rest = {}
  <2>1. updates' = others
    BY <1>3 DEF others
  <2>2. IsFiniteSet(updates') /\ Cardinality(updates') = Cardinality(updates) - 1
    BY <1>1, <2>1
  <2> QED
    BY <1>1, <1>2, <2>2
<1>4. CASE \E v \in Updates : rest = {v}
  <2> PICK v \in Updates : rest = {v}
    BY <1>4
  <2>1. updates' = others \union {v}
    BY DEF others
  <2>2. IsFiniteSet(updates') /\ Cardinality(updates') <= Cardinality(others) + 1
    BY <1>1, <2>1, FS_AddElement
  <2> QED
    BY <1>1, <1>2, <2>1, <2>2, FS_CardinalityType
<1> QED
  BY <1>3, <1>4

\* What SaveChatPosition leaves of the types.
LEMMA SavedTyped ==
    ASSUME Typed, NEW p \in Pairs, NEW o \in 0..MaxOrder, NEW byPlace \in BOOLEAN, SaveChatPosition(p, o, byPlace)
    PROVE  /\ rows' \in [Pairs -> {NoRow} \union 0..MaxOrder] /\ cut' \subseteq Pairs
           /\ may' \in [Pairs -> SUBSET (0..MaxOrder)]
<1>1. rows' \in [Pairs -> {NoRow} \union 0..MaxOrder] /\ cut' \subseteq Pairs
  BY DEF SaveChatPosition, Typed, TypeOK
<1>2. PICK orders \in SUBSET ({NoRow} \union 0..MaxOrder) : MayEnd(p, orders)
  <2>1. {} \in SUBSET ({NoRow} \union 0..MaxOrder) /\ {o} \in SUBSET ({NoRow} \union 0..MaxOrder)
        /\ {rows[p]} \in SUBSET ({NoRow} \union 0..MaxOrder)
    BY DEF Typed, TypeOK
  <2>2. MayEnd(p, {}) \/ MayEnd(p, {o}) \/ MayEnd(p, {rows[p]})
    BY DEF SaveChatPosition
  <2> QED
    BY <2>1, <2>2
<1>3. may' \in [Pairs -> SUBSET (0..MaxOrder)]
  BY <1>2 DEF MayEnd, Typed, TypeOK
<1> QED
  BY <1>1, <1>3

\* A refresh is at some phase of its list, and has chats to save exactly in the last.
ReqType == [pc: {"idle", "delete", "load", "get", "save"}, list: Lists \union {NoList}, chats: SUBSET Chats]
ReqOK(q) == q \in ReqType /\ (q.chats # {} <=> q.pc = "save")
ReqsOK == req \in [Requests -> ReqType] /\ \A r \in Requests : ReqOK(req[r])

LEMMA ReqMoves ==
    ASSUME ReqsOK, NEW r \in Requests, NEW q, ReqOK(q), req' = [req EXCEPT ![r] = q]
    PROVE  ReqsOK'
BY DEF ReqsOK, ReqOK

LEMMA IdleOK == ReqOK(Idle)
BY DEF ReqOK, ReqType, Idle

LEMMA TypedStep == Types /\ Typed /\ [Next]_vars => Typed'
<1> SUFFICES ASSUME Types, Typed, [Next]_vars PROVE Typed'
  OBVIOUS
<1> DEFINE Rest == /\ updates' \subseteq Updates /\ Cardinality(updates') <= MaxUpdates
                   /\ IsFiniteSet(updates') /\ may' \in [Pairs -> SUBSET (0..MaxOrder)]
           Places0 == order' \in [Pairs -> 0..MaxOrder] /\ loaded' \in [Lists -> SUBSET Chats]
           Rows0 == rows' \in [Pairs -> {NoRow} \union 0..MaxOrder] /\ cut' \subseteq Pairs
<1>0. /\ ReqsOK
      /\ Places0 /\ Rest /\ Rows0 /\ ReqsOK' => Typed'
      /\ UNCHANGED <<order, loaded>> => Places0
      /\ UNCHANGED <<rows, cut>> => Rows0
      /\ UNCHANGED <<updates, may>> => Rest
      /\ UNCHANGED req => ReqsOK'
      /\ NoRow \in {NoRow} \union 0..MaxOrder /\ 0 \in 0..MaxOrder /\ Orders \subseteq 0..MaxOrder
  BY BoundsAssumption DEF Typed, TypeOK, ReqsOK, ReqOK, ReqType, Orders
<1>1. ASSUME NEW c \in Chats, NEW l \in Lists, Move(c, l) \/ Join(c, l) \/ Leave(c, l) PROVE Typed'
  <2>1. PICK o \in 0..MaxOrder :
           /\ order' = [order EXCEPT ![<<c, l>>] = o]
           /\ Post({Position(c, l, o)}) \/ Post({Added(c, l), Position(c, l, o)})
    BY <1>0, <1>1 DEF Move, Join, Leave
  <2>2. {Position(c, l, o)} \subseteq Updates /\ {Added(c, l), Position(c, l, o)} \subseteq Updates
    BY <1>0, CopyExists DEF Position, Added, Update, Updates, Places
  <2>3. IsFiniteSet({Position(c, l, o)}) /\ IsFiniteSet({Added(c, l), Position(c, l, o)})
    <3>1. \A x : IsFiniteSet({x})
      BY FS_Singleton
    <3>2. ASSUME NEW x, NEW y PROVE IsFiniteSet({x, y})
      <4>1. IsFiniteSet({x} \union {y})
        BY <3>1, FS_AddElement
      <4>2. {x, y} = {x} \union {y}
        OBVIOUS
      <4> QED
        BY <4>1, <4>2
    <3> QED
      BY <3>1, <3>2
  <2>4. Rest
    BY <2>1, <2>2, <2>3, PostTyped
  <2>5. Places0
    <3>1. loaded' = [loaded EXCEPT ![l] = @ \union {c}] \/ loaded' = [loaded EXCEPT ![l] = @ \ {c}]
      BY <1>1 DEF Move, Join, Leave
    <3>2. loaded' \in [Lists -> SUBSET Chats]
      BY <3>1 DEF Typed, TypeOK
    <3> QED
      BY <2>1, <3>2 DEF Typed, TypeOK
  <2>6. UNCHANGED <<rows, req, cut>>
    BY <1>1 DEF Move, Join, Leave
  <2> QED
    BY <1>0, <2>4, <2>5, <2>6
<1>2. ASSUME NEW c \in Chats, NewMessage(c) PROVE Typed'
  <2> DEFINE in == {l \in Lists : order[<<c, l>>] > 0}
  <2>1. PICK o \in 0..MaxOrder :
           /\ order' = [p \in Pairs |-> IF p[1] = c /\ p[2] \in in THEN o ELSE order[p]]
           /\ Post({Update("placed", c, {<<l, o>> : l \in in})})
    BY <1>0, <1>2 DEF NewMessage
  <2> DEFINE places == {<<l, o>> : l \in in}
  <2>2. places \in Places
    <3>1. \A l \in in : <<l, o>> \in Lists \X (0..MaxOrder)
      OBVIOUS
    <3> QED
      BY <3>1, Zenon DEF Places
  <2> HIDE DEF places
  <2>3. {Update("placed", c, places)} \subseteq Updates
    BY <2>2, CopyExists DEF Update, Updates
  <2>4. Rest
    BY <2>1, <2>3, FS_Singleton, PostTyped DEF places
  <2>5. Places0
    BY <1>2, <2>1 DEF NewMessage, Typed, TypeOK
  <2>6. UNCHANGED <<rows, req, cut>>
    BY <1>2 DEF NewMessage
  <2> QED
    BY <1>0, <2>4, <2>5, <2>6
<1>3. ASSUME NEW u \in updates, HandlePlaces(u) PROVE Typed'
  <2> PICK pl \in u.places :
         /\ SaveChatPosition(<<u.chat, pl[1]>>, pl[2], TRUE)
         /\ updates' = (updates \ {u}) \union
                (IF u.places \ {pl} = {} THEN {} ELSE {[u EXCEPT !.places = u.places \ {pl}]})
    BY <1>3 DEF HandlePlaces
  <2>1. u \in Updates /\ pl \in Lists \X (0..MaxOrder) /\ u.chat \in Chats
    BY DEF Typed, TypeOK, Updates, Places
  <2>2. [u EXCEPT !.places = u.places \ {pl}] \in Updates
    BY <2>1 DEF Updates, Places
  <2>3. <<u.chat, pl[1]>> \in Pairs /\ pl[2] \in 0..MaxOrder
    BY <2>1 DEF Pairs
  <2>4. Rows0 /\ may' \in [Pairs -> SUBSET (0..MaxOrder)]
    BY <2>3, SavedTyped
  <2>5. Rest
    <3> DEFINE rest == IF u.places \ {pl} = {} THEN {} ELSE {[u EXCEPT !.places = u.places \ {pl}]}
    <3>1. rest \in SUBSET Updates /\ (rest = {} \/ \E v \in Updates : rest = {v})
      BY <2>2
    <3>2. updates' = (updates \ {u}) \union rest
      OBVIOUS
    <3> HIDE DEF rest
    <3> QED
      BY <2>4, <3>1, <3>2, HandledTyped
  <2>6. UNCHANGED <<order, loaded, req>>
    BY <1>3 DEF HandlePlaces
  <2> QED
    BY <1>0, <2>4, <2>5, <2>6
<1>4. ASSUME NEW u \in updates, HandleAdded(u) PROVE Typed'
  <2> PICK pl \in u.places : SaveChatPosition(<<u.chat, pl[1]>>, 0, FALSE)
    BY <1>4 DEF HandleAdded
  <2>1. <<u.chat, pl[1]>> \in Pairs
    BY DEF Typed, TypeOK, Updates, Places, Pairs
  <2>2. Rows0 /\ may' \in [Pairs -> SUBSET (0..MaxOrder)]
    BY <1>0, <2>1, SavedTyped
  <2>3. Rest
    <3> DEFINE rest == {}
    <3>1. updates' = (updates \ {u}) \union rest /\ rest \in SUBSET Updates /\ rest = {}
      BY <1>4 DEF HandleAdded
    <3> HIDE DEF rest
    <3> QED
      BY <2>2, <3>1, HandledTyped
  <2>4. UNCHANGED <<order, loaded, req>>
    BY <1>4 DEF HandleAdded
  <2> QED
    BY <1>0, <2>2, <2>3, <2>4
<1>5. ASSUME NEW l \in Folders, SaveChatFolder(l) PROVE Typed'
  <2>1. Rows0
    BY <1>0, <1>5 DEF SaveChatFolder, RowsOf, Typed, TypeOK
  <2> QED
    BY <1>0, <1>5, <2>1 DEF SaveChatFolder
<1>6. ASSUME NEW r \in Requests, NEW l \in Lists, Refresh(r, l) PROVE Typed'
  <2>1. ReqOK([pc |-> "delete", list |-> l, chats |-> {}])
    BY DEF ReqOK, ReqType
  <2> QED
    BY <1>0, <1>6, <2>1, ReqMoves DEF Refresh
<1>7. ASSUME NEW r \in Requests, GiveUp(r), rows' \in [Pairs -> {NoRow} \union 0..MaxOrder] PROVE Typed'
  <2>1. Rows0
    BY <1>7 DEF GiveUp, RowsOf, Typed, TypeOK
  <2> QED
    BY <1>0, <1>7, <2>1, IdleOK, ReqMoves DEF GiveUp
<1>8. ASSUME NEW r \in Requests, DeleteRows(r) PROVE Typed'
  <2>1. Rows0
    BY <1>0, <1>8 DEF DeleteRows, ghosts, Typed, TypeOK
  <2>2. ReqOK([req[r] EXCEPT !.pc = "load"])
    BY <1>0, <1>8 DEF DeleteRows, ReqsOK, ReqOK, ReqType
  <2>3. ReqsOK'
    BY <1>0, <1>8, <2>2, ReqMoves DEF DeleteRows
  <2> QED
    BY <1>0, <1>8, <2>1, <2>3 DEF DeleteRows, ghosts
<1>9. ASSUME NEW r \in Requests, DeleteFails(r) PROVE Typed'
  <2>1. rows' \in [Pairs -> {NoRow} \union 0..MaxOrder]
    BY <1>0, <1>9 DEF DeleteFails, Typed, TypeOK
  <2>2. CASE GiveUp(r)
    BY <1>7, <2>1, <2>2
  <2>3. CASE req' = [req EXCEPT ![r].pc = "load"] /\ UNCHANGED <<order, loaded, updates, ghosts>>
    <3>1. ReqOK([req[r] EXCEPT !.pc = "load"])
      BY <1>0, <1>9 DEF DeleteFails, ReqsOK, ReqOK, ReqType
    <3>2. ReqsOK'
      BY <1>0, <2>3, <3>1, ReqMoves
    <3>3. Rows0
      BY <2>1, <2>3 DEF ghosts, Typed, TypeOK
    <3> QED
      BY <1>0, <2>3, <3>2, <3>3 DEF ghosts
  <2> QED
    BY <1>9, <2>2, <2>3 DEF DeleteFails
<1>10. ASSUME NEW r \in Requests, LoadOk(r) PROVE Typed'
  <2> DEFINE l == req[r].list
  <2>1. l \in Lists
    BY <1>10 DEF LoadOk, Types, TReq
  <2>2. PICK new \in SUBSET (Members(l) \ loaded[l]) :
           /\ loaded' = [loaded EXCEPT ![l] = @ \union new]
           /\ Post({Position(c, l, order[<<c, l>>]) : c \in new})
    BY <1>10 DEF LoadOk
  <2> HIDE DEF l
  <2>3. new \subseteq Chats /\ IsFiniteSet(new)
    <3>1. new \subseteq Chats
      BY DEF Members
    <3> QED
      BY <3>1, FS_Subset, BoundsAssumption
  <2> DEFINE f == [c \in new |-> Position(c, l, order[<<c, l>>])]
             sent == {Position(c, l, order[<<c, l>>]) : c \in new}
  <2>4. sent \in SUBSET Updates
    <3> SUFFICES ASSUME NEW c \in new PROVE Position(c, l, order[<<c, l>>]) \in Updates
      OBVIOUS
    <3>1. order[<<c, l>>] \in 0..MaxOrder
      BY <2>1, <2>3 DEF Typed, TypeOK, Pairs
    <3> QED
      BY <2>1, <2>3, <3>1, CopyExists DEF Position, Update, Updates, Places
  <2>5. IsFiniteSet(sent)
    <3>1. f \in Surjection(new, sent)
      BY DEF Surjection
    <3> HIDE DEF f, sent
    <3> QED
      BY <2>3, <3>1, FS_Surjection
  <2>6. Rest
    <3> HIDE DEF f, sent
    <3>1. Post(sent)
      BY <2>2 DEF sent
    <3> QED
      BY <2>4, <2>5, <3>1, PostTyped
  <2>7. Places0
    BY <1>10, <2>1, <2>2, <2>3 DEF LoadOk, Typed, TypeOK
  <2>8. Rows0
    BY <1>10 DEF LoadOk, RowsOf, Typed, TypeOK
  <2>9. ReqsOK'
    BY <1>0, <1>10, IdleOK, ReqMoves DEF LoadOk
  <2> QED
    BY <1>0, <2>6, <2>7, <2>8, <2>9
<1>11. ASSUME NEW r \in Requests, LoadNotFound(r) PROVE Typed'
  <2>1. ReqOK([req[r] EXCEPT !.pc = "get"])
    BY <1>0, <1>11 DEF LoadNotFound, ReqsOK, ReqOK, ReqType
  <2>2. ReqsOK'
    BY <1>0, <1>11, <2>1, ReqMoves DEF LoadNotFound
  <2> QED
    BY <1>0, <1>11, <2>2 DEF LoadNotFound, ghosts
<1>12. ASSUME NEW r \in Requests, LoadFails(r) \/ GetFails(r) PROVE Typed'
  <2>1. rows' = rows /\ GiveUp(r)
    BY <1>12 DEF LoadFails, GetFails
  <2> QED
    BY <1>7, <2>1 DEF Typed, TypeOK
<1>13. ASSUME NEW r \in Requests, GetChats(r) PROVE Typed'
  <2> DEFINE l == req[r].list
  <2>1. l \in Lists
    BY <1>13 DEF GetChats, Types, TReq
  <2>2. PICK first \in SUBSET loaded[l] :
           req' = [req EXCEPT ![r] = IF first = {} THEN Idle ELSE [pc |-> "save", list |-> l, chats |-> first]]
    BY <1>13 DEF GetChats
  <2>3. first \subseteq Chats
    BY <2>1 DEF Typed, TypeOK
  <2> HIDE DEF l
  <2>4. ReqsOK'
    <3>1. CASE first = {}
      BY <1>0, <2>2, <3>1, IdleOK, ReqMoves
    <3>2. CASE first # {}
      <4>1. ReqOK([pc |-> "save", list |-> l, chats |-> first])
        BY <2>1, <2>3, <3>2 DEF ReqOK, ReqType
      <4>2. req' = [req EXCEPT ![r] = [pc |-> "save", list |-> l, chats |-> first]]
        BY <2>2, <3>2
      <4> QED
        BY <1>0, <4>1, <4>2, ReqMoves
    <3> QED
      BY <3>1, <3>2
  <2>5. Rows0
    BY <1>13 DEF GetChats, RowsOf, Typed, TypeOK
  <2> QED
    BY <1>0, <1>13, <2>4, <2>5 DEF GetChats
<1>14. ASSUME NEW r \in Requests, SaveRow(r) PROVE Typed'
  <2> DEFINE l == req[r].list
  <2>1. l \in Lists
    BY <1>14 DEF SaveRow, Types, TReq
  <2>2. PICK c \in req[r].chats :
           /\ SaveChatPosition(<<c, l>>, 0, FALSE)
           /\ req' = [req EXCEPT ![r] = IF req[r].chats \ {c} = {} THEN Idle
                                        ELSE [@ EXCEPT !.chats = req[r].chats \ {c}]]
    BY <1>14 DEF SaveRow
  <2>3. c \in Chats
    BY DEF Types, TReq
  <2>4. Rows0 /\ may' \in [Pairs -> SUBSET (0..MaxOrder)]
    <3>1. <<c, l>> \in Pairs
      BY <2>1, <2>3 DEF Pairs
    <3> QED
      BY <1>0, <2>2, <3>1, SavedTyped
  <2>5. ReqsOK'
    <3> DEFINE rest == req[r].chats \ {c}
    <3>1. CASE rest = {}
      BY <1>0, <2>2, <3>1, IdleOK, ReqMoves
    <3>2. CASE rest # {}
      <4>1. ReqOK([req[r] EXCEPT !.chats = rest])
        BY <1>0, <1>14, <3>2 DEF SaveRow, ReqsOK, ReqOK, ReqType
      <4>2. req' = [req EXCEPT ![r] = [req[r] EXCEPT !.chats = rest]]
        BY <2>2, <3>2
      <4> HIDE DEF rest
      <4> QED
        BY <1>0, <4>1, <4>2, ReqMoves
    <3> QED
      BY <3>1, <3>2
  <2> QED
    BY <1>0, <1>14, <2>4, <2>5 DEF SaveRow, Typed, TypeOK
<1>15. CASE Restart
  <2>1. ReqsOK'
    BY <1>15, IdleOK DEF Restart, ReqsOK, ReqOK
  <2>2. Rest
    BY <1>15, FS_EmptySet, BoundsAssumption DEF Restart
  <2>3. Places0 /\ Rows0
    BY <1>15 DEF Restart, Typed, TypeOK
  <2> QED
    BY <1>0, <2>1, <2>2, <2>3
<1>16. CASE UNCHANGED vars
  BY <1>0, <1>16 DEF vars
<1> HIDE DEF Rest, Places0, Rows0
<1> QED
  BY <1>1, <1>2, <1>3, <1>4, <1>5, <1>6, <1>8, <1>9, <1>10, <1>11, <1>12, <1>13, <1>14, <1>15, <1>16 DEF Next, Live

\* The mirror's variables keep their types, a refresh has chats to save only in its last phase, and
\* no more updates are in flight than the model allows.
THEOREM MirrorTypes == Spec => []TypeOK
<1>1. Init => Typed
  <2> SUFFICES ASSUME Init PROVE Typed
    OBVIOUS
  <2>1. IsFiniteSet(updates) /\ Cardinality(updates) <= MaxUpdates
    BY FS_EmptySet, BoundsAssumption DEF Init
  <2> QED
    BY <2>1, BoundsAssumption DEF Init, Typed, TypeOK, Idle
<1>2. IInv /\ Typed /\ [Next]_vars => Typed'
  BY TypedStep DEF IInv
<1>3. Typed => TypeOK
  BY DEF Typed
<1> QED
  BY <1>1, <1>2, <1>3, Invariance, PTL DEF Spec

-----------------------------------------------------------------------------
\* Pages.

PageTypes ==
    /\ known \subseteq Pairs /\ left \subseteq Chats /\ shown \subseteq Chats
    /\ left \intersect shown = {}
    /\ step = "rows" => at \in Chats /\ at \notin left \union shown /\ view = "notAssigned"
    /\ step = "add" => list \in Lists

\* What is known of a row of the list is whether its chat is, or will be, on the page.
KnownOfList ==
    view = "list" =>
        /\ step \in {"idle", "chats"}
        /\ \A p \in known : HasRow(p) <=> p[1] \in left \union shown

\* What is known of a row in a folder is that it is not there, or that its chat is being
\* looked up and was found.
KnownOfFolders ==
    view = "notAssigned" =>
        /\ step \in {"chats", "rows"}
        /\ \A p \in known : \/ p[1] \in shown /\ ~HasRow(p)
                            \/ step = "rows" /\ p[1] = at /\ (HasRow(p) => saved)

NothingKnown ==
    /\ view \notin {"list", "notAssigned"} => known = {}
    /\ step \in {"idle", "add"} => known = {} /\ shown = {}
    /\ step = "add" => view = "inCommon"

PInv == PageTypes /\ KnownOfList /\ KnownOfFolders /\ NothingKnown

-----------------------------------------------------------------------------
LEMMA InitPInv == PageInit => PInv
BY DEF PageInit, PInv, PageTypes, KnownOfList, KnownOfFolders, NothingKnown, HasRow

LEMMA ResetPInv == Reset => PInv'
BY DEF Reset, PInv, PageTypes, KnownOfList, KnownOfFolders, NothingKnown, HasRow

\* What is known of the rows stays true while the mirror goes on.
LEMMA WatchPInv == PInv /\ Watch => PInv'
<1> SUFFICES ASSUME PInv, Watch PROVE PInv'
  OBVIOUS
<1>1. known' \subseteq known /\ \A p \in known' : HasRow(p) <=> HasRow(p)'
  BY DEF Watch
<1>2. UNCHANGED <<step, view, list, left, at, todo, saved, shown>>
  BY DEF Watch
<1>3. PageTypes'
  BY <1>1, <1>2 DEF PInv, PageTypes, Pairs
<1>4. KnownOfList'
  BY <1>1, <1>2 DEF PInv, KnownOfList, HasRow
<1>5. KnownOfFolders'
  BY <1>1, <1>2 DEF PInv, KnownOfFolders, HasRow
<1>6. NothingKnown'
  BY <1>1, <1>2 DEF PInv, NothingKnown
<1> QED
  BY <1>3, <1>4, <1>5, <1>6 DEF PInv

LEMMA GroupsPInv == PInv /\ step \in {"idle", "add"} /\ GroupsInCommon => PInv'
<1> SUFFICES ASSUME PInv, step \in {"idle", "add"}, GroupsInCommon PROVE PInv'
  OBVIOUS
<1>1. CASE Reset
  BY <1>1, ResetPInv
<1>2. CASE ~Reset
  BY <1>2 DEF GroupsInCommon, PInv, PageTypes, KnownOfList, KnownOfFolders, NothingKnown, HasRow
<1> QED
  BY <1>1, <1>2

LEMMA StepPInv == PInv /\ [PageNext]_pageVars => PInv'
<1> SUFFICES ASSUME PInv, [PageNext]_pageVars PROVE PInv'
  OBVIOUS
<1> USE DEF PInv, PageTypes, KnownOfList, KnownOfFolders, NothingKnown
<1>1. CASE Live /\ Watch
  BY <1>1, WatchPInv
<1>2. CASE Restart /\ Reset
  BY <1>2, ResetPInv
<1>3. ASSUME NEW v \in LocalViews, OpenLocal(v) PROVE PInv'
  BY <1>3 DEF OpenLocal, LocalViews, HasRow
<1>4. ASSUME NEW l \in Lists, OpenList(l) PROVE PInv'
  <2>1. CASE left' = {c \in Chats : HasRow(<<c, l>>)} /\ known' = RowsOf(l)
    <3>1. rows' = rows /\ shown' = {} /\ view' = "list" /\ step' = "chats"
      BY <1>4 DEF OpenList, vars
    <3>2. \A p \in known' : p \in Pairs /\ p = <<p[1], l>> /\ p[1] \in Chats
      BY <2>1 DEF RowsOf, Pairs
    <3>3. \A p \in known' : HasRow(p)' <=> p[1] \in left'
      BY <2>1, <3>1, <3>2 DEF HasRow
    <3> QED
      BY <2>1, <3>1, <3>2, <3>3 DEF HasRow
  <2>2. CASE left' = {} /\ UNCHANGED known
    BY <1>4, <2>2 DEF OpenList, HasRow
  <2> QED
    BY <1>4, <2>1, <2>2 DEF OpenList
<1>5. CASE OpenInCommon \/ AddedAll
  BY <1>5, GroupsPInv DEF OpenInCommon, AddedAll
<1>6. CASE OwnedPanics \/ Close
  BY <1>6, ResetPInv DEF OwnedPanics, Close
<1>7. ASSUME NEW l \in Folders, PostInCommon(l) PROVE PInv'
  BY <1>7, BoundsAssumption DEF PostInCommon, HasRow
<1>8. ASSUME NEW c \in Chats, AddChat(c) PROVE PInv'
  BY <1>8 DEF AddChat, HasRow
<1>9. ASSUME NEW c \in Chats, ShowChat(c) PROVE PInv'
  <2>1. /\ rows' = rows /\ known' = known /\ step' = "chats" /\ step = "chats" /\ view' = view
        /\ left' \union shown' = left \union shown /\ view # "notAssigned"
        /\ left' \intersect shown' = {} /\ left' \subseteq Chats /\ shown' \subseteq Chats
    BY <1>9 DEF ShowChat, vars
  <2> QED
    BY <2>1 DEF HasRow
<1>10. ASSUME NEW c \in Chats, ShowSome(c) PROVE PInv'
  BY <1>10 DEF ShowSome, HasRow
<1>11. ASSUME NEW c \in Chats, LookUp(c) PROVE PInv'
  BY <1>11 DEF LookUp, HasRow, vars
<1>12. ASSUME NEW l \in Folders, ReadRows(l) PROVE PInv'
  <2>1. <<at, l>> \in Pairs
    BY <1>12, BoundsAssumption DEF ReadRows, Pairs
  <2>2. /\ rows' = rows /\ step = "rows" /\ UNCHANGED <<step, view, list, left, at, shown>>
        /\ at \notin left \union shown
    BY <1>12 DEF ReadRows, vars
  <2>3. CASE saved' = (saved \/ HasRow(<<at, l>>)) /\ known' = known \union {<<at, l>>}
    <3>1. \A p \in known' : p \in known \/ p = <<at, l>>
      BY <2>3
    <3>2. /\ saved => saved'
          /\ HasRow(<<at, l>>) => saved'
      BY <2>3, Zenon
    <3>3. \A p \in known' : HasRow(p)' <=> HasRow(p)
      BY <2>2 DEF HasRow
    <3>4. ASSUME NEW p \in known', view = "notAssigned"
          PROVE  \/ p[1] \in shown' /\ ~HasRow(p)'
                 \/ step' = "rows" /\ p[1] = at' /\ (HasRow(p)' => saved')
      <4>1. CASE p = <<at, l>>
        <5>1. HasRow(p) => saved'
          BY <4>1, <3>2, Zenon
        <5> QED
          BY <2>2, <3>3, <4>1, <5>1
      <4>2. CASE p \in known
        <5>1. CASE p[1] \in shown /\ ~HasRow(p)
          BY <2>2, <3>3, <5>1
        <5>2. CASE p[1] = at /\ (HasRow(p) => saved)
          <6>1. HasRow(p) => saved'
            BY <3>2, <5>2, Zenon
          <6> QED
            BY <2>2, <3>3, <5>2, <6>1
        <5> QED
          BY <4>2, <3>4, <5>1, <5>2
      <4> QED
        BY <3>1, <3>4, <4>1, <4>2
    <3>5. PageTypes' /\ view = "notAssigned" /\ view' = view /\ step' = "rows"
      BY <2>1, <2>2, <2>3
    <3> QED
      BY <2>2, <3>4, <3>5
  <2>4. CASE UNCHANGED <<saved, known>>
    BY <2>2, <2>4 DEF HasRow
  <2> QED
    BY <1>12, <2>3, <2>4 DEF ReadRows
<1>13. CASE Decide
  BY <1>13 DEF Decide, HasRow, vars
<1>14. CASE UNCHANGED pageVars
  BY <1>14 DEF pageVars, page, vars, HasRow
<1> QED
  BY <1>1, <1>2, <1>3, <1>4, <1>5, <1>6, <1>7, <1>8, <1>9, <1>10, <1>11, <1>12, <1>13, <1>14 DEF PageNext

-----------------------------------------------------------------------------
\* A page's own steps are the mirror's Join of a chat it adds, or nothing.
LEMMA PageStepIsMirrors == PInv /\ [PageNext]_pageVars => [Next]_vars
<1> SUFFICES ASSUME PInv, [PageNext]_pageVars PROVE [Next]_vars
  OBVIOUS
<1>1. CASE Live \/ Restart
  BY <1>1 DEF Next
<1>2. ASSUME NEW c \in Chats, AddChat(c) PROVE [Next]_vars
  <2>1. list \in Lists
    BY <1>2 DEF AddChat, PInv, PageTypes
  <2> QED
    BY <1>2, <2>1 DEF AddChat, Next, Live
<1>3. CASE UNCHANGED vars
  BY <1>3
<1>4. UNCHANGED pageVars => UNCHANGED vars
  BY DEF pageVars
<1>5. CASE PageNext
  BY <1>1, <1>2, <1>3, <1>5 DEF PageNext, OpenLocal, OpenList, OpenInCommon, AddedAll, OwnedPanics, Decide, Close,
     PostInCommon, ReadRows, ShowChat, ShowSome, LookUp
<1> QED
  BY <1>3, <1>4, <1>5

LEMMA PageInvariance == PageSpec => []PInv
<1> QED
  BY InitPInv, StepPInv, PTL DEF PageSpec

\* With pages beside it the mirror behaves as ChatLists says, and what is proved of it holds.
THEOREM PagesKeepMirror == PageSpec => Spec
<1>1. PageInit => Init
  BY DEF PageInit
<1> QED
  BY <1>1, PageStepIsMirrors, PageInvariance, PTL DEF PageSpec, Spec

\* A complete page shows what TDLib has, for every row it read with success that did not come or go
\* since and that the mirror does not lack for a stated cause.
THEOREM PagesHaveCause == PageSpec => []PageHasCause
<1>1. PInv /\ MissingHasCause => PageHasCause
  <2> SUFFICES ASSUME PInv, MissingHasCause, Complete, Quiet, NEW p \in known \ cut, p[1] \in loaded[p[2]]
               PROVE  view = "list" <=> p[1] \in shown
    BY DEF PageHasCause
  <2>1. p = <<p[1], p[2]>> /\ p[2] \in Lists
    BY DEF PInv, PageTypes, Pairs
  <2>2. HasRow(p)
    BY <2>1 DEF MissingHasCause, HasRow
  <2>3. CASE view = "list"
    BY <2>2, <2>3 DEF PInv, KnownOfList, Complete
  <2>4. CASE view = "notAssigned"
    BY <2>2, <2>4 DEF PInv, KnownOfFolders, Complete
  <2>5. CASE view \notin {"list", "notAssigned"}
    BY <2>5 DEF PInv, NothingKnown
  <2> QED
    BY <2>3, <2>4, <2>5
<1> QED
  BY <1>1, PageInvariance, PagesKeepMirror, RowsAreComplete, PTL

\* A page's variables have their types.  A chat is looked up exactly while folders are read for it,
\* and no flag of one chat is left for the next.
PageTyped ==
    /\ step \in {"idle", "add", "chats", "rows"} /\ view \in Views
    /\ list \in Lists \union {NoList}
    /\ at \in Chats \union {NoChat} /\ (step = "rows" <=> at # NoChat)
    /\ todo \subseteq Folders /\ saved \in BOOLEAN /\ (saved => step = "rows")

LEMMA ResetTyped == Reset => PageTyped'
BY DEF Reset, PageTyped, Views

LEMMA PageTypedStep == PInv /\ PageTyped /\ [PageNext]_pageVars => PageTyped'
<1> SUFFICES ASSUME PInv, PageTyped, [PageNext]_pageVars PROVE PageTyped'
  OBVIOUS
<1> USE DEF PageTyped, Views, LocalViews
<1>1. CASE Watch \/ UNCHANGED page
  BY <1>1 DEF Watch, page
<1>2. CASE Reset
  BY <1>2, ResetTyped
<1>3. ASSUME NEW v \in LocalViews, OpenLocal(v) PROVE PageTyped'
  BY <1>3 DEF OpenLocal
<1>4. ASSUME NEW l \in Lists, OpenList(l) PROVE PageTyped'
  BY <1>4 DEF OpenList
<1>5. CASE OpenInCommon \/ AddedAll
  <2>1. step # "rows" /\ GroupsInCommon
    BY <1>5 DEF OpenInCommon, AddedAll
  <2> QED
    BY <1>2, <2>1 DEF GroupsInCommon
<1>6. ASSUME NEW l \in Folders, PostInCommon(l) PROVE PageTyped'
  BY <1>6, BoundsAssumption DEF PostInCommon
<1>7. ASSUME NEW c \in Chats, AddChat(c) \/ ShowChat(c) \/ ShowSome(c) PROVE PageTyped'
  BY <1>7 DEF AddChat, ShowChat, ShowSome
<1>8. ASSUME NEW c \in Chats, LookUp(c) PROVE PageTyped'
  BY <1>8, PrivateAssumption DEF LookUp
<1>9. ASSUME NEW l \in Folders, ReadRows(l) PROVE PageTyped'
  <2>1. /\ step = "rows" /\ todo' \subseteq Folders
        /\ UNCHANGED <<step, view, list, at>>
    BY <1>9 DEF ReadRows
  <2>2. saved' \in BOOLEAN
    BY <1>9, Zenon DEF ReadRows, HasRow
  <2> QED
    BY <2>1, <2>2
<1>10. CASE Decide
  BY <1>10 DEF Decide
<1> QED
  BY <1>1, <1>2, <1>3, <1>4, <1>5, <1>6, <1>7, <1>8, <1>9, <1>10 DEF PageNext, OwnedPanics, Close, pageVars

\* Whatever goes on in the mirror, a page's variables keep their types, a chat is on the page, still to
\* come or being looked up but never two of these, and the flag of a chat found in a folder ends with it.
THEOREM PagesAreTyped == PageSpec => []PageTypeOK
<1>1. PageInit => PageTyped
  BY DEF PageInit, PageTyped, Views
<1>2. PInv /\ PageTyped => PageTypeOK
  BY PrivateAssumption DEF PInv, PageTypes, PageTyped, PageTypeOK
<1> QED
  BY <1>1, <1>2, PageTypedStep, PageInvariance, PTL DEF PageSpec
================================================================================

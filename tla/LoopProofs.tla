------------------------------- MODULE LoopProofs -------------------------------
(***************************************************************************)
(* The two loops with one goroutine each, which share nothing.             *)
(*                                                                         *)
(* The deletion by pattern, for any chat, page size and limit: the scan    *)
(* passes no match by, and what is deleted matched when it was read.  Both *)
(* are inductive with the types: a page is the newest part of what is      *)
(* before lastId, and the messages the loop reaches of it are its newest   *)
(* part again, so all from the new lastId up were read, on this page or    *)
(* before.                                                                 *)
(*                                                                         *)
(* The rendering of a text, for any text and entities: every character is  *)
(* shown, and once where the code's one remembered entity is enough.  At   *)
(* every entity there is an outermost one, the last that was not nested:   *)
(* prevEntityEnd is its end, wrapped its characters, and all between it    *)
(* and the entity the loop is at are within it.  The text is shown up to   *)
(* that end, or up to where that entity begins if it waits for one of its  *)
(* range.                                                                  *)
(***************************************************************************)
EXTENDS PatternDelete, RenderText, FiniteSetTheorems, TLAPS

-----------------------------------------------------------------------------
\* The deletion.

Types ==
    /\ newest \in 0..MaxId
    /\ text \in [Ids -> Texts \union {"none"}]
    /\ \A m \in Ids : m > newest => text[m] = "none"
    /\ pc \in {"scan", "delete", "done"}
    /\ lastId \in 0..MaxId /\ messageIds \subseteq Ids /\ top \in 0..newest
    /\ touched \subseteq Ids

\* What Arrive adds is above top, and so never a match that was passed by.
IInv == Types /\ NoneSkipped /\ OnlyMatches

-----------------------------------------------------------------------------
\* The invariant of the deletion holds at its start.
LEMMA Initially == Init => IInv
<1> SUFFICES ASSUME Init PROVE IInv
    OBVIOUS
<1>1. Types
    <2>1. \A m \in Ids : m > newest => text[m] = "none"
        BY SMT, SizesAssumption DEF Init, Ids
    <2> QED BY <2>1, SizesAssumption, SMT DEF Init, Types
<1>2. NoneSkipped
    BY SMT DEF Init, NoneSkipped
<1>3. OnlyMatches
    BY DEF Init, OnlyMatches
<1> QED BY <1>1, <1>2, <1>3 DEF IInv

\* The lowest message the loop reaches, and what is read from there up.
LEMMA PageRead ==
    ASSUME Types, NEW page \in PagesOf(lastId), ReadPage(page)
    PROVE  /\ messageIds' = messageIds \union (Reached(page) \intersect Matching)
           /\ lastId' = lastId \/ lastId' \in Reached(page)
           /\ page = {} => lastId' = lastId /\ Before(lastId) = {}
           /\ page # {} => \A m \in Before(lastId) : m >= lastId' => m \in Reached(page)
           /\ lastId' \in 0..MaxId
<1>1. page \subseteq Before(lastId) /\ Before(lastId) \subseteq Ids
    BY DEF PagesOf, Before, Present
<1>2. page = {} => lastId' = lastId /\ Before(lastId) = {}
    BY DEF PagesOf, ReadPage
<1>3. page # {} => lastId' \in Reached(page) /\ lastId' \in page
    BY DEF ReadPage, Reached
<1>4. ASSUME page # {}, NEW m \in Before(lastId), m >= lastId' PROVE m \in Reached(page)
    <2>1. lastId' \in page /\ \A k \in Ends(page) : k <= lastId'
        BY <1>3, <1>4 DEF Reached
    <2>2. m \in page
        BY <2>1, <1>1, <1>4, SizesAssumption, SMT DEF PagesOf, Ids
    <2>3. ASSUME NEW k \in Ends(page) PROVE k <= m
        BY <2>1, <2>3, <1>1, <1>4, SizesAssumption, SMT DEF Ends, Ids
    <2> QED BY <2>2, <2>3 DEF Reached
<1>5. lastId' \in 0..MaxId
    BY <1>1, <1>2, <1>3, SizesAssumption, SMT DEF Types, Ids
<1> QED BY <1>2, <1>3, <1>4, <1>5 DEF ReadPage

LEMMA TypesStep ==
    ASSUME Types, [Next]_vars
    PROVE  Types'
<1> USE DEF Types
<1>1. CASE UNCHANGED vars
    BY <1>1 DEF vars, scan
<1>2. CASE Arrive
    BY <1>2, SizesAssumption, SMT DEF Arrive, scan, Ids, Texts
<1>3. ASSUME NEW m \in Ids, Edit(m) PROVE Types'
    BY <1>3, SMT DEF Edit, scan, Present, Texts
<1>4. ASSUME NEW m \in Ids, Remove(m) PROVE Types'
    BY <1>4, SMT DEF Remove, scan, Present
<1>5. CASE Request
    BY <1>5, SizesAssumption, SMT DEF Request
<1>6. CASE Scan
    <2>1. PICK page \in PagesOf(lastId) : ReadPage(page)
        BY <1>6 DEF Scan
    <2>2. lastId' \in 0..MaxId /\ messageIds' \subseteq Ids
        BY <2>1, PageRead DEF Matching
    <2> QED BY <1>6, <2>2 DEF Scan
<1>7. CASE Enough
    BY <1>7 DEF Enough
<1>8. CASE ScanFails
    BY <1>8 DEF ScanFails
<1>9. CASE Delete
    BY <1>9 DEF Delete
<1> QED BY <1>1, <1>2, <1>3, <1>4, <1>5, <1>6, <1>7, <1>8, <1>9 DEF Next, Work

LEMMA NoneSkippedStep ==
    ASSUME IInv, [Next]_vars
    PROVE  NoneSkipped'
<1> USE DEF IInv, NoneSkipped, Matching
<1>1. CASE UNCHANGED vars
    BY <1>1 DEF vars, scan
<1>2. CASE Arrive
    BY <1>2, SizesAssumption, SMT DEF Arrive, scan, Types, Ids
<1>3. ASSUME NEW m \in Ids, Edit(m) PROVE NoneSkipped'
    BY <1>3, SMT DEF Edit, scan, Types
<1>4. ASSUME NEW m \in Ids, Remove(m) PROVE NoneSkipped'
    BY <1>4, SMT DEF Remove, scan, Types
<1>5. CASE Request
    BY <1>5, SMT DEF Request
<1>6. CASE Scan
    <2>1. PICK page \in PagesOf(lastId) : ReadPage(page)
        BY <1>6 DEF Scan
    <2>2. pc = "scan" /\ UNCHANGED <<text, pc, top, touched>>
        BY <1>6 DEF Scan
    <2> SUFFICES ASSUME lastId' > 0, NEW m \in Matching, lastId' <= m, m <= top
                 PROVE  m \in messageIds' \union touched
        BY <2>2
    <2>3. messageIds \subseteq messageIds'
        BY <2>1, PageRead DEF IInv
    <2>4. CASE lastId > 0 /\ lastId <= m
        BY <2>2, <2>3, <2>4
    <2>5. CASE ~(lastId > 0 /\ lastId <= m)
        <3>1. m \in Before(lastId)
            BY <2>5, SizesAssumption, SMT DEF Before, Present, Types, Ids
        <3>2. page # {}
            BY <2>1, <3>1, PageRead
        <3>3. m \in Reached(page)
            BY <2>1, <3>1, <3>2, PageRead
        <3> QED BY <2>1, <3>3, PageRead
    <2> QED BY <2>4, <2>5
<1>7. CASE Enough
    BY <1>7 DEF Enough
<1>8. CASE ScanFails
    BY <1>8 DEF ScanFails
<1>9. CASE Delete
    BY <1>9 DEF Delete
<1> QED BY <1>1, <1>2, <1>3, <1>4, <1>5, <1>6, <1>7, <1>8, <1>9 DEF Next, Work

LEMMA OnlyMatchesStep ==
    ASSUME IInv, [Next]_vars
    PROVE  OnlyMatches'
<1> USE DEF IInv, OnlyMatches, Matching
<1>1. CASE UNCHANGED vars
    BY <1>1 DEF vars, scan
<1>2. CASE Arrive
    BY <1>2, SizesAssumption, SMT DEF Arrive, scan, Types, Ids
<1>3. ASSUME NEW m \in Ids, Edit(m) PROVE OnlyMatches'
    BY <1>3, SMT DEF Edit, scan, Types
<1>4. ASSUME NEW m \in Ids, Remove(m) PROVE OnlyMatches'
    BY <1>4, SMT DEF Remove, scan, Types
<1>5. CASE Request
    BY <1>5 DEF Request
<1>6. CASE Scan
    <2>1. PICK page \in PagesOf(lastId) : ReadPage(page)
        BY <1>6 DEF Scan
    <2> QED BY <1>6, <2>1, PageRead DEF Scan
<1>7. CASE Enough
    BY <1>7 DEF Enough
<1>8. CASE ScanFails
    BY <1>8 DEF ScanFails
<1>9. CASE Delete
    BY <1>9 DEF Delete
<1> QED BY <1>1, <1>2, <1>3, <1>4, <1>5, <1>6, <1>7, <1>8, <1>9 DEF Next, Work

THEOREM Invariance == Spec => []IInv
<1>1. IInv /\ [Next]_vars => IInv'
    BY TypesStep, NoneSkippedStep, OnlyMatchesStep DEF IInv
<1> QED BY <1>1, Initially, PTL DEF Spec

\* The scan passes no match by, and takes only messages that matched when they were read.
THEOREM ScansAreExact == Spec => []ScanIsExact
BY Invariance, PTL DEF IInv, ScanIsExact

-----------------------------------------------------------------------------
\* The scan goes down from a message there was: what it took is not below it.
Below ==
    /\ lastId <= newest
    /\ lastId = 0 => messageIds = {}
    /\ \A m \in messageIds : m >= lastId

LEMMA BelowStep ==
    ASSUME Types, Below, [Next]_vars
    PROVE  Below'
<1> USE DEF Below
<1>1. CASE UNCHANGED vars
    BY <1>1 DEF vars, scan
<1>2. CASE Arrive
    BY <1>2, SizesAssumption, SMT DEF Arrive, scan, Types
<1>3. ASSUME NEW m \in Ids, Edit(m) \/ Remove(m) PROVE Below'
    BY <1>3 DEF Edit, Remove, scan
<1>4. CASE Request
    BY <1>4, SizesAssumption, SMT DEF Request, Types
<1>5. CASE Scan
    <2>1. PICK page \in PagesOf(lastId) : ReadPage(page)
        BY <1>5 DEF Scan
    <2>2. newest' = newest
        BY <1>5 DEF Scan
    <2>3. page \subseteq Before(lastId)
        BY DEF PagesOf
    <2>4. CASE page = {}
        BY <2>1, <2>2, <2>4 DEF ReadPage, Reached
    <2>5. CASE page # {}
        <3>1. lastId' \in Reached(page) /\ \A k \in Reached(page) : lastId' <= k
            BY <2>1, <2>5 DEF ReadPage
        <3>2. lastId' \in Before(lastId)
            BY <2>3, <3>1 DEF Reached
        <3>3. lastId' \in Ids /\ lastId' <= newest /\ (lastId = 0 \/ lastId' < lastId)
            BY <3>2, SizesAssumption, SMT DEF Before, Present, Types, Ids
        <3>4. messageIds' \subseteq messageIds \union Reached(page)
            BY <2>1 DEF ReadPage
        <3>5. \A m \in messageIds : m >= lastId'
            BY <3>3, SizesAssumption, SMT DEF Types, Ids
        <3>6. \A m \in Reached(page) : m >= lastId'
            BY <2>3, <3>1, <3>3, SizesAssumption, SMT DEF Reached, Before, Present, Ids
        <3>7. lastId' # 0
            BY <3>3, SizesAssumption, SMT DEF Ids
        <3> QED
            BY <2>2, <3>3, <3>4, <3>5, <3>6, <3>7
    <2> QED BY <2>4, <2>5
<1>6. CASE Enough
    BY <1>6 DEF Enough
<1>7. CASE ScanFails
    BY <1>7 DEF ScanFails
<1>8. CASE Delete
    BY <1>8 DEF Delete
<1> QED BY <1>1, <1>2, <1>3, <1>4, <1>5, <1>6, <1>7, <1>8 DEF Next, Work

\* Types of the chat and of the scan (controller.go:397-427), whose next page is always older than
\* what it took.
THEOREM TypeCorrect == Spec => []TypeOK
<1>1. Init => Below
    BY SizesAssumption, SMT DEF Init, Below
<1>2. Types /\ Below => TypeOK
    <2> SUFFICES ASSUME Types, Below PROVE TypeOK
        OBVIOUS
    <2>1. \A m \in Present : m <= newest
        BY SizesAssumption, SMT DEF Types, Present, Ids
    <2>2. lastId \in 0..newest
        BY SizesAssumption, SMT DEF Types, Below
    <2> QED BY <2>1, <2>2 DEF Types, Below, TypeOK
<1>3. IInv => Types
    BY DEF IInv
<1> QED BY <1>1, <1>2, <1>3, BelowStep, Invariance, PTL DEF Spec

-----------------------------------------------------------------------------
\* The rendering.

\* A text as TDLib sends it.
Given ==
    /\ length \in 0..MaxLength
    /\ entities \in Seq(Ranges(length)) /\ Len(entities) <= MaxEntities
    /\ Ordered(entities)

Char == [at : 0..length - 1, tags : Seq(DOMAIN entities)]

\* Over, Around and Simple of RenderText, of the entities es.
OverIn(es, place) == {m \in DOMAIN es : es[m].offset <= place /\ place < es[m].end}
AroundIn(es, place) == {m \in DOMAIN es : \E o \in OverIn(es, place) : Within(es[m], es[o])}
SimpleIn(es, place) ==
    /\ Cardinality(AroundIn(es, place)) <= 2
    /\ \A m, n \in AroundIn(es, place) : es[m] = es[n]

\* The result shows the text up to bound, and the first n entities in it.
ShowsAll(es, res, bound, n) ==
    /\ \A k \in DOMAIN res : res[k].at \in 0..bound - 1
    /\ \A place \in 0..bound - 1 : \E k \in DOMAIN res : res[k].at = place
    /\ \A place \in 0..bound - 1 : \A m \in OverIn(es, place) : m <= n =>
          \E k \in DOMAIN res : res[k].at = place /\ m \in Tagged(res[k])
InOrder(es, res) ==
    \A k, m \in DOMAIN res :
        k < m /\ res[k].at > res[m].at => AroundIn(es, res[k].at) \intersect AroundIn(es, res[m].at) # {}
Once(es, res, place) ==
    \E k \in DOMAIN res :
        /\ res[k].at = place /\ Tagged(res[k]) = OverIn(es, place)
        /\ \A m \in DOMAIN res \ {k} : res[m].at # place
Shows(es, res, bound, n) ==
    /\ ShowsAll(es, res, bound, n) /\ InOrder(es, res)
    /\ \A place \in 0..bound - 1 : SimpleIn(es, place) => Once(es, res, place)

\* What the proofs need of new = s \o t.
Joined(S, new, s, t) ==
    /\ new \in Seq(S) /\ Len(new) = Len(s) + Len(t) /\ Len(s) \in Nat /\ Len(t) \in Nat
    /\ DOMAIN s = 1..Len(s) /\ DOMAIN t = 1..Len(t) /\ DOMAIN new = 1..Len(new)
    /\ \A k \in DOMAIN s : k \in DOMAIN new /\ new[k] = s[k] /\ k <= Len(s)
    /\ \A k \in DOMAIN t : Len(s) + k \in DOMAIN new /\ new[Len(s) + k] = t[k]
    /\ \A k \in DOMAIN new : k \in DOMAIN s \/ \E j \in DOMAIN t : k = Len(s) + j

\* Concatenation, for what follows.
LEMMA Concat ==
    ASSUME NEW S, NEW s \in Seq(S), NEW t \in Seq(S)
    PROVE  Joined(S, s \o t, s, t)
<1>1. /\ s \o t \in Seq(S) /\ Len(s \o t) = Len(s) + Len(t) /\ Len(s) \in Nat /\ Len(t) \in Nat
      /\ DOMAIN s = 1..Len(s) /\ DOMAIN t = 1..Len(t) /\ DOMAIN (s \o t) = 1..Len(s \o t)
      /\ \A k \in DOMAIN s : k \in DOMAIN (s \o t) /\ (s \o t)[k] = s[k] /\ k <= Len(s)
      /\ \A k \in DOMAIN t : Len(s) + k \in DOMAIN (s \o t) /\ (s \o t)[Len(s) + k] = t[k]
  OBVIOUS
<1>2. ASSUME NEW k \in DOMAIN (s \o t), k \notin DOMAIN s PROVE \E j \in DOMAIN t : k = Len(s) + j
  <2>1. k - Len(s) \in DOMAIN t /\ k = Len(s) + (k - Len(s))
    BY <1>2
  <2> QED
    BY <2>1
<1> QED
  BY <1>1, <1>2 DEF Joined

\* What is appended to what is shown: characters of consecutive places, in all the entities that
\* their place is in up to the n-th, and in no other where the place is simple.
Chars(s) == s \in Seq(Char)
Follow(add, from) == \A k \in DOMAIN add : add[k].at = from + k - 1
TaggedUpTo(es, add, n) == \A k \in DOMAIN add : \A m \in OverIn(es, add[k].at) : m <= n => m \in Tagged(add[k])
TaggedWhereSimple(es, add) ==
    \A k \in DOMAIN add : SimpleIn(es, add[k].at) => Tagged(add[k]) = OverIn(es, add[k].at)
NoneBetween(es, n, n2, bound) == \A place \in 0..bound - 1 : \A m \in OverIn(es, place) : m <= n2 => m <= n

\* The next characters of the text are appended, each in all the entities it is in so far.
LEMMA AppendAbove ==
    ASSUME NEW b \in Nat, NEW c \in Nat, b <= c, NEW res, NEW add, Chars(res), Chars(add),
           NEW n, NEW n2, Shows(entities, res, b, n), Len(add) = c - b, Follow(add, b),
           TaggedUpTo(entities, add, n2), TaggedWhereSimple(entities, add), NoneBetween(entities, n, n2, b)
    PROVE  Shows(entities, res \o add, c, n2)
<1> DEFINE new == res \o add
<1>1. Joined(Char, new, res, add)
  BY Concat DEF Chars
<1> HIDE DEF new
<1>2. /\ \A k \in DOMAIN res : k \in DOMAIN new /\ new[k] = res[k] /\ k \in Nat /\ k <= Len(res)
      /\ \A k \in DOMAIN new : k \in DOMAIN res \/ \E j \in DOMAIN add : k = Len(res) + j
      /\ Len(res) \in Nat
  BY <1>1 DEF Joined
<1>3. \A j \in DOMAIN add : /\ j \in Nat /\ Len(res) + j \in DOMAIN new /\ new[Len(res) + j] = add[j]
                            /\ add[j].at = b + j - 1 /\ add[j].at \in b..c - 1
  <2> TAKE j \in DOMAIN add
  <2>1. /\ j \in 1..c - b /\ Len(res) + j \in DOMAIN new /\ new[Len(res) + j] = add[j]
    BY <1>1 DEF Joined
  <2>2. add[j].at = b + j - 1
    BY DEF Follow
  <2> QED
    BY <2>1, <2>2
<1>4. \A place \in b..c - 1 : \E j \in DOMAIN add : add[j].at = place
  <2> TAKE place \in b..c - 1
  <2>1. place - b + 1 \in DOMAIN add
    <3>1. DOMAIN add = 1..c - b
      BY <1>1 DEF Joined
    <3> QED
      BY <3>1
  <2>2. add[place - b + 1].at = b + (place - b + 1) - 1
    BY <2>1 DEF Follow
  <2> QED
    BY <2>1, <2>2
<1>5. /\ \A k \in DOMAIN res : res[k].at \in 0..b - 1
      /\ \A place \in 0..b - 1 : \E k \in DOMAIN res : res[k].at = place
      /\ \A place \in 0..b - 1 : \A m \in OverIn(entities, place) : m <= n =>
            \E k \in DOMAIN res : res[k].at = place /\ m \in Tagged(res[k])
  BY Zenon DEF Shows, ShowsAll
<1>6. ASSUME NEW k \in DOMAIN new PROVE new[k].at \in 0..c - 1
  <2>1. CASE k \in DOMAIN res
    <3>1. new[k].at \in 0..b - 1
      BY <1>2, <1>5, <2>1, Zenon
    <3> QED
      BY <3>1
  <2>2. ASSUME NEW j \in DOMAIN add, k = Len(res) + j PROVE new[k].at \in 0..c - 1
    <3>1. new[k].at \in b..c - 1
      BY <1>3, <2>2, Zenon
    <3> QED
      BY <3>1
  <2> QED
    BY <1>2, <2>1, <2>2, Zenon
<1>7. ASSUME NEW place \in 0..c - 1 PROVE \E k \in DOMAIN new : new[k].at = place
  <2>1. CASE place \in 0..b - 1
    BY <1>2, <1>5, <2>1, Zenon
  <2>2. CASE place \in b..c - 1
    <3>1. PICK j \in DOMAIN add : add[j].at = place
      BY <1>4, <2>2, Zenon
    <3> QED
      BY <1>3, <3>1, Zenon
  <2> QED
    BY <2>1, <2>2
<1>8. ASSUME NEW place \in 0..c - 1, NEW m \in OverIn(entities, place), m <= n2
      PROVE  \E k \in DOMAIN new : new[k].at = place /\ m \in Tagged(new[k])
  <2>1. CASE place \in 0..b - 1
    <3>1. m <= n
      BY <1>8, <2>1, Zenon DEF NoneBetween
    <3>2. PICK k \in DOMAIN res : res[k].at = place /\ m \in Tagged(res[k])
      BY <1>5, <2>1, <3>1, Zenon
    <3> QED
      BY <1>2, <3>2, Zenon
  <2>2. CASE place \in b..c - 1
    <3>1. PICK j \in DOMAIN add : add[j].at = place
      BY <1>4, <2>2, Zenon
    <3>2. m \in Tagged(add[j])
      BY <1>8, <3>1, Zenon DEF TaggedUpTo
    <3> QED
      BY <1>3, <3>1, <3>2, Zenon
  <2> QED
    BY <2>1, <2>2
<1>9. ASSUME NEW k \in DOMAIN new, NEW m \in DOMAIN new, k < m, new[k].at > new[m].at
      PROVE  AroundIn(entities, new[k].at) \intersect AroundIn(entities, new[m].at) # {}
  <2>1. CASE k \in DOMAIN res /\ m \in DOMAIN res
    <3>1. res[k].at > res[m].at
      BY <1>2, <1>9, <2>1, Zenon
    <3>2. AroundIn(entities, res[k].at) \intersect AroundIn(entities, res[m].at) # {}
      BY <1>9, <2>1, <3>1, Zenon DEF Shows, InOrder
    <3> QED
      BY <1>2, <2>1, <3>2, Zenon
  <2>2. ASSUME NEW j \in DOMAIN add, m = Len(res) + j, k \in DOMAIN res PROVE FALSE
    <3>1. new[k].at \in 0..b - 1 /\ new[m].at \in b..c - 1
      BY <1>2, <1>3, <1>5, <2>2, Zenon
    <3> QED
      BY <1>9, <3>1
  <2>3. ASSUME NEW j \in DOMAIN add, k = Len(res) + j, m \in DOMAIN res PROVE FALSE
    <3>1. j \in DOMAIN add /\ DOMAIN add = 1..Len(add) /\ m <= Len(res) /\ m \in Nat /\ Len(res) \in Nat
      BY <1>1, <1>2, <2>3 DEF Joined
    <3> QED
      BY <1>9, <2>3, <3>1
  <2>4. ASSUME NEW g \in DOMAIN add, NEW j \in DOMAIN add, k = Len(res) + g, m = Len(res) + j PROVE FALSE
    <3>1. new[k].at = b + g - 1 /\ new[m].at = b + j - 1
      BY <1>3, <2>4, Zenon
    <3>2. g \in Nat /\ j \in Nat /\ Len(res) \in Nat
      BY <1>2, <1>3, Zenon
    <3> QED
      BY <1>9, <2>4, <3>1, <3>2
  <2> QED
    BY <1>2, <2>1, <2>2, <2>3, <2>4, Zenon
<1>10. ASSUME NEW place \in 0..c - 1, SimpleIn(entities, place) PROVE Once(entities, new, place)
  <2>1. CASE place \in 0..b - 1
    <3>1. PICK k \in DOMAIN res : /\ res[k].at = place /\ Tagged(res[k]) = OverIn(entities, place)
                                  /\ \A m \in DOMAIN res \ {k} : res[m].at # place
      BY <1>10, <2>1, Zenon DEF Shows, Once
    <3>2. ASSUME NEW j \in DOMAIN add PROVE add[j].at # place
      <4>1. add[j].at \in b..c - 1
        BY <1>3, Zenon
      <4> QED
        BY <2>1, <4>1
    <3>3. k \in DOMAIN new /\ new[k].at = place /\ Tagged(new[k]) = OverIn(entities, place)
      BY <1>2, <3>1, Zenon
    <3>4. ASSUME NEW m \in DOMAIN new, m # k PROVE new[m].at # place
      <4>1. CASE m \in DOMAIN res
        BY <1>2, <3>1, <3>4, <4>1, Zenon
      <4>2. ASSUME NEW j \in DOMAIN add, m = Len(res) + j PROVE new[m].at # place
        BY <1>3, <3>2, <4>2, Zenon
      <4> QED
        BY <1>2, <4>1, <4>2, Zenon
    <3> QED
      BY <3>3, <3>4, Zenon DEF Once
  <2>2. CASE place \in b..c - 1
    <3>1. PICK j \in DOMAIN add : add[j].at = place
      BY <1>4, <2>2, Zenon
    <3>2. ASSUME NEW g \in DOMAIN add, g # j PROVE add[g].at # place
      <4>1. j \in Nat /\ g \in Nat /\ add[j].at = b + j - 1 /\ add[g].at = b + g - 1
        BY <1>3, Zenon
      <4> QED
        BY <3>1, <3>2, <4>1
    <3>3. Tagged(add[j]) = OverIn(entities, place)
      BY <1>10, <3>1, Zenon DEF TaggedWhereSimple
    <3>4. ASSUME NEW k \in DOMAIN res PROVE res[k].at # place
      <4>1. res[k].at \in 0..b - 1
        BY <1>5, Zenon
      <4> QED
        BY <2>2, <4>1
    <3> DEFINE at == Len(res) + j
    <3>5. at \in DOMAIN new /\ new[at].at = place /\ Tagged(new[at]) = OverIn(entities, place)
      BY <1>3, <3>1, <3>3, Zenon
    <3>6. ASSUME NEW m \in DOMAIN new, m # at PROVE new[m].at # place
      <4>1. CASE m \in DOMAIN res
        BY <1>2, <3>4, <4>1, Zenon
      <4>2. ASSUME NEW g \in DOMAIN add, m = Len(res) + g PROVE new[m].at # place
        BY <1>3, <3>2, <3>6, <4>2, Zenon
      <4> QED
        BY <1>2, <4>1, <4>2, Zenon
    <3> HIDE DEF at
    <3> QED
      BY <3>5, <3>6, Zenon DEF Once
  <2> QED
    BY <2>1, <2>2
<1>11. ShowsAll(entities, new, c, n2) /\ InOrder(entities, new)
  BY <1>6, <1>7, <1>8, <1>9, Zenon DEF ShowsAll, InOrder
<1> QED
  BY <1>10, <1>11, Zenon DEF Shows, new

\* The last characters are appended once more, now in the entity n + 1 too: none is simple.
NotSimple(es, add, bound) == \A k \in DOMAIN add : add[k].at < bound /\ ~SimpleIn(es, add[k].at)
Meet(es, from, bound) ==
    \A place, other \in from..bound - 1 : AroundIn(es, place) \intersect AroundIn(es, other) # {}
TaggedWith(es, add, m, bound) ==
    \A place \in 0..bound - 1 : m \in OverIn(es, place) =>
        \E k \in DOMAIN add : add[k].at = place /\ m \in Tagged(add[k])

LEMMA AppendAgain ==
    ASSUME NEW b \in Nat, NEW f \in Nat, Given, NEW res, NEW add, Chars(res), Chars(add),
           NEW n \in Nat, Shows(entities, res, b, n),
           Follow(add, f), NotSimple(entities, add, b), Meet(entities, f, b), TaggedWith(entities, add, n + 1, b)
    PROVE  Shows(entities, res \o add, b, n + 1)
<1> DEFINE new == res \o add
<1>1. Joined(Char, new, res, add)
  BY Concat DEF Chars
<1> HIDE DEF new
<1>2. /\ \A k \in DOMAIN res : k \in DOMAIN new /\ new[k] = res[k] /\ k \in Nat /\ k <= Len(res)
      /\ \A k \in DOMAIN new : k \in DOMAIN res \/ \E j \in DOMAIN add : k = Len(res) + j
      /\ Len(res) \in Nat
  BY <1>1 DEF Joined
<1>3. \A j \in DOMAIN add : /\ j \in Nat /\ j >= 1 /\ Len(res) + j \in DOMAIN new /\ new[Len(res) + j] = add[j]
                            /\ add[j].at \in f..b - 1 /\ ~SimpleIn(entities, add[j].at)
  <2> TAKE j \in DOMAIN add
  <2>1. j \in Nat /\ j >= 1 /\ Len(res) + j \in DOMAIN new /\ new[Len(res) + j] = add[j]
    BY <1>1 DEF Joined
  <2>2. add[j].at = f + j - 1 /\ add[j].at < b /\ ~SimpleIn(entities, add[j].at)
    BY Zenon DEF Follow, NotSimple
  <2> QED
    BY <2>1, <2>2
<1>4. /\ \A k \in DOMAIN res : res[k].at \in 0..b - 1
      /\ \A place \in 0..b - 1 : \E k \in DOMAIN res : res[k].at = place
      /\ \A place \in 0..b - 1 : \A m \in OverIn(entities, place) : m <= n =>
            \E k \in DOMAIN res : res[k].at = place /\ m \in Tagged(res[k])
  BY Zenon DEF Shows, ShowsAll
<1>5. ASSUME NEW k \in DOMAIN new PROVE new[k].at \in 0..b - 1
  <2>1. CASE k \in DOMAIN res
    BY <1>2, <1>4, <2>1, Zenon
  <2>2. ASSUME NEW j \in DOMAIN add, k = Len(res) + j PROVE new[k].at \in 0..b - 1
    <3>1. new[k].at \in f..b - 1
      BY <1>3, <2>2, Zenon
    <3> QED
      BY <3>1
  <2> QED
    BY <1>2, <2>1, <2>2, Zenon
<1>6. \A place \in 0..b - 1 : \E k \in DOMAIN new : new[k].at = place
  BY <1>2, <1>4, Zenon
<1>7. ASSUME NEW place \in 0..b - 1, NEW m \in OverIn(entities, place), m <= n + 1
      PROVE  \E k \in DOMAIN new : new[k].at = place /\ m \in Tagged(new[k])
  <2>1. CASE m <= n
    <3>1. PICK k \in DOMAIN res : res[k].at = place /\ m \in Tagged(res[k])
      BY <1>4, <2>1, Zenon
    <3> QED
      BY <1>2, <3>1, Zenon
  <2>2. CASE m = n + 1
    <3>1. PICK k \in DOMAIN add : add[k].at = place /\ m \in Tagged(add[k])
      BY <2>2, Zenon DEF TaggedWith
    <3> QED
      BY <1>3, <3>1, Zenon
  <2>3. m \in Nat
    BY DEF OverIn, Given
  <2> QED
    BY <1>7, <2>1, <2>2, <2>3
<1>8. ASSUME NEW k \in DOMAIN new, NEW m \in DOMAIN new, k < m, new[k].at > new[m].at
      PROVE  AroundIn(entities, new[k].at) \intersect AroundIn(entities, new[m].at) # {}
  <2>1. CASE k \in DOMAIN res /\ m \in DOMAIN res
    <3>1. res[k].at > res[m].at
      BY <1>2, <1>8, <2>1, Zenon
    <3>2. AroundIn(entities, res[k].at) \intersect AroundIn(entities, res[m].at) # {}
      BY <1>8, <2>1, <3>1, Zenon DEF Shows, InOrder
    <3> QED
      BY <1>2, <2>1, <3>2, Zenon
  <2>2. ASSUME NEW j \in DOMAIN add, k = Len(res) + j, m \in DOMAIN res PROVE FALSE
    <3>1. j \in Nat /\ j >= 1 /\ m <= Len(res) /\ m \in Nat /\ Len(res) \in Nat
      BY <1>2, <1>3, <2>2, Zenon
    <3> QED
      BY <1>8, <2>2, <3>1
  <2>3. ASSUME NEW j \in DOMAIN add, m = Len(res) + j
        PROVE  AroundIn(entities, new[k].at) \intersect AroundIn(entities, new[m].at) # {}
    <3>1. new[m].at \in f..b - 1
      BY <1>3, <2>3, Zenon
    <3>2. new[k].at \in 0..b - 1
      BY <1>5, Zenon
    <3>3. new[k].at \in f..b - 1
      BY <1>8, <3>1, <3>2
    <3> QED
      BY <3>1, <3>3, Zenon DEF Meet
  <2> QED
    BY <1>2, <2>1, <2>2, <2>3, Zenon
<1>9. ASSUME NEW place \in 0..b - 1, SimpleIn(entities, place) PROVE Once(entities, new, place)
  <2>1. PICK k \in DOMAIN res : /\ res[k].at = place /\ Tagged(res[k]) = OverIn(entities, place)
                                /\ \A m \in DOMAIN res \ {k} : res[m].at # place
    BY <1>9, Zenon DEF Shows, Once
  <2>2. k \in DOMAIN new /\ new[k].at = place /\ Tagged(new[k]) = OverIn(entities, place)
    BY <1>2, <2>1, Zenon
  <2>3. ASSUME NEW m \in DOMAIN new, m # k PROVE new[m].at # place
    <3>1. CASE m \in DOMAIN res
      BY <1>2, <2>1, <2>3, <3>1, Zenon
    <3>2. ASSUME NEW j \in DOMAIN add, m = Len(res) + j PROVE new[m].at # place
      BY <1>3, <1>9, <3>2, Zenon
    <3> QED
      BY <1>2, <3>1, <3>2, Zenon
  <2> QED
    BY <2>2, <2>3, Zenon DEF Once
<1>10. ShowsAll(entities, new, b, n + 1) /\ InOrder(entities, new)
  BY <1>5, <1>6, <1>7, <1>8, Zenon DEF ShowsAll, InOrder
<1> QED
  BY <1>9, <1>10, Zenon DEF Shows, new

-----------------------------------------------------------------------------
\* The loop.

\* What wrapped is: the outermost entity's characters, in it and the ones nested in it.
Wraps(f, n) ==
    /\ wrapped \in Seq(Char) /\ Len(wrapped) = entities[f].end - entities[f].offset
    /\ \A k \in DOMAIN wrapped : wrapped[k].at = entities[f].offset + k - 1 /\ Tagged(wrapped[k]) = f..n

\* The entity that was handled last and was not nested, 0 before the first.
Outer(f) ==
    /\ f \in 0..i - 1
    /\ f = 0 => i = 1 /\ prevEntityEnd = 0 /\ wrapped = <<>>
    /\ f > 0 =>
          /\ prevEntityEnd = entities[f].end
          /\ \A m \in f + 1..i - 1 : Within(entities[m], entities[f])
          /\ \A m \in 1..f - 1 : entities[m].end <= entities[f].offset
          /\ Wraps(f, i - 1)

\* Its characters wait for an entity of the same range.
Pending(f) == f > 0 /\ f = i - 1 /\ i <= Len(entities) /\ entities[i] = entities[f]
Bound(f) == IF phase = "done" THEN length ELSE IF Pending(f) THEN entities[f].offset ELSE prevEntityEnd

TInv ==
    /\ Given /\ i \in 1..Len(entities) + 1 /\ phase \in {"loop", "done"} /\ result \in Seq(Char)
    /\ phase = "done" => i = Len(entities) + 1
    /\ \E f \in 0..i - 1 : Outer(f) /\ Shows(entities, result, Bound(f), i - 1)

\* The loop begins with nothing shown.
LEMMA InitTInv == RenderInit => TInv
<1> SUFFICES ASSUME RenderInit PROVE TInv
  OBVIOUS
<1>1. Given /\ i \in 1..Len(entities) + 1
  <2> PICK n \in 0..MaxEntities : entities \in [1..n -> Ranges(length)]
    BY DEF RenderInit
  <2>1. entities \in Seq(Ranges(length)) /\ Len(entities) = n
    BY TextAssumption
  <2> QED
    BY <2>1, TextAssumption DEF RenderInit, Given
<1>2. result \in Seq(Char) /\ phase = "loop" /\ DOMAIN result = {} /\ prevEntityEnd = 0
  BY DEF RenderInit
<1>3. Outer(0) /\ Bound(0) = 0
  BY <1>2 DEF RenderInit, Outer, Bound, Pending
<1>4. Shows(entities, result, 0, 0)
  BY <1>2 DEF Shows, ShowsAll, InOrder
<1>5. 0 \in 0..i - 1 /\ i - 1 = 0
  BY DEF RenderInit
<1> QED
  BY <1>1, <1>2, <1>3, <1>4, <1>5 DEF TInv

\* A slice has the places from from to to, in no entity.
LEMMA SliceChars ==
    ASSUME Given, NEW from \in Nat, NEW to \in Nat, from <= to, to <= length
    PROVE  /\ Slice(from, to) \in Seq(Char) /\ Len(Slice(from, to)) = to - from
           /\ DOMAIN Slice(from, to) = 1..(to - from)
           /\ \A k \in DOMAIN Slice(from, to) :
                 Slice(from, to)[k].at = from + k - 1 /\ Tagged(Slice(from, to)[k]) = {}
<1> DEFINE s == Slice(from, to)
<1>1. s = [k \in 1..(to - from) |-> [at |-> from + k - 1, tags |-> <<>>]]
  BY DEF Slice
<1>2. \A k \in 1..(to - from) : [at |-> from + k - 1, tags |-> <<>>] \in Char
  BY DEF Char, Given
<1>3. s \in [1..(to - from) -> Char] /\ to - from \in Nat
  <2>1. s \in [1..(to - from) -> Char]
    <3> HIDE DEF s
    <3> QED
      BY <1>1, <1>2
  <2> QED
    BY <2>1
<1>4. s \in Seq(Char) /\ Len(s) = to - from /\ DOMAIN s = 1..(to - from)
  <2> HIDE DEF s
  <2> QED
    BY <1>3
<1>5. \A k \in DOMAIN s : s[k].at = from + k - 1 /\ s[k].tags = <<>>
  BY <1>1
<1>6. \A k \in DOMAIN s : Tagged(s[k]) = {}
  BY <1>5 DEF Tagged
<1> QED
  BY <1>4, <1>5, <1>6

\* Wrapping leaves the places and adds the entity.
LEMMA WrapChars ==
    ASSUME NEW chars \in Seq(Char), i \in DOMAIN entities
    PROVE  /\ wrapEntity(chars) \in Seq(Char) /\ Len(wrapEntity(chars)) = Len(chars)
           /\ DOMAIN wrapEntity(chars) = DOMAIN chars
           /\ \A k \in DOMAIN chars : /\ wrapEntity(chars)[k].at = chars[k].at
                                      /\ Tagged(wrapEntity(chars)[k]) = Tagged(chars[k]) \union {i}
<1> DEFINE w == wrapEntity(chars)
<1>1. w = [k \in DOMAIN chars |-> [chars[k] EXCEPT !.tags = <<i>> \o @]]
  BY DEF wrapEntity
<1>2. \A k \in DOMAIN chars : chars[k] \in Char
  OBVIOUS
<1>3. ASSUME NEW t \in Seq(DOMAIN entities)
      PROVE  /\ <<i>> \o t \in Seq(DOMAIN entities)
             /\ {(<<i>> \o t)[k] : k \in DOMAIN (<<i>> \o t)} = {t[k] : k \in DOMAIN t} \union {i}
  <2> DEFINE o == <<i>>
             new == o \o t
  <2>1. o \in Seq(DOMAIN entities) /\ Len(o) = 1 /\ o[1] = i
    OBVIOUS
  <2> HIDE DEF o
  <2>2. Joined(DOMAIN entities, new, o, t)
    BY <2>1, Concat
  <2> HIDE DEF new
  <2> USE <2>2 DEF Joined
  <2>3. ASSUME NEW k \in DOMAIN new PROVE new[k] \in {t[j] : j \in DOMAIN t} \union {i}
    <3>1. CASE k \in DOMAIN o
      BY <2>1, <3>1
    <3>2. ASSUME NEW j \in DOMAIN t, k = Len(o) + j PROVE new[k] \in {t[g] : g \in DOMAIN t}
      BY <3>2
    <3> QED
      BY <3>1, <3>2
  <2>4. ASSUME NEW j \in DOMAIN t PROVE t[j] \in {new[k] : k \in DOMAIN new}
    OBVIOUS
  <2>5. i \in {new[k] : k \in DOMAIN new}
    <3>1. 1 \in DOMAIN new /\ new[1] = i
      BY <2>1
    <3> QED
      BY <3>1
  <2>6. {new[k] : k \in DOMAIN new} = {t[k] : k \in DOMAIN t} \union {i}
    BY <2>3, <2>4, <2>5
  <2> QED
    BY <2>6 DEF new, o
<1>4. ASSUME NEW k \in DOMAIN chars
      PROVE  /\ [chars[k] EXCEPT !.tags = <<i>> \o @] \in Char
             /\ w[k].at = chars[k].at /\ Tagged(w[k]) = Tagged(chars[k]) \union {i}
  <2> DEFINE t == chars[k].tags
             new == <<i>> \o t
  <2>1. chars[k].at \in 0..length - 1 /\ t \in Seq(DOMAIN entities)
    BY <1>2 DEF Char
  <2>2. w[k] = [chars[k] EXCEPT !.tags = new]
    BY <1>1
  <2>3. new \in Seq(DOMAIN entities) /\ {new[j] : j \in DOMAIN new} = {t[j] : j \in DOMAIN t} \union {i}
    BY <1>3, <2>1
  <2> HIDE DEF new
  <2>4. w[k].at = chars[k].at /\ w[k].tags = new
    BY <1>2, <2>2 DEF Char
  <2>5. Tagged(w[k]) = Tagged(chars[k]) \union {i}
    BY <2>3, <2>4 DEF Tagged
  <2>6. [chars[k] EXCEPT !.tags = new] \in Char
    BY <1>2, <2>3 DEF Char
  <2> QED
    BY <2>4, <2>5, <2>6 DEF new
<1>5. w \in [1..Len(chars) -> Char] /\ Len(chars) \in Nat
  <2>1. DOMAIN chars = 1..Len(chars) /\ Len(chars) \in Nat
    OBVIOUS
  <2> HIDE DEF w
  <2>2. \A k \in DOMAIN chars : [chars[k] EXCEPT !.tags = <<i>> \o @] \in Char
    BY <1>4
  <2> QED
    BY <1>1, <2>1, <2>2, Zenon
<1>6. w \in Seq(Char) /\ Len(w) = Len(chars) /\ DOMAIN w = DOMAIN chars
  <2> HIDE DEF w
  <2> QED
    BY <1>5
<1> QED
  BY <1>4, <1>6
-----------------------------------------------------------------------------
\* How entities lie.

\* An entity is not empty, and is in the text.
LEMMA EntityTypes ==
    ASSUME Given, NEW m \in DOMAIN entities
    PROVE  /\ entities[m] \in [offset : 0..length, end : 0..length] /\ entities[m].offset < entities[m].end
           /\ entities[m].offset \in Nat /\ entities[m].end \in Nat /\ entities[m].end <= length
           /\ m \in Nat /\ m >= 1 /\ m <= Len(entities) /\ Len(entities) \in Nat
<1>1. entities[m] \in Ranges(length) /\ m \in 1..Len(entities) /\ Len(entities) \in Nat /\ length \in Nat
  BY TextAssumption DEF Given
<1> QED
  BY <1>1 DEF Ranges

\* A later entity begins after the end of an earlier one, or is within it.
LEMMA LaterLies ==
    ASSUME Given, NEW k \in DOMAIN entities, NEW m \in DOMAIN entities, k < m
    PROVE  /\ entities[k].offset <= entities[m].offset
           /\ entities[k].end <= entities[m].offset \/ Within(entities[m], entities[k])
BY EntityTypes DEF Given, Ordered, Apart

\* Entities of one range come one after the other.
LEMMA SameAdjoin ==
    ASSUME Given, NEW k \in DOMAIN entities, NEW m \in DOMAIN entities, k < m, entities[m] = entities[k]
    PROVE  k + 1 \in DOMAIN entities /\ entities[k + 1] = entities[k]
<1>1. k + 1 \in DOMAIN entities /\ k < k + 1
  BY EntityTypes DEF Given
<1>2. CASE m = k + 1
  BY <1>1, <1>2
<1>3. CASE k + 1 < m
  <2> DEFINE e == entities[k]
             d == entities[k + 1]
  <2>1. /\ e \in [offset : 0..length, end : 0..length] /\ d \in [offset : 0..length, end : 0..length]
        /\ e.offset < e.end /\ d.offset < d.end
    BY <1>1, EntityTypes
  <2>2. /\ e.offset <= d.offset /\ (e.end <= d.offset \/ Within(d, e))
    BY <1>1, LaterLies
  <2>3. d.offset <= e.offset /\ (d.end <= e.offset \/ Within(e, d))
    BY <1>1, <1>3, LaterLies
  <2> HIDE DEF e, d
  <2>4. d.offset = e.offset /\ d.end = e.end
    BY <2>1, <2>2, <2>3 DEF Within
  <2>5. d = e
    BY <2>1, <2>4
  <2> QED
    BY <1>1, <2>5 DEF d, e
<1> QED
  BY <1>1, <1>2, <1>3, EntityTypes

\* What a place is in is around it.
LEMMA OverAround ==
    ASSUME Given, NEW place \in Nat
    PROVE  /\ OverIn(entities, place) \subseteq AroundIn(entities, place)
           /\ AroundIn(entities, place) \subseteq DOMAIN entities
<1>1. ASSUME NEW m \in OverIn(entities, place) PROVE m \in AroundIn(entities, place)
  <2>1. m \in DOMAIN entities /\ Within(entities[m], entities[m])
    BY EntityTypes DEF OverIn, Within
  <2> QED
    BY <2>1 DEF AroundIn
<1> QED
  BY <1>1 DEF AroundIn

\* A place in an entity that has no other of its range is simple only when it is in no other.
LEMMA SimpleAlone ==
    ASSUME Given, NEW f \in DOMAIN entities, NEW place \in Nat, f \in OverIn(entities, place), SimpleIn(entities, place),
           \A m \in 1..f - 1 : entities[m].end <= entities[f].offset,
           ~(f < Len(entities) /\ entities[f + 1] = entities[f])
    PROVE  OverIn(entities, place) = {f}
<1> SUFFICES ASSUME NEW m \in OverIn(entities, place), m # f PROVE FALSE
  OBVIOUS
<1>1. m \in DOMAIN entities /\ m \in AroundIn(entities, place) /\ f \in AroundIn(entities, place)
  BY OverAround DEF OverIn
<1>2. entities[m] = entities[f]
  BY <1>1 DEF SimpleIn
<1>3. CASE m < f
  <2>1. m \in Nat /\ m >= 1 /\ f \in Nat
    BY <1>1, EntityTypes, Zenon
  <2>2. m \in 1..f - 1
    BY <1>3, <2>1
  <2>3. entities[f].end <= entities[f].offset
    BY <1>2, <2>2
  <2>4. entities[f].offset < entities[f].end /\ entities[f].offset \in Nat /\ entities[f].end \in Nat
    BY EntityTypes, Zenon
  <2> QED
    BY <2>3, <2>4
<1>4. CASE f < m
  <2>1. f + 1 \in DOMAIN entities /\ entities[f + 1] = entities[f]
    BY <1>1, <1>2, <1>4, SameAdjoin, Zenon
  <2>2. f + 1 <= Len(entities) /\ f \in Nat /\ Len(entities) \in Nat
    BY <2>1, EntityTypes, Zenon
  <2> QED
    BY <2>1, <2>2
<1> QED
  BY <1>1, <1>3, <1>4, EntityTypes

\* A place with three entities around it is not simple.
LEMMA ThreeAround ==
    ASSUME Given, NEW place \in Nat, NEW a \in AroundIn(entities, place), NEW b \in AroundIn(entities, place),
           NEW c \in AroundIn(entities, place),
           a # b, b # c, a # c
    PROVE  ~(Cardinality(AroundIn(entities, place)) <= 2)
<1>1. IsFiniteSet(AroundIn(entities, place))
  <2>1. IsFiniteSet(1..Len(entities))
    BY FS_Interval DEF Given
  <2> QED
    BY <2>1, OverAround, FS_Subset DEF Given
<1>2. IsFiniteSet({a}) /\ Cardinality({a}) = 1
  BY FS_Singleton
<1>3. IsFiniteSet({a} \union {b}) /\ Cardinality({a} \union {b}) = 2
  BY <1>2, FS_AddElement
<1>4. IsFiniteSet(({a} \union {b}) \union {c}) /\ Cardinality(({a} \union {b}) \union {c}) = 3
  BY <1>3, FS_AddElement
<1>5. ({a} \union {b}) \union {c} \in SUBSET AroundIn(entities, place)
  OBVIOUS
<1>6. 3 <= Cardinality(AroundIn(entities, place)) /\ Cardinality(AroundIn(entities, place)) \in Nat
  BY <1>1, <1>4, <1>5, FS_Subset, FS_CardinalityType
<1> QED
  BY <1>6

\* Two entities of one range are all there are around a simple place in them.
LEMMA SimplePair ==
    ASSUME Given, NEW f \in DOMAIN entities, f + 1 \in DOMAIN entities, entities[f + 1] = entities[f],
           NEW place \in Nat, f \in OverIn(entities, place), SimpleIn(entities, place)
    PROVE  OverIn(entities, place) = f..f + 1
<1>1. f + 1 \in OverIn(entities, place) /\ f # f + 1 /\ f \in Nat
  BY EntityTypes DEF OverIn
<1>2. f \in AroundIn(entities, place) /\ f + 1 \in AroundIn(entities, place)
  BY <1>1, OverAround
<1>3. \A m \in AroundIn(entities, place) : m \in {f, f + 1}
  BY <1>1, <1>2, ThreeAround DEF SimpleIn
<1>4. OverIn(entities, place) = {f, f + 1}
  BY <1>1, <1>3, OverAround
<1>5. f..f + 1 = {f, f + 1}
  BY <1>1
<1> QED
  BY <1>4, <1>5
-----------------------------------------------------------------------------
\* Every entity handled so far ends where the outermost one does, or before.
LEMMA EndsBefore ==
    ASSUME Given, NEW f, Outer(f), i \in 1..Len(entities) + 1, NEW m \in DOMAIN entities, m < i
    PROVE  entities[m].end <= prevEntityEnd
<1>1. f \in Nat /\ f # 0 /\ f \in DOMAIN entities /\ i \in Nat
  BY EntityTypes DEF Outer, Given
<1>2. CASE m < f
  BY <1>1, <1>2, EntityTypes DEF Outer
<1>3. CASE m = f
  BY <1>1, <1>3, EntityTypes DEF Outer
<1>4. CASE f < m
  <2>1. Within(entities[m], entities[f])
    <3>1. m \in Nat /\ i \in Nat /\ f \in Nat
      BY <1>1, EntityTypes, Zenon
    <3>2. m \in f + 1..i - 1 /\ f > 0
      BY <1>1, <1>4, <3>1
    <3> QED
      BY <3>2, Zenon DEF Outer
  <2> QED
    BY <1>1, <2>1 DEF Outer, Within
<1> QED
  BY <1>1, <1>2, <1>3, <1>4, EntityTypes

\* Before the entity the loop is at there is plain text only.
LEMMA PlainOver ==
    ASSUME Given, NEW f, Outer(f), i \in 1..Len(entities) + 1, NEW place \in Nat, prevEntityEnd <= place,
           i <= Len(entities) => place < entities[i].offset
    PROVE  OverIn(entities, place) = {}
<1> SUFFICES ASSUME NEW m \in OverIn(entities, place) PROVE FALSE
  OBVIOUS
<1>1. m \in DOMAIN entities /\ entities[m].offset <= place /\ place < entities[m].end
  BY DEF OverIn
<1>2. CASE m < i
  <2>1. prevEntityEnd \in Nat
    BY EntityTypes DEF Outer, Given
  <2> QED
    BY <1>1, <1>2, <2>1, EndsBefore, EntityTypes
<1>3. CASE m = i
  BY <1>1, <1>3, EntityTypes
<1>4. CASE i < m
  <2>1. i \in DOMAIN entities /\ entities[i].offset <= entities[m].offset
    BY <1>1, <1>4, EntityTypes, LaterLies
  <2> QED
    BY <1>1, <2>1, EntityTypes
<1> QED
  BY <1>1, <1>2, <1>3, <1>4, EntityTypes

\* What is shown ends within the text.
LEMMA BoundTypes ==
    ASSUME Given, NEW f, Outer(f), i \in 1..Len(entities) + 1
    PROVE  f \in Nat /\ i \in Nat /\ prevEntityEnd \in 0..length /\ length \in Nat /\ (f > 0 => f \in DOMAIN entities)
<1>1. f \in Nat /\ i \in Nat /\ (f > 0 => f \in DOMAIN entities) /\ length \in Nat
  BY TextAssumption DEF Outer, Given
<1>2. CASE f = 0
  BY <1>1, <1>2 DEF Outer
<1>3. CASE f > 0
  BY <1>1, <1>3, EntityTypes DEF Outer
<1> QED
  BY <1>1, <1>2, <1>3

\* Where the loop is, in numbers.
LEMMA HereTypes ==
    ASSUME TInv, NEW f, Outer(f)
    PROVE  /\ Given /\ Chars(result) /\ i \in 1..Len(entities) + 1
           /\ i \in Nat /\ i >= 1 /\ Len(entities) \in Nat /\ length \in Nat
           /\ prevEntityEnd \in Nat /\ prevEntityEnd <= length
           /\ f \in Nat /\ (f > 0 => f \in DOMAIN entities)
           /\ DOMAIN entities = 1..Len(entities)
<1>1. Given /\ Chars(result) /\ i \in 1..Len(entities) + 1
  BY Zenon DEF TInv, Chars
<1>2. f \in Nat /\ i \in Nat /\ prevEntityEnd \in 0..length /\ length \in Nat /\ (f > 0 => f \in DOMAIN entities)
  BY <1>1, BoundTypes, Zenon
<1>3. Len(entities) \in Nat /\ DOMAIN entities = 1..Len(entities)
  BY <1>1 DEF Given
<1> QED
  BY <1>1, <1>2, <1>3

\* The entity the loop is at.
LEMMA EntityHere ==
    ASSUME TInv, i <= Len(entities)
    PROVE  /\ i \in DOMAIN entities /\ i \in Nat
           /\ entities[i].offset \in Nat /\ entities[i].end \in Nat
           /\ entities[i].offset < entities[i].end /\ entities[i].end <= length
<1>1. Given /\ i \in DOMAIN entities
  BY DEF TInv, Given
<1> QED
  BY <1>1, EntityTypes, Zenon

\* A slice, and one that is wrapped, as what may be appended.
LEMMA SliceFollows ==
    ASSUME Given, NEW from \in Nat, NEW to \in Nat, from <= to, to <= length
    PROVE  /\ Chars(Slice(from, to)) /\ Len(Slice(from, to)) = to - from /\ Follow(Slice(from, to), from)
           /\ \A k \in DOMAIN Slice(from, to) : Tagged(Slice(from, to)[k]) = {}
<1> DEFINE s == Slice(from, to)
<1>1. /\ s \in Seq(Char) /\ Len(s) = to - from
      /\ \A k \in DOMAIN s : s[k].at = from + k - 1 /\ Tagged(s[k]) = {}
  BY SliceChars, Zenon
<1> HIDE DEF s
<1>2. Chars(s) /\ Follow(s, from)
  BY <1>1, Zenon DEF Chars, Follow
<1> QED
  BY <1>1, <1>2, Zenon DEF s

LEMMA WrapFollows ==
    ASSUME NEW chars, NEW from, Chars(chars), Follow(chars, from), i \in DOMAIN entities
    PROVE  /\ Chars(wrapEntity(chars)) /\ Len(wrapEntity(chars)) = Len(chars) /\ Follow(wrapEntity(chars), from)
           /\ DOMAIN wrapEntity(chars) = DOMAIN chars
           /\ \A k \in DOMAIN chars : Tagged(wrapEntity(chars)[k]) = Tagged(chars[k]) \union {i}
<1> DEFINE w == wrapEntity(chars)
<1>1. /\ w \in Seq(Char) /\ Len(w) = Len(chars) /\ DOMAIN w = DOMAIN chars
      /\ \A k \in DOMAIN chars : w[k].at = chars[k].at /\ Tagged(w[k]) = Tagged(chars[k]) \union {i}
  BY WrapChars, Zenon DEF Chars
<1> HIDE DEF w
<1>2. \A k \in DOMAIN w : w[k].at = from + k - 1
  BY <1>1, Zenon DEF Follow
<1> QED
  BY <1>1, <1>2, Zenon DEF Chars, Follow, w

\* The characters of a sequence that follow from a place are where they are.
LEMMA FollowAt ==
    ASSUME NEW s, NEW from \in Nat, NEW to \in Nat, Chars(s), Len(s) = to - from, Follow(s, from)
    PROVE  \A k \in DOMAIN s : s[k].at \in from..to - 1 /\ s[k].at \in Nat
<1> TAKE k \in DOMAIN s
<1>1. k \in 1..to - from
  BY DEF Chars
<1>2. s[k].at = from + k - 1
  BY DEF Follow
<1> QED
  BY <1>1, <1>2

\* Appending keeps the characters in the text.
LEMMA AppendChars ==
    ASSUME NEW s, NEW t, Chars(s), Chars(t)
    PROVE  Chars(s \o t)
BY DEF Chars

\* The text and its entities stay.
LEMMA GivenStays ==
    ASSUME Given, UNCHANGED <<length, entities>>
    PROVE  Given' /\ Char' = Char
BY DEF Given, Ranges, Ordered, Apart, Within, Char

\* The plain text at the end.
LEMMA FinishStep == TInv /\ Finish => TInv'
<1> SUFFICES ASSUME TInv, Finish PROVE TInv'
  OBVIOUS
<1>1. PICK f \in 0..i - 1 : Outer(f) /\ Shows(entities, result, Bound(f), i - 1)
  BY Zenon DEF TInv
<1>2. /\ Given /\ Chars(result) /\ i \in 1..Len(entities) + 1
      /\ i \in Nat /\ i >= 1 /\ Len(entities) \in Nat /\ length \in Nat
      /\ prevEntityEnd \in Nat /\ prevEntityEnd <= length
      /\ f \in Nat /\ (f > 0 => f \in DOMAIN entities)
  BY <1>1, HereTypes, Zenon
<1>3. UNCHANGED <<length, entities, i, prevEntityEnd, wrapped>> /\ phase = "loop" /\ phase' = "done"
  BY DEF Finish, given
<1>4. i = Len(entities) + 1
  <2>1. i > Len(entities)
    BY DEF Finish
  <2> QED
    BY <1>2, <2>1
<1>5. Bound(f) = prevEntityEnd
  BY <1>2, <1>3, <1>4 DEF Bound, Pending
<1> DEFINE add == Slice(prevEntityEnd, length)
           n == i - 1
<1>6. result' = result \o add
  BY Zenon DEF Finish
<1>7. n \in Nat /\ length <= length
  BY <1>2
<1>8. /\ Chars(add) /\ Len(add) = length - prevEntityEnd /\ Follow(add, prevEntityEnd)
      /\ \A k \in DOMAIN add : Tagged(add[k]) = {}
  BY <1>2, <1>7, SliceFollows, Zenon
<1> HIDE DEF add
<1>9. \A k \in DOMAIN add : OverIn(entities, add[k].at) = {}
  <2> TAKE k \in DOMAIN add
  <2>1. add[k].at \in prevEntityEnd..length - 1 /\ add[k].at \in Nat
    BY <1>2, <1>8, FollowAt, Zenon
  <2>2. prevEntityEnd <= add[k].at
    BY <1>2, <2>1
  <2>3. ~(i <= Len(entities))
    BY <1>2, <1>4
  <2> QED
    BY <1>1, <1>2, <2>1, <2>2, <2>3, PlainOver, Zenon
<1>10. Shows(entities, result \o add, length, n)
  <2>1. Shows(entities, result, prevEntityEnd, n)
    BY <1>1, <1>5
  <2> HIDE DEF n
  <2>2. TaggedUpTo(entities, add, n)
    BY <1>9, Zenon DEF TaggedUpTo
  <2>3. TaggedWhereSimple(entities, add)
    BY <1>8, <1>9, Zenon DEF TaggedWhereSimple
  <2>4. NoneBetween(entities, n, n, prevEntityEnd)
    BY Zenon DEF NoneBetween
  <2> QED
    BY <1>2, <1>8, <2>1, <2>2, <2>3, <2>4, AppendAbove, Zenon
<1>11. Shows(entities, result, Bound(f), i - 1)'
  <2>1. Bound(f)' = length'
    BY <1>3 DEF Bound
  <2> QED
    BY <1>3, <1>6, <1>10, <2>1
<1>12. Given' /\ Char' = Char
  BY <1>2, <1>3, GivenStays, Zenon
<1>13. Outer(f)'
  BY <1>1, <1>3, <1>12 DEF Outer, Wraps
<1>14. result' \in Seq(Char') /\ i' \in 1..Len(entities') + 1 /\ i' = Len(entities') + 1
  <2>1. Chars(result')
    BY <1>2, <1>6, <1>8, AppendChars, Zenon
  <2> QED
    BY <1>2, <1>3, <1>4, <1>12, <2>1 DEF Chars
<1>15. f \in 0..i' - 1
  BY <1>1, <1>3
<1> QED
  BY <1>3, <1>11, <1>12, <1>13, <1>14, <1>15, Zenon DEF TInv

\* What a fresh entity leaves of the text, its characters and the numbers.
LEMMA FreshFacts ==
    ASSUME TInv, Fresh, NEW f, Outer(f), NEW from, NEW to, from = entities[i].offset, to = entities[i].end
    PROVE  /\ Given /\ Given' /\ Char' = Char /\ UNCHANGED <<length, entities>>
           /\ Chars(result) /\ i \in DOMAIN entities /\ i \in 1..Len(entities) + 1 /\ i <= Len(entities)
           /\ i \in Nat /\ i >= 1 /\ i' = i + 1 /\ Len(entities) \in Nat /\ length \in Nat
           /\ f \in Nat /\ (f > 0 => f \in DOMAIN entities)
           /\ from \in Nat /\ to \in Nat /\ from < to /\ from <= to /\ to <= length /\ from <= length
           /\ prevEntityEnd \in Nat /\ prevEntityEnd <= from /\ prevEntityEnd' = to
           /\ phase = "loop" /\ phase' = "loop"
           /\ Chars(wrapped') /\ Len(wrapped') = to - from /\ Follow(wrapped', from)
           /\ \A k \in DOMAIN wrapped' : Tagged(wrapped'[k]) = {i}
           /\ DOMAIN entities = 1..Len(entities)
<1>1. /\ UNCHANGED <<length, entities>> /\ i <= Len(entities) /\ i' = i + 1 /\ phase = "loop" /\ phase' = "loop"
      /\ entities[i].offset >= prevEntityEnd /\ prevEntityEnd' = entities[i].end
      /\ wrapped' = wrapEntity(Slice(entities[i].offset, entities[i].end))
  BY DEF Fresh, given
<1>2. /\ Given /\ Chars(result) /\ i \in 1..Len(entities) + 1
      /\ i \in Nat /\ i >= 1 /\ Len(entities) \in Nat /\ length \in Nat
      /\ prevEntityEnd \in Nat /\ f \in Nat /\ (f > 0 => f \in DOMAIN entities)
      /\ DOMAIN entities = 1..Len(entities)
  BY HereTypes, Zenon
<1>3. /\ i \in DOMAIN entities /\ entities[i].offset \in Nat /\ entities[i].end \in Nat
      /\ entities[i].offset < entities[i].end /\ entities[i].end <= length
  BY <1>1, EntityHere, Zenon
<1>4. /\ from \in Nat /\ to \in Nat /\ from < to /\ from <= to /\ to <= length /\ from <= length
      /\ prevEntityEnd <= from /\ prevEntityEnd' = to
  BY <1>1, <1>2, <1>3
<1>5. Given' /\ Char' = Char
  BY <1>1, <1>2, GivenStays, Zenon
<1> DEFINE own == Slice(from, to)
<1>6. /\ Chars(own) /\ Len(own) = to - from /\ Follow(own, from)
      /\ \A k \in DOMAIN own : Tagged(own[k]) = {}
  BY <1>2, <1>4, SliceFollows, Zenon
<1>7. wrapped' = wrapEntity(own)
  BY <1>1
<1> HIDE DEF own
<1>8. /\ Chars(wrapped') /\ Len(wrapped') = Len(own) /\ Follow(wrapped', from) /\ DOMAIN wrapped' = DOMAIN own
      /\ \A k \in DOMAIN own : Tagged(wrapped'[k]) = Tagged(own[k]) \union {i}
  BY <1>3, <1>6, <1>7, WrapFollows, Zenon
<1>9. \A k \in DOMAIN wrapped' : Tagged(wrapped'[k]) = {i}
  BY <1>6, <1>8
<1> QED
  BY <1>1, <1>2, <1>3, <1>4, <1>5, <1>6, <1>8, <1>9, Zenon

\* A fresh entity is the outermost one from then on.
LEMMA FreshKeeps ==
    ASSUME TInv, Fresh, NEW g, g = i, Chars(result'), Shows(entities, result', Bound(g)', i)
    PROVE  TInv'
<1> DEFINE from == entities[i].offset
           to == entities[i].end
<1>1. PICK f \in 0..i - 1 : Outer(f)
  BY Zenon DEF TInv
<1>2. /\ Given /\ Given' /\ Char' = Char /\ UNCHANGED <<length, entities>>
      /\ i \in DOMAIN entities /\ i \in 1..Len(entities) + 1 /\ i <= Len(entities)
      /\ i \in Nat /\ i >= 1 /\ i' = i + 1 /\ Len(entities) \in Nat
      /\ from \in Nat /\ to \in Nat /\ prevEntityEnd \in Nat /\ prevEntityEnd <= from /\ prevEntityEnd' = to
      /\ phase' = "loop"
      /\ Chars(wrapped') /\ Len(wrapped') = to - from /\ Follow(wrapped', from)
      /\ \A k \in DOMAIN wrapped' : Tagged(wrapped'[k]) = {i}
      /\ DOMAIN entities = 1..Len(entities)
  BY <1>1, FreshFacts, Zenon
<1>n. i \in Nat /\ i >= 1 /\ i' = i + 1 /\ Len(entities) \in Nat /\ i <= Len(entities)
  BY <1>2, Zenon
<1>3. i' - 1 = i /\ i..i = {i} /\ i' \in 1..Len(entities) + 1 /\ i \in 0..i /\ i > 0 /\ i # 0 /\ i + 1..i = {}
  BY <1>n
<1>4. Wraps(g, i - 1)'
  <2>1. entities'[g].offset = from /\ entities'[g].end = to
    BY <1>2
  <2>2. wrapped' \in Seq(Char') /\ (\A k \in DOMAIN wrapped' : wrapped'[k].at = from + k - 1 /\ Tagged(wrapped'[k]) = g..i' - 1)
    BY <1>2, <1>3, Zenon DEF Chars, Follow
  <2> QED
    BY <1>2, <2>1, <2>2 DEF Wraps, Tagged
<1>5. ASSUME NEW m \in 1..i - 1 PROVE entities[m].end <= from
  <2>1. m \in DOMAIN entities /\ m < i
    <3>1. m \in 1..Len(entities) /\ m < i
      BY <1>n
    <3> QED
      BY <1>2, <3>1, Zenon
  <2>2. entities[m].end <= prevEntityEnd
    BY <1>1, <1>2, <2>1, EndsBefore, Zenon
  <2>3. entities[m].end \in Nat
    BY <1>2, <2>1, EntityTypes, Zenon
  <2>4. from \in Nat /\ prevEntityEnd \in Nat /\ prevEntityEnd <= from
    BY <1>2, Zenon
  <2> HIDE DEF from
  <2> QED
    BY <2>2, <2>3, <2>4
<1>6. Outer(g)'
  <2>1. g > 0 /\ g \in 0..i' - 1 /\ g + 1..i' - 1 = {}
    BY <1>3
  <2>2. prevEntityEnd' = entities'[g].end /\ (\A m \in 1..g - 1 : entities'[m].end <= entities'[g].offset)
    BY <1>2, <1>5
  <2> QED
    BY <1>2, <1>3, <1>4, <2>1, <2>2 DEF Outer
<1>7. result' \in Seq(Char')
  BY <1>2 DEF Chars
<1>8. Shows(entities, result, Bound(g), i - 1)' /\ g \in 0..i' - 1
  BY <1>2, <1>3
<1> HIDE DEF from, to
<1>9. i' \in 1..Len(entities') + 1
  BY <1>2, <1>3
<1> QED
  BY <1>2, <1>6, <1>7, <1>8, <1>9, Zenon DEF TInv

\* The plain text before a fresh entity, and its own unless it waits.
LEMMA FreshStep == TInv /\ Fresh => TInv'
<1> SUFFICES ASSUME TInv, Fresh PROVE TInv'
  OBVIOUS
<1>0. PICK g : g = i
  OBVIOUS
<1>1. PICK f \in 0..i - 1 : Outer(f) /\ Shows(entities, result, Bound(f), i - 1)
  BY Zenon DEF TInv
<1> DEFINE from == entities[i].offset
           to == entities[i].end
           plain == Slice(prevEntityEnd, from)
           mid == result \o plain
           n == i - 1
<1>2. /\ Given /\ UNCHANGED <<length, entities>> /\ Chars(result)
      /\ i \in DOMAIN entities /\ i \in 1..Len(entities) + 1 /\ i <= Len(entities)
      /\ i \in Nat /\ i >= 1 /\ i' = i + 1 /\ length \in Nat
      /\ f \in Nat /\ (f > 0 => f \in DOMAIN entities)
      /\ from \in Nat /\ to \in Nat /\ from < to /\ from <= to /\ to <= length /\ from <= length
      /\ prevEntityEnd \in Nat /\ prevEntityEnd <= from /\ prevEntityEnd' = to
      /\ phase = "loop" /\ phase' = "loop"
      /\ Chars(wrapped') /\ Len(wrapped') = to - from /\ Follow(wrapped', from)
      /\ \A k \in DOMAIN wrapped' : Tagged(wrapped'[k]) = {i}
      /\ DOMAIN entities = 1..Len(entities)
  BY <1>1, FreshFacts, Zenon
<1>n. /\ i \in Nat /\ i >= 1 /\ i' = i + 1 /\ i <= Len(entities)
      /\ from \in Nat /\ to \in Nat /\ prevEntityEnd \in Nat /\ prevEntityEnd <= from /\ from < to
  BY <1>2, Zenon
<1>3. result' = mid \o IF NextIsSame THEN <<>> ELSE wrapped'
  BY DEF Fresh
<1>4. Bound(f) = prevEntityEnd
  <2>1. ASSUME Pending(f) PROVE FALSE
    <3>1. f > 0 /\ f \in DOMAIN entities /\ entities[f] = entities[i]
      BY <1>2, <2>1, Zenon DEF Pending
    <3>2. prevEntityEnd = entities[f].end
      BY <1>1, <3>1, Zenon DEF Outer
    <3>3. prevEntityEnd = to
      BY <3>1, <3>2
    <3> HIDE DEF from, to
    <3> QED
      BY <1>2, <3>3
  <2> QED
    BY <1>2, <2>1 DEF Bound
<1>5. /\ Chars(plain) /\ Len(plain) = from - prevEntityEnd /\ Follow(plain, prevEntityEnd)
      /\ \A k \in DOMAIN plain : Tagged(plain[k]) = {}
  BY <1>2, SliceFollows, Zenon
<1> HIDE DEF plain
<1>6. Chars(mid) /\ Shows(entities, mid, from, i)
  <2>1. \A k \in DOMAIN plain : OverIn(entities, plain[k].at) = {}
    <3> TAKE k \in DOMAIN plain
    <3>1. plain[k].at \in prevEntityEnd..from - 1 /\ plain[k].at \in Nat
      BY <1>2, <1>5, FollowAt, Zenon
    <3>2. prevEntityEnd <= plain[k].at /\ plain[k].at < entities[i].offset
      <4>1. from \in Nat /\ prevEntityEnd \in Nat
        BY <1>n, Zenon
      <4>2. prevEntityEnd <= plain[k].at /\ plain[k].at < from
        <5> HIDE DEF from
        <5> QED
          BY <3>1, <4>1
      <4> QED
        BY <4>2
    <3> QED
      BY <1>1, <1>2, <3>1, <3>2, PlainOver, Zenon
  <2>2. TaggedUpTo(entities, plain, i)
    BY <2>1, Zenon DEF TaggedUpTo
  <2>3. TaggedWhereSimple(entities, plain)
    BY <1>5, <2>1, Zenon DEF TaggedWhereSimple
  <2>4. NoneBetween(entities, n, i, prevEntityEnd)
    <3> SUFFICES ASSUME NEW place \in 0..prevEntityEnd - 1, NEW m \in OverIn(entities, place), m <= i PROVE m <= n
      BY Zenon DEF NoneBetween
    <3>1. m \in DOMAIN entities /\ entities[m].offset <= place /\ m \in Nat
      BY <1>2, EntityTypes, Zenon DEF OverIn
    <3>2. ~(from <= place)
      <4> HIDE DEF from
      <4> QED
        BY <1>n
    <3>3. m # i
      BY <3>1, <3>2
    <3> QED
      BY <1>n, <3>1, <3>3
  <2>5. Shows(entities, result, prevEntityEnd, n)
    BY <1>1, <1>4
  <2> HIDE DEF n, from
  <2>6. Shows(entities, result \o plain, from, i)
    BY <1>2, <1>5, <2>2, <2>3, <2>4, <2>5, AppendAbove, Zenon
  <2>7. Chars(result \o plain)
    BY <1>2, <1>5, AppendChars, Zenon
  <2> QED
    BY <2>6, <2>7
<1> HIDE DEF mid
<1>7. CASE NextIsSame
  <2>1. result' = mid
    BY <1>3, <1>6, <1>7 DEF Chars
  <2>2. Pending(g)'
    <3>1. i < Len(entities) /\ entities'[i'] = entities'[g] /\ entities' = entities
      BY <1>0, <1>2, <1>7 DEF NextIsSame
    <3>2. g > 0 /\ g = i' - 1 /\ i' <= Len(entities)
      <4>1. Len(entities) \in Nat
        BY <1>2 DEF Given
      <4> QED
        BY <1>0, <1>n, <3>1, <4>1
    <3> QED
      BY <3>1, <3>2, Zenon DEF Pending
  <2>3. Bound(g)' = from
    BY <1>0, <1>2, <2>2 DEF Bound
  <2> QED
    BY <1>0, <1>6, <2>1, <2>3, FreshKeeps
<1>8. CASE ~NextIsSame
  <2> DEFINE w == wrapped'
  <2>1. result' = mid \o w
    BY <1>3, <1>8
  <2>2. ~Pending(g)'
    BY <1>0, <1>2, <1>8 DEF Pending, NextIsSame
  <2>3. Bound(g)' = to
    BY <1>0, <1>2, <2>2 DEF Bound
  <2>4. \A k \in DOMAIN w : w[k].at \in from..to - 1 /\ w[k].at \in Nat
    BY <1>2, FollowAt, Zenon
  <2>5. ASSUME NEW k \in DOMAIN w
        PROVE  /\ \A m \in OverIn(entities, w[k].at) : m <= i => m \in Tagged(w[k])
               /\ SimpleIn(entities, w[k].at) => Tagged(w[k]) = OverIn(entities, w[k].at)
    <3> DEFINE place == w[k].at
    <3>1. place \in Nat /\ from <= place /\ place < to /\ Tagged(w[k]) = {i}
      <4>1. place \in from..to - 1 /\ place \in Nat /\ Tagged(w[k]) = {i}
        BY <1>2, <2>4, Zenon
      <4> HIDE DEF place, w, from, to
      <4> QED
        BY <1>n, <4>1
    <3> HIDE DEF place
    <3>2. i \in OverIn(entities, place)
      BY <1>2, <3>1, Zenon DEF OverIn
    <3>3. ASSUME NEW m \in DOMAIN entities, m < i PROVE entities[m].end <= from /\ ~(place < entities[m].end)
      <4>1. entities[m].end <= prevEntityEnd
        BY <1>1, <1>2, <3>3, EndsBefore, Zenon
      <4>2. entities[m].end \in Nat
        BY <1>2, EntityTypes, Zenon
      <4> HIDE DEF from, to
      <4> QED
        BY <1>n, <3>1, <4>1, <4>2
    <3>4. ASSUME NEW m \in OverIn(entities, place), m <= i PROVE m \in Tagged(w[k])
      <4>1. m \in DOMAIN entities /\ place < entities[m].end
        BY Zenon DEF OverIn
      <4>2. m \in Nat /\ ~(m < i)
        BY <1>2, <3>3, <4>1, EntityTypes, Zenon
      <4>3. m = i
        BY <1>2, <3>4, <4>2
      <4> QED
        BY <3>1, <4>3
    <3>5. ASSUME SimpleIn(entities, place) PROVE OverIn(entities, place) = {i}
      <4>1. \A m \in 1..i - 1 : entities[m].end <= entities[i].offset
        <5> TAKE m \in 1..i - 1
        <5>1. m \in DOMAIN entities /\ m < i
          <6>1. Len(entities) \in Nat /\ DOMAIN entities = 1..Len(entities)
            BY <1>2 DEF Given
          <6> QED
            BY <1>n, <6>1
        <5> QED
          BY <3>3, <5>1
      <4>2. ~(i < Len(entities) /\ entities[i + 1] = entities[i])
        BY <1>8, Zenon DEF NextIsSame
      <4> QED
        BY <1>2, <3>1, <3>2, <3>5, <4>1, <4>2, SimpleAlone, Zenon
    <3> QED
      BY <3>1, <3>4, <3>5, Zenon DEF place
  <2> HIDE DEF w
  <2>6. TaggedUpTo(entities, w, i) /\ TaggedWhereSimple(entities, w)
    BY <2>5, Zenon DEF TaggedUpTo, TaggedWhereSimple
  <2>7. NoneBetween(entities, i, i, from)
    BY Zenon DEF NoneBetween
  <2>8. Chars(w) /\ Len(w) = to - from /\ Follow(w, from)
    BY <1>2 DEF w
  <2> HIDE DEF from, to
  <2>9. Shows(entities, mid \o w, to, i)
    BY <1>2, <1>6, <2>6, <2>7, <2>8, AppendAbove, Zenon
  <2>10. Chars(result')
    BY <1>6, <2>1, <2>8, AppendChars, Zenon
  <2> QED
    BY <1>0, <2>1, <2>3, <2>9, <2>10, FreshKeeps
<1> QED
  BY <1>7, <1>8

\* A nested entity is within the outermost one, whose characters it wraps as well.
LEMMA NestedFacts ==
    ASSUME TInv, Nested, NEW f \in 0..i - 1, Outer(f), NEW from, NEW to, from = entities[f].offset, to = entities[f].end
    PROVE  /\ Given /\ Given' /\ Char' = Char /\ UNCHANGED <<length, entities>> /\ Chars(result)
           /\ f \in DOMAIN entities /\ i \in DOMAIN entities /\ DOMAIN entities = 1..Len(entities)
           /\ f \in Nat /\ f >= 1 /\ f < i /\ i \in Nat /\ i <= Len(entities) /\ Len(entities) \in Nat
           /\ i' = i + 1 /\ i' - 1 = i /\ phase = "loop" /\ phase' = "loop"
           /\ from \in Nat /\ to \in Nat /\ from < to /\ from <= to /\ to <= length
           /\ prevEntityEnd = to /\ prevEntityEnd' = to
           /\ Within(entities[i], entities[f])
           /\ Chars(wrapped') /\ Len(wrapped') = to - from /\ Follow(wrapped', from)
           /\ \A k \in DOMAIN wrapped' : Tagged(wrapped'[k]) = f..i
<1>1. /\ UNCHANGED <<length, entities, prevEntityEnd>> /\ i <= Len(entities) /\ i' = i + 1
      /\ phase = "loop" /\ phase' = "loop" /\ wrapped' = wrapEntity(wrapped) /\ entities[i].offset < prevEntityEnd
  BY DEF Nested, given
<1>2. /\ Given /\ Chars(result) /\ i \in Nat /\ i >= 1 /\ Len(entities) \in Nat /\ DOMAIN entities = 1..Len(entities)
      /\ f \in Nat /\ (f > 0 => f \in DOMAIN entities)
  BY HereTypes, Zenon
<1>3. i \in DOMAIN entities /\ entities[i].offset \in Nat /\ entities[i].end \in Nat
  BY <1>1, EntityHere, Zenon
<1>4. f > 0 /\ f >= 1 /\ f < i
  <2>1. ASSUME f = 0 PROVE FALSE
    <3>1. prevEntityEnd = 0
      BY <2>1, Zenon DEF Outer
    <3> QED
      BY <1>1, <1>3, <3>1
  <2> QED
    BY <1>2, <2>1
<1>5. f \in DOMAIN entities
  BY <1>2, <1>4, Zenon
<1>6. from \in Nat /\ to \in Nat /\ from < to /\ from <= to /\ to <= length
  <2>1. from \in Nat /\ to \in Nat /\ from < to /\ to <= length
    BY <1>2, <1>5, EntityTypes, Zenon
  <2> QED
    BY <2>1
<1>7. /\ prevEntityEnd = to /\ wrapped \in Seq(Char) /\ Len(wrapped) = to - from
      /\ \A k \in DOMAIN wrapped : wrapped[k].at = from + k - 1 /\ Tagged(wrapped[k]) = f..i - 1
  BY <1>4, Zenon DEF Outer, Wraps
<1>8. Within(entities[i], entities[f])
  <2>1. entities[f].end <= entities[i].offset \/ Within(entities[i], entities[f])
    BY <1>2, <1>3, <1>4, <1>5, LaterLies, Zenon
  <2>2. ~(to <= entities[i].offset)
    <3>1. entities[i].offset < to
      BY <1>1, <1>7, Zenon
    <3> QED
      BY <1>3, <1>6, <3>1
  <2> QED
    BY <2>1, <2>2
<1>9. Given' /\ Char' = Char
  BY <1>1, <1>2, GivenStays, Zenon
<1>10. /\ Chars(wrapped') /\ Len(wrapped') = Len(wrapped) /\ Follow(wrapped', from) /\ DOMAIN wrapped' = DOMAIN wrapped
       /\ \A k \in DOMAIN wrapped : Tagged(wrapped'[k]) = Tagged(wrapped[k]) \union {i}
  <2>1. Chars(wrapped) /\ Follow(wrapped, from)
    BY <1>7, Zenon DEF Chars, Follow
  <2> QED
    BY <1>1, <1>3, <2>1, WrapFollows, Zenon
<1>11. f..i = (f..i - 1) \union {i}
  BY <1>2, <1>4
<1>12. \A k \in DOMAIN wrapped' : Tagged(wrapped'[k]) = f..i
  <2> TAKE k \in DOMAIN wrapped'
  <2>1. Tagged(wrapped'[k]) = Tagged(wrapped[k]) \union {i} /\ Tagged(wrapped[k]) = f..i - 1
    BY <1>7, <1>10, Zenon
  <2> QED
    BY <1>11, <2>1, Zenon
<1>13. i' - 1 = i
  BY <1>1, <1>2
<1> QED
  BY <1>1, <1>2, <1>3, <1>4, <1>5, <1>6, <1>7, <1>8, <1>9, <1>10, <1>12, <1>13, Zenon

\* It stays the outermost one.
LEMMA NestedKeeps ==
    ASSUME TInv, Nested, NEW f \in 0..i - 1, Outer(f)
    PROVE  Outer(f)' /\ Bound(f)' = entities[f].end
<1> DEFINE from == entities[f].offset
           to == entities[f].end
<1>1. /\ Char' = Char /\ UNCHANGED <<length, entities>> /\ f \in Nat /\ f >= 1 /\ f < i /\ i \in Nat /\ i' = i + 1
      /\ i' - 1 = i /\ phase' = "loop" /\ prevEntityEnd' = to /\ Within(entities[i], entities[f])
      /\ Chars(wrapped') /\ Len(wrapped') = to - from /\ Follow(wrapped', from)
      /\ \A k \in DOMAIN wrapped' : Tagged(wrapped'[k]) = f..i
  BY NestedFacts
<1>2. f \in 0..i' - 1 /\ f > 0 /\ f # 0 /\ f # i' - 1
  <2>1. f \in Nat /\ f >= 1 /\ f < i /\ i \in Nat /\ i' = i + 1
    BY <1>1, Zenon
  <2> QED
    BY <2>1
<1>3. /\ \A m \in f + 1..i - 1 : Within(entities[m], entities[f])
      /\ \A m \in 1..f - 1 : entities[m].end <= entities[f].offset
  BY <1>2, Zenon DEF Outer
<1>4. \A m \in f + 1..i' - 1 : Within(entities[m], entities[f])
  <2> TAKE m \in f + 1..i' - 1
  <2>1. m = i \/ m \in f + 1..i - 1
    <3>1. f \in Nat /\ i \in Nat /\ i' - 1 = i
      BY <1>1, Zenon
    <3> QED
      BY <3>1
  <2> QED
    BY <1>1, <1>3, <2>1, Zenon
<1>5. Wraps(f, i - 1)'
  <2>1. wrapped' \in Seq(Char')
    BY <1>1, Zenon DEF Chars
  <2>2. \A k \in DOMAIN wrapped' : wrapped'[k].at = from + k - 1 /\ Tagged(wrapped'[k]) = f..i' - 1
    BY <1>1, Zenon DEF Follow
  <2> QED
    BY <1>1, <2>1, <2>2 DEF Wraps, Tagged
<1>6. Outer(f)'
  BY <1>1, <1>2, <1>3, <1>4, <1>5 DEF Outer, Within
<1>7. ~Pending(f)'
  BY <1>2 DEF Pending
<1> QED
  BY <1>1, <1>6, <1>7 DEF Bound

\* A nested entity completes one that waited, or shows its characters again.
LEMMA NestedStep == TInv /\ Nested => TInv'
<1> SUFFICES ASSUME TInv, Nested PROVE TInv'
  OBVIOUS
<1>1. PICK f \in 0..i - 1 : Outer(f) /\ Shows(entities, result, Bound(f), i - 1)
  BY Zenon DEF TInv
<1> DEFINE from == entities[f].offset
           to == entities[f].end
           w == wrapped'
           n == i - 1
<1>2. /\ Given /\ Given' /\ Char' = Char /\ UNCHANGED <<length, entities>> /\ Chars(result)
      /\ f \in DOMAIN entities /\ i \in DOMAIN entities /\ DOMAIN entities = 1..Len(entities)
      /\ f \in Nat /\ f >= 1 /\ f < i /\ i \in Nat /\ i <= Len(entities) /\ Len(entities) \in Nat
      /\ i' = i + 1 /\ i' - 1 = i /\ phase = "loop" /\ phase' = "loop"
      /\ from \in Nat /\ to \in Nat /\ from < to /\ from <= to /\ to <= length /\ prevEntityEnd = to
      /\ Within(entities[i], entities[f])
      /\ Chars(w) /\ Len(w) = to - from /\ Follow(w, from)
      /\ \A k \in DOMAIN w : Tagged(w[k]) = f..i
  BY <1>1, NestedFacts, Zenon
<1>3. Outer(f)' /\ Bound(f)' = to
  BY <1>1, NestedKeeps, Zenon
<1>4. result' = result \o w
  BY DEF Nested
<1>n. /\ f \in Nat /\ f >= 1 /\ f < i /\ i \in Nat /\ i <= Len(entities) /\ Len(entities) \in Nat
      /\ from \in Nat /\ to \in Nat /\ from < to
  BY <1>2, Zenon
<1> HIDE DEF w
<1>5. n \in Nat /\ n + 1 = i /\ i \in f..i /\ f > 0
  BY <1>n
<1>6. \A k \in DOMAIN w : w[k].at \in from..to - 1 /\ w[k].at \in Nat
  BY <1>2, FollowAt, Zenon
<1>7. ASSUME NEW place \in from..to - 1 PROVE place \in Nat /\ f \in OverIn(entities, place)
  <2>1. place \in Nat /\ from <= place /\ place < to
    <3> HIDE DEF from, to
    <3> QED
      BY <1>n
  <2> QED
    BY <1>2, <2>1, Zenon DEF OverIn
<1>8. Shows(entities, result \o w, to, i)
  <2>1. CASE Pending(f)
    <3>1. f = i - 1 /\ entities[i] = entities[f] /\ Bound(f) = from
      BY <1>2, <2>1 DEF Bound, Pending
    <3>2. f + 1 = i
      BY <1>n, <3>1
    <3>3. ASSUME NEW k \in DOMAIN w
          PROVE  /\ \A m \in OverIn(entities, w[k].at) : m <= i => m \in Tagged(w[k])
                 /\ SimpleIn(entities, w[k].at) => Tagged(w[k]) = OverIn(entities, w[k].at)
      <4> DEFINE place == w[k].at
      <4>1. place \in from..to - 1 /\ Tagged(w[k]) = f..i
        BY <1>2, <1>6, Zenon
      <4>2. place \in Nat /\ f \in OverIn(entities, place)
        BY <1>7, <4>1, Zenon
      <4> HIDE DEF place
      <4>3. ASSUME NEW m \in OverIn(entities, place), m <= i PROVE m \in f..i
        <5>1. m \in DOMAIN entities /\ place < entities[m].end
          BY Zenon DEF OverIn
        <5>2. m \in Nat /\ m >= 1 /\ entities[m].end \in Nat
          BY <1>2, <5>1, EntityTypes, Zenon
        <5>3. ASSUME m < f PROVE FALSE
          <6>1. m \in 1..f - 1
            BY <1>n, <5>2, <5>3
          <6>2. entities[m].end <= from
            BY <1>1, <1>5, <6>1, Zenon DEF Outer
          <6> HIDE DEF from, to
          <6> QED
            BY <1>n, <4>1, <5>1, <5>2, <6>2
        <5> QED
          BY <1>n, <4>3, <5>2, <5>3
      <4>4. ASSUME SimpleIn(entities, place) PROVE OverIn(entities, place) = f..i
        <5>1. f + 1 \in DOMAIN entities /\ entities[f + 1] = entities[f]
          BY <1>2, <3>1, <3>2
        <5>2. OverIn(entities, place) = f..f + 1
          BY <1>2, <4>2, <4>4, <5>1, SimplePair, Zenon
        <5> QED
          BY <3>2, <5>2
      <4> QED
        BY <4>1, <4>3, <4>4, Zenon DEF place
    <3>4. TaggedUpTo(entities, w, i) /\ TaggedWhereSimple(entities, w)
      BY <3>3, Zenon DEF TaggedUpTo, TaggedWhereSimple
    <3>5. NoneBetween(entities, n, i, from)
      <4> SUFFICES ASSUME NEW place \in 0..from - 1, NEW m \in OverIn(entities, place), m <= i PROVE m <= n
        BY Zenon DEF NoneBetween
      <4>1. m \in DOMAIN entities /\ entities[m].offset <= place /\ m \in Nat
        BY <1>2, EntityTypes, Zenon DEF OverIn
      <4>2. ~(from <= place)
        <5> HIDE DEF from
        <5> QED
          BY <1>n
      <4>3. m # i
        BY <3>1, <4>1, <4>2
      <4> QED
        BY <1>n, <4>1, <4>3
    <3>6. Shows(entities, result, from, n)
      BY <1>1, <3>1
    <3> HIDE DEF n, from, to
    <3> QED
      BY <1>2, <3>4, <3>5, <3>6, AppendAbove, Zenon
  <2>2. CASE ~Pending(f)
    <3>1. Bound(f) = to
      BY <1>2, <2>2 DEF Bound
    <3>2. ASSUME NEW place \in from..to - 1
          PROVE  f \in AroundIn(entities, place) /\ i \in AroundIn(entities, place) /\ place \in Nat
      <4>1. place \in Nat /\ f \in OverIn(entities, place)
        BY <1>7, Zenon
      <4>2. f \in AroundIn(entities, place)
        BY <1>2, <4>1, OverAround
      <4>3. i \in AroundIn(entities, place)
        BY <1>2, <4>1, Zenon DEF AroundIn
      <4> QED
        BY <4>1, <4>2, <4>3
    <3>3. ASSUME NEW place \in from..to - 1, SimpleIn(entities, place) PROVE FALSE
      <4>1. f \in AroundIn(entities, place) /\ i \in AroundIn(entities, place) /\ place \in Nat
        BY <3>2, Zenon
      <4>2. CASE f = n
        <5>1. entities[i] # entities[f]
          BY <1>5, <1>n, <2>2, <4>2, Zenon DEF Pending
        <5> QED
          BY <3>3, <4>1, <5>1, Zenon DEF SimpleIn
      <4>3. CASE f # n
        <5> DEFINE h == f + 1
        <5>1. h # f /\ h # i /\ f # i /\ h \in f + 1..i - 1 /\ h \in 1..Len(entities)
          BY <1>n, <4>3
        <5>2. h \in DOMAIN entities /\ Within(entities[h], entities[f])
          BY <1>1, <1>2, <1>5, <5>1, Zenon DEF Outer
        <5> HIDE DEF h
        <5>3. h \in AroundIn(entities, place)
          BY <1>7, <5>2, Zenon DEF AroundIn
        <5>4. ~(Cardinality(AroundIn(entities, place)) <= 2)
          BY <1>2, <4>1, <5>1, <5>3, ThreeAround, Zenon
        <5> QED
          BY <3>3, <5>4, Zenon DEF SimpleIn
      <4> QED
        BY <4>2, <4>3
    <3>4. Meet(entities, from, to)
      BY <3>2 DEF Meet
    <3>5. TaggedWith(entities, w, n + 1, to)
      <4> SUFFICES ASSUME NEW place \in 0..to - 1, i \in OverIn(entities, place)
                   PROVE  \E k \in DOMAIN w : w[k].at = place /\ i \in Tagged(w[k])
        BY <1>5, Zenon DEF TaggedWith
      <4>1. entities[i].offset <= place /\ from <= entities[i].offset /\ entities[i].offset \in Nat
        BY <1>2, EntityTypes, Zenon DEF OverIn, Within
      <4> DEFINE k == place - from + 1
      <4> HIDE DEF from, to
      <4>2. k \in 1..to - from /\ from + k - 1 = place
        <5>1. from <= place
          BY <1>n, <4>1
        <5> QED
          BY <1>n, <5>1
      <4> HIDE DEF k
      <4>3. k \in DOMAIN w
        <5>1. DOMAIN w = 1..Len(w) /\ Len(w) = to - from
          BY <1>2 DEF Chars
        <5> QED
          BY <4>2, <5>1, Zenon
      <4>4. w[k].at = place /\ i \in Tagged(w[k])
        <5>1. w[k].at = from + k - 1 /\ Tagged(w[k]) = f..i
          BY <1>2, <4>3, Zenon DEF Follow
        <5> QED
          BY <1>5, <4>2, <5>1, Zenon
      <4> QED
        BY <4>3, <4>4, Zenon
    <3>6. NotSimple(entities, w, to)
      <4> SUFFICES ASSUME NEW k \in DOMAIN w PROVE w[k].at < to /\ ~SimpleIn(entities, w[k].at)
        BY Zenon DEF NotSimple
      <4>1. w[k].at \in from..to - 1
        BY <1>6, Zenon
      <4>2. ~SimpleIn(entities, w[k].at)
        BY <3>3, <4>1, Zenon
      <4> HIDE DEF from, to
      <4> QED
        BY <1>n, <4>1, <4>2
    <3>7. Shows(entities, result, to, n)
      BY <1>1, <3>1
    <3> HIDE DEF n, from, to
    <3>8. Shows(entities, result \o w, to, n + 1)
      BY <1>2, <1>5, <3>4, <3>5, <3>6, <3>7, AppendAgain, Zenon
    <3> QED
      BY <1>5, <3>8
  <2> QED
    BY <2>1, <2>2
<1>9. result' \in Seq(Char')
  <2>1. Chars(result')
    BY <1>2, <1>4, AppendChars, Zenon
  <2> QED
    BY <1>2, <2>1, Zenon DEF Chars
<1>10. f \in 0..i' - 1 /\ i' \in 1..Len(entities') + 1
  <2>1. i' = i + 1 /\ entities' = entities
    BY <1>2, Zenon
  <2> QED
    BY <1>n, <2>1
<1>11. Shows(entities, result, Bound(f), i - 1)'
  BY <1>2, <1>3, <1>4, <1>8
<1> HIDE DEF from, to
<1> QED
  BY <1>2, <1>3, <1>9, <1>10, <1>11, Zenon DEF TInv

-----------------------------------------------------------------------------
\* The invariant of the rendering.
LEMMA RenderInvariance == RenderSpec => []TInv
<1>1. TInv /\ [RenderNext]_renderVars => TInv'
  <2> SUFFICES ASSUME TInv, [RenderNext]_renderVars PROVE TInv'
    OBVIOUS
  <2>1. CASE UNCHANGED renderVars
    BY <2>1 DEF renderVars, given, TInv, Given, Ranges, Ordered, Apart, Within, Char, Outer, Wraps, Bound, Pending
  <2> QED
    BY <2>1, FreshStep, NestedStep, FinishStep DEF RenderNext
<1> QED
  BY <1>1, InitTInv, PTL DEF RenderSpec

\* Of any text and any entities that lie as TDLib's do, the loop reads only entities and slices
\* that are there.
THEOREM RenderTypes == RenderSpec => []RenderTypeOK
<1>1. TInv => RenderTypeOK
  <2> SUFFICES ASSUME TInv PROVE RenderTypeOK
    OBVIOUS
  <2>1. PICK f \in 0..i - 1 : Outer(f)
    BY DEF TInv
  <2>2. Given /\ i \in 1..Len(entities) + 1 /\ result \in Seq(Char) /\ phase \in {"loop", "done"}
    BY DEF TInv
  <2>3. prevEntityEnd \in 0..length
    BY <2>1, <2>2, BoundTypes
  <2>4. wrapped \in Seq(Char)
    <3>1. CASE f = 0
      BY <2>1, <3>1 DEF Outer
    <3>2. CASE f > 0
      BY <2>1, <3>2 DEF Outer, Wraps
    <3> QED
      BY <2>1, <2>2, <3>1, <3>2, BoundTypes
  <2>5. \A chars \in {wrapped, result} : \A k \in DOMAIN chars :
            chars[k].at \in 0..length - 1 /\ chars[k].tags \in Seq(DOMAIN entities)
    <3>1. ASSUME NEW chars \in Seq(Char), NEW k \in DOMAIN chars
          PROVE  chars[k].at \in 0..length - 1 /\ chars[k].tags \in Seq(DOMAIN entities)
      <4>1. chars[k] \in Char
        OBVIOUS
      <4> QED
        BY <4>1 DEF Char
    <3> QED
      BY <2>2, <2>4, <3>1
  <2> QED
    BY <2>2, <2>3, <2>5 DEF RenderTypeOK, Given
<1> QED
  BY <1>1, RenderInvariance, PTL

\* Of any such text every character is shown, in all its entities and in order, and one that is in
\* no entity, in one or in two of the same range is shown once.
THEOREM TextIsShown == RenderSpec => []ShownRight
<1>1. TInv => ShownRight
  <2> SUFFICES ASSUME TInv, phase = "done" PROVE ShownRight
    BY DEF ShownRight, ShownOnce, NothingLost
  <2>1. Shows(entities, result, length, i - 1) /\ Given /\ i = Len(entities) + 1
    BY DEF TInv, Bound
  <2>2. \A place : Over(place) = OverIn(entities, place)
    BY DEF Over, OverIn
  <2>3. \A place : Around(place) = AroundIn(entities, place)
    BY <2>2 DEF Around, AroundIn
  <2>4. \A place : Simple(place) <=> SimpleIn(entities, place)
    BY <2>3 DEF Simple, SimpleIn
  <2>5. \A place : \A m \in OverIn(entities, place) : m <= i - 1
    BY <2>1, EntityTypes DEF OverIn
  <2>6. ShownOnce
    BY <2>1, <2>2, <2>4 DEF ShownOnce, Shows, Once
  <2>7. NothingLost
    BY <2>1, <2>2, <2>3, <2>5 DEF NothingLost, Shows, ShowsAll, InOrder
  <2> QED
    BY <2>6, <2>7 DEF ShownRight
<1> QED
  BY <1>1, RenderInvariance, PTL
=================================================================================

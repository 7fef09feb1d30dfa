------------------------------- MODULE RenderText -------------------------------
(***************************************************************************)
(* The rendering of a message's text: one pass over its entities, each of   *)
(* which is wrapped in HTML tags.  A character is its place in the UTF-16    *)
(* text and the entities it is wrapped in, outermost first; what tag a type  *)
(* of entity gets and the escaping of characters are left out.               *)
(*                                                                         *)
(* Entities are as TDLib sends them: by offset, the longer first, disjoint   *)
(* or one within the other, and never empty.                                 *)
(***************************************************************************)
EXTENDS Integers, Sequences, FiniteSets

CONSTANTS
    MaxLength,      \* bound of a text
    MaxEntities     \* bound of its entities

ASSUME TextAssumption == MaxLength \in Nat /\ MaxEntities \in Nat

VARIABLES
    length,         \* of utfText
    entities,
    i,              \* the entity the loop is at
    prevEntityEnd,
    wrapped,
    result,
    phase              \* "loop", "done"

given == <<length, entities>>
renderVars == <<given, i, prevEntityEnd, wrapped, result, phase>>

Ranges(n) == {e \in [offset: 0..n, end: 0..n] : e.offset < e.end}
Apart(e, f) == e.end <= f.offset \/ f.end <= e.offset
Within(e, f) == f.offset <= e.offset /\ e.end <= f.end
Ordered(list) ==
    \A k, m \in DOMAIN list : k < m =>
        /\ list[k].offset <= list[m].offset
        /\ Apart(list[k], list[m]) \/ Within(list[m], list[k])

RenderInit ==
    /\ length \in 0..MaxLength
    /\ entities \in UNION {[1..n -> Ranges(length)] : n \in 0..MaxEntities}
    /\ Ordered(entities)
    /\ i = 1 /\ prevEntityEnd = 0 /\ wrapped = <<>> /\ result = <<>> /\ phase = "loop"

-----------------------------------------------------------------------------
\* utfText[from:to]
Slice(from, to) == [k \in 1..(to - from) |-> [at |-> from + k - 1, tags |-> <<>>]]

\* wrapEntity of the i-th entity.
wrapEntity(chars) == [k \in DOMAIN chars |-> [chars[k] EXCEPT !.tags = <<i>> \o @]]

NextIsSame == i < Len(entities) /\ entities[i + 1] = entities[i]

\* An entity that begins before the last one ended.
Nested ==
    /\ phase = "loop" /\ i <= Len(entities)
    /\ entities[i].offset < prevEntityEnd
    /\ wrapped' = wrapEntity(wrapped)
    /\ result' = result \o wrapped'
    /\ i' = i + 1
    /\ UNCHANGED <<given, prevEntityEnd, phase>>

\* A faulty loop, whose slice for the next plain text begins one too late.
FreshLate ==
    /\ phase = "loop" /\ i <= Len(entities)
    /\ LET e == entities[i]
       IN  /\ e.offset >= prevEntityEnd
           /\ wrapped' = wrapEntity(Slice(e.offset, e.end))
           /\ result' = result \o Slice(prevEntityEnd, e.offset) \o IF NextIsSame THEN <<>> ELSE wrapped'
           /\ prevEntityEnd' = e.end + 1
    /\ i' = i + 1
    /\ UNCHANGED <<given, phase>>

\* A faulty loop, which does not look at the next entity.
FreshAlways ==
    /\ phase = "loop" /\ i <= Len(entities)
    /\ LET e == entities[i]
       IN  /\ e.offset >= prevEntityEnd
           /\ wrapped' = wrapEntity(Slice(e.offset, e.end))
           /\ result' = result \o Slice(prevEntityEnd, e.offset) \o wrapped'
           /\ prevEntityEnd' = e.end
    /\ i' = i + 1
    /\ UNCHANGED <<given, phase>>

\* The plain text before an entity, and the entity's unless the next has the same range.
Fresh ==
    /\ phase = "loop" /\ i <= Len(entities)
    /\ LET e == entities[i]
       IN  /\ e.offset >= prevEntityEnd
           /\ wrapped' = wrapEntity(Slice(e.offset, e.end))
           /\ result' = result \o Slice(prevEntityEnd, e.offset) \o IF NextIsSame THEN <<>> ELSE wrapped'
           /\ prevEntityEnd' = e.end
    /\ i' = i + 1
    /\ UNCHANGED <<given, phase>>

\* The plain text after the last entity.
Finish ==
    /\ phase = "loop" /\ i > Len(entities)
    /\ result' = result \o Slice(prevEntityEnd, length)
    /\ phase' = "done"
    /\ UNCHANGED <<given, i, prevEntityEnd, wrapped>>

RenderNext == Nested \/ Fresh \/ Finish

RenderSpec == RenderInit /\ [][RenderNext]_renderVars

-----------------------------------------------------------------------------
\* Types, and slices within the text.
RenderTypeOK ==
    /\ length \in 0..MaxLength
    /\ entities \in Seq(Ranges(length)) /\ Len(entities) <= MaxEntities
    /\ i \in 1..Len(entities) + 1
    /\ prevEntityEnd \in 0..length
    /\ \A chars \in {wrapped, result} : \A k \in DOMAIN chars :
        chars[k].at \in 0..length - 1 /\ chars[k].tags \in Seq(DOMAIN entities)
    /\ phase \in {"loop", "done"}

\* The entities a place of the text is in, and those within the same outermost one.
Over(place) == {m \in DOMAIN entities : entities[m].offset <= place /\ place < entities[m].end}
Around(place) == {m \in DOMAIN entities : \E o \in Over(place) : Within(entities[m], entities[o])}

\* Where the code's one remembered entity is enough: at most two, of the same range.
Simple(place) ==
    /\ Cardinality(Around(place)) <= 2
    /\ \A m, n \in Around(place) : entities[m] = entities[n]

Tagged(char) == {char.tags[k] : k \in DOMAIN char.tags}

\* A character that is in no entity, in one, or in two of the same range, is shown once,
\* in exactly these.  (More of them, or one within a longer one, show the text again.)
ShownOnce ==
    phase = "done" => \A place \in 0..length - 1 : Simple(place) =>
        \E k \in DOMAIN result :
            /\ result[k].at = place /\ Tagged(result[k]) = Over(place)
            /\ \A m \in DOMAIN result \ {k} : result[m].at # place

\* However entities nest, every character is shown somewhere in each of its entities, and
\* never before one that precedes it, unless both are in one outermost entity.
NothingLost ==
    phase = "done" =>
        /\ \A place \in 0..length - 1 :
            /\ \E k \in DOMAIN result : result[k].at = place
            /\ \A m \in Over(place) :
                \E k \in DOMAIN result : result[k].at = place /\ m \in Tagged(result[k])
        /\ \A k, m \in DOMAIN result :
            k < m /\ result[k].at > result[m].at => Around(result[k].at) \intersect Around(result[m].at) # {}

\* The page shows every character, in its entities, and repeats none that the code can tell apart.
ShownRight == ShownOnce /\ NothingLost
=============================================================================

----------------------------- MODULE DayAnswers -----------------------------
(***************************************************************************)
(* What the cache directory promises the searches of public posts: a page   *)
(* of a query has one answer a day.  Once there is one it is the page's      *)
(* until midnight, when all are gone at once; an answer may be lost, and a   *)
(* page that lost its answer has none for the rest of the day.               *)
(* PublicPosts.tla implements it with files that several searches write.    *)
(***************************************************************************)
CONSTANTS
    PageNos,
    Whole       \* what may be an answer

VARIABLE answer     \* of each page: one of Whole, "none" yet, or "lost"

Init == answer = [i \in PageNos |-> "none"]

Keep(i) ==
    /\ answer[i] = "none"
    /\ \E a \in Whole : answer' = [answer EXCEPT ![i] = a]

\* One search spoils a file; the end of the process may spoil several.
Lose(pages) == answer' = [i \in PageNos |-> IF i \in pages THEN "lost" ELSE answer[i]]

Midnight == answer' = [i \in PageNos |-> "none"]

Next ==
    \/ \E i \in PageNos : Keep(i)
    \/ \E pages \in SUBSET PageNos : Lose(pages)
    \/ Midnight

Spec == Init /\ [][Next]_answer
=============================================================================

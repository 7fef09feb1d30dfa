------------------------------ MODULE PublicPosts ------------------------------
(***************************************************************************)
(* Searches of public posts.  SearchPublicPosts keeps each page of TDLib's  *)
(* answer in a file named after the day, the query and the offset, with no  *)
(* lock.  The RPC handler asks for one page, or goes through the pages      *)
(* until it has Limit posts that are not forwarded, judges them by their    *)
(* links, and adds the posts they link to.                                  *)
(*                                                                         *)
(* One query: files of different queries share nothing.  A page is a set of *)
(* posts; the empty offset is page 1, and also what TDLib gives as the      *)
(* offset after the last page.  Only today's files are kept: at midnight a  *)
(* search that is at a file goes on with yesterday's, which no new one sees. *)
(***************************************************************************)
EXTENDS Integers, Sequences, FiniteSets, FiniteSetsExt

CONSTANTS
    Requests,   \* searches at once
    Posts,
    Pages,      \* the sequence of pages TDLib has
    Forwarded,  \* posts that are forwards
    Links,      \* the posts each post's text links to
    Limits,     \* the limits asked for
    Failures    \* whether TDLib and the disk may fail

ASSUME PostsAssumption ==
    /\ Pages \in Seq(SUBSET Posts) /\ Pages # <<>>
    /\ \A i, j \in DOMAIN Pages : i # j => Pages[i] \intersect Pages[j] = {}
    /\ Forwarded \subseteq Posts /\ Links \in [Posts -> SUBSET Posts]
    /\ Limits \subseteq Nat \ {0} /\ Failures \in BOOLEAN

VARIABLES
    file,       \* the cache directory: today's file of each page
    req,        \* the searches
    fate        \* history of each file: answered by TDLib once ("asked") or "again", or "spoilt" as two
                \* searches worked on it at once, or its writing was cut short

vars == <<file, req, fate>>

PageNos == DOMAIN Pages
Whole == {"found", "refused"}
None == [p \in Posts |-> 0]
Idle == [pc |-> "idle", want |-> 0, page |-> 1, late |-> FALSE, body |-> "none", got |-> None,
         wrapped |-> FALSE, failed |-> {}, judged |-> {}]

\* Searches that did not find today's file and have yet to write it.
Filling(i) == {r \in Requests : req[r].pc \in {"ask", "open", "write"} /\ req[r].page = i /\ ~req[r].late}
Writers(i) == {r \in Filling(i) : req[r].pc = "write"}
Total(got) == MapThenSumSet(LAMBDA p : got[p], Posts)

Init ==
    /\ file = [i \in PageNos |-> "none"]
    /\ req = [r \in Requests |-> Idle]
    /\ fate = [i \in PageNos |-> "none"]

-----------------------------------------------------------------------------
\* One page, from any offset (want 0).
SearchOne(r) ==
    \E i \in PageNos : req' = [req EXCEPT ![r] = [Idle EXCEPT !.pc = "stat", !.page = i]]

\* The filtered search, from the first page.
SearchFiltered(r) ==
    \E limit \in Limits : req' = [req EXCEPT ![r] = [Idle EXCEPT !.pc = "stat", !.want = limit]]

Start(r) ==
    /\ req[r].pc \in {"idle", "done"}
    /\ SearchOne(r) \/ SearchFiltered(r)
    /\ UNCHANGED <<file, fate>>

\* A faulty end, which keeps what the search had.
EndKept(r) == req' = [req EXCEPT ![r].pc = "idle"]

\* An error or a single page: nothing of the search is looked at any more.
End(r) == req' = [req EXCEPT ![r] = Idle]

\* A faulty SearchPublicPosts, which asks again when the limits were exceeded.
StatRefused(r) ==
    LET i == req[r].page
        exists == file[i] \notin {"none", "refused"}
    IN  /\ req[r].pc = "stat"
        /\ req' = [req EXCEPT ![r].pc = IF exists THEN "read" ELSE "ask"]
        /\ fate' = IF ~exists /\ Filling(i) # {} THEN [fate EXCEPT ![i] = "spoilt"] ELSE fate
        /\ UNCHANGED file

\* The name of the file, and os.Stat.
Stat(r) ==
    LET i == req[r].page
        exists == file[i] # "none"
    IN  /\ req[r].pc = "stat"
        /\ req' = [req EXCEPT ![r].pc = IF exists THEN "read" ELSE "ask"]
        /\ fate' = IF ~exists /\ Filling(i) # {} THEN [fate EXCEPT ![i] = "spoilt"] ELSE fate
        /\ UNCHANGED file

\* A faulty loop, which asks for the same offset again.
NextOffsetKept(r, got) ==
    req' = [req EXCEPT ![r].got = got, ![r].body = "none", ![r].late = FALSE,
                       ![r].pc = IF Total(got) >= req[r].want THEN "judge" ELSE "stat"]

\* The posts of an answer that are no forwards.
ParseMessages(messages) == messages \ Forwarded

\* The loop of SearchPublicPostsFiltered after a page: enough, or the next offset.
NextOffset(r, got) ==
    LET page == req[r].page
        next == IF page < Len(Pages) THEN page + 1 ELSE 1
        enough == Total(got) >= req[r].want
    IN  req' = [req EXCEPT ![r].got = got, ![r].body = "none", ![r].late = FALSE,
                           ![r].pc = IF enough THEN "judge" ELSE "stat",
                           ![r].page = IF enough THEN page ELSE next,
                           ![r].wrapped = @ \/ (~enough /\ next = 1)]

\* What SearchPublicPosts answers of a file: limits that were exceeded are an error.
Answer(r, body) ==
    IF body # "found" \/ req[r].want = 0 THEN End(r)
    ELSE NextOffset(r, [p \in Posts |-> req[r].got[p]
                            + IF p \in ParseMessages(Pages[req[r].page]) THEN 1 ELSE 0])

\* os.ReadFile and Unmarshal: an empty or torn file is an error.  Yesterday's may be any.
Read(r) ==
    /\ req[r].pc = "read"
    /\ \E body \in IF req[r].late THEN Whole \union {"torn"} ELSE {file[req[r].page]} : Answer(r, body)
    /\ UNCHANGED <<file, fate>>

\* TDLib answers with posts, or that the account's limits are exceeded.
Ask(r) ==
    /\ req[r].pc = "ask"
    /\ \E body \in Whole : req' = [req EXCEPT ![r].pc = "open", ![r].body = body]
    /\ fate' = IF req[r].late THEN fate
               ELSE [fate EXCEPT ![req[r].page] =
                        CASE @ = "none" -> "asked" [] @ = "spoilt" -> @ [] OTHER -> "again"]
    /\ UNCHANGED file

\* A faulty write, which names the file anew.
PutNow(r, new) == file' = [file EXCEPT ![req[r].page] = new]

\* The file that is not yesterday's.
Put(r, new) == file' = IF req[r].late THEN file ELSE [file EXCEPT ![req[r].page] = new]
Spoil(r) == fate' = IF req[r].late THEN fate ELSE [fate EXCEPT ![req[r].page] = "spoilt"]

\* os.WriteFile truncates the file, and writes it.
Open(r) ==
    /\ req[r].pc = "open"
    /\ Put(r, "empty")
    /\ req' = [req EXCEPT ![r].pc = "write"]
    /\ UNCHANGED fate

\* Over what another search wrote since, a shorter answer leaves the end of a longer one.
Write(r) ==
    /\ req[r].pc = "write"
    /\ \E new \in {req[r].body} \union IF file[req[r].page] = "empty" THEN {} ELSE {"torn"} : Put(r, new)
    /\ Answer(r, req[r].body)
    /\ UNCHANGED fate

\* A faulty search, which writes the nil answer of a failed one.
FailCached(r) ==
    /\ Failures
    /\ req[r].pc = "ask"
    /\ Put(r, "empty")
    /\ End(r)
    /\ UNCHANGED fate

\* Any call may fail; a failed write leaves part of an answer.
Fail(r) ==
    /\ Failures
    /\ req[r].pc \in {"stat", "read", "ask", "open", "write"}
    /\ End(r)
    /\ \/ req[r].pc = "write" /\ Put(r, "torn")
       \/ UNCHANGED file
    /\ IF req[r].pc \in {"open", "write"} THEN Spoil(r) ELSE UNCHANGED fate

getLinks(p) == {p} \X Links[p]

\* SetVerdictsByLinks: of the links of these posts, those TDLib now says are to messages;
\* a post that has one fails.  Each question may fail.
GetLinkTypes(posts) == SUBSET UNION {getLinks(p) : p \in posts}

\* The messages of such links that TDLib resolves.
GetExtraMessages(links) == SUBSET links

\* What is in the answer after the linked posts were added, each once.
Extended(got, extra) == [p \in Posts |-> IF got[p] = 0 /\ p \in extra THEN 1 ELSE got[p]]

\* The answer: the posts, those that failed for a link, and those that have a verdict.
Done(r, failed, judged, got) ==
    req' = [req EXCEPT ![r] = [Idle EXCEPT !.pc = "done", !.got = got, !.wrapped = req[r].wrapped,
                                           !.failed = failed, !.judged = judged]]

\* A faulty crawl, which goes on from the linked posts.
JudgeDeeper(r) ==
    LET found == {p \in Posts : req[r].got[p] > 0}
        extra == UNION {Links[p] : p \in found}
        deeper == extra \union UNION {Links[p] : p \in extra}
    IN  /\ req[r].pc = "judge"
        /\ Done(r, {p \in found : Links[p] # {}}, found \union ParseMessages(extra),
                Extended(req[r].got, ParseMessages(deeper)))
        /\ UNCHANGED <<file, fate>>

\* SearchPublicPostsFiltered after its loop: the verdicts, and the crawl of the links.
Judge(r) ==
    LET found == {p \in Posts : req[r].got[p] > 0}
    IN  /\ req[r].pc = "judge"
        /\ \E toMessages \in GetLinkTypes(found) :
            \E messages \in GetExtraMessages({l[2] : l \in toMessages}) :
                LET extra == ParseMessages(messages)
                IN  Done(r, {l[1] : l \in toMessages}, found \union extra,
                         Extended(req[r].got, extra))
        /\ UNCHANGED <<file, fate>>

\* The files' names change; searches that are past naming theirs keep it.
Midnight ==
    /\ file' = [i \in PageNos |-> "none"]
    /\ fate' = [i \in PageNos |-> "none"]
    /\ req' = [r \in Requests |->
                [req[r] EXCEPT !.late = @ \/ req[r].pc \in {"read", "ask", "open", "write"}]]

\* The process stops: what a search had answered or opened is left as it is.
Crash ==
    /\ req' = [r \in Requests |-> Idle]
    /\ fate' = [i \in PageNos |->
                 IF \E r \in Filling(i) : req[r].pc # "ask" THEN "spoilt" ELSE fate[i]]
    /\ UNCHANGED file

Work(r) == Stat(r) \/ Read(r) \/ Ask(r) \/ Open(r) \/ Write(r) \/ Judge(r)

Next ==
    \/ \E r \in Requests : Start(r) \/ Work(r) \/ Fail(r)
    \/ Midnight \/ Crash

Spec == Init /\ [][Next]_vars

\* Requests are goroutines, and their calls end.
FairSpec == Spec /\ \A r \in Requests : WF_vars(Work(r))

-----------------------------------------------------------------------------
\* Types; a search has posts only while it goes on or when it is done.
TypeOK ==
    /\ file \in [PageNos -> {"none", "empty", "torn"} \union Whole]
    /\ req \in [Requests ->
         [pc : {"idle", "stat", "read", "ask", "open", "write", "judge", "done"},
          want : Limits \union {0}, page : PageNos, late : BOOLEAN, body : Whole \union {"none"},
          got : [Posts -> Nat], wrapped : BOOLEAN, failed : SUBSET Posts, judged : SUBSET Posts]]
    /\ \A r \in Requests :
        /\ req[r].late => req[r].pc \in {"read", "ask", "open", "write"}
        /\ req[r].body \in Whole <=> req[r].pc \in {"open", "write"}
        /\ req[r].pc = "idle" => req[r].got = None
    /\ fate \in [PageNos -> {"none", "asked", "again", "spoilt"}]

\* TDLib, which counts its queries, answers for a page of the day once.  A call that fails or that
\* a crash cuts short is not counted: it leaves no answer to keep, and its page is asked for again.
OneQueryADay == \A i \in PageNos : fate[i] # "again"

\* A file nobody is writing is a whole answer: else it would fail every search of the day.
WholeFiles ==
    \A i \in PageNos : Writers(i) = {} => file[i] \in {"none"} \union Whole \/ fate[i] = "spoilt"

\* However searches and failures interleave, the cache answers every later search of the day
\* with what was answered once, unless two searches worked on a file at once or its writing was
\* cut short.
DayIsCached == OneQueryADay /\ WholeFiles

\* A filtered search answers each post once, whatever it crawled, unless it ran out of pages and
\* began again; each has a verdict; and a post that is there only by a link is linked from a
\* found one that failed for it, as the crawl goes one link deep.
AnswerIsSound ==
    \A r \in Requests : req[r].pc = "done" =>
        \A p \in Posts : req[r].got[p] > 0 =>
            /\ req[r].got[p] = 1 \/ req[r].wrapped
            /\ p \in req[r].judged
            /\ \/ \E i \in DOMAIN Pages : p \in Pages[i] \ Forwarded
               \/ \E q \in req[r].failed : p \in Links[q]

\* What a search of the day finds of a page.
Kept == [i \in PageNos |-> IF fate[i] = "spoilt" THEN "lost" ELSE IF file[i] \in Whole THEN file[i] ELSE "none"]

Day == INSTANCE DayAnswers WITH answer <- Kept

\* Every search of a day that finds a page finds the same answer of TDLib, whoever asked for it:
\* it is there as a whole at once, and neither another search nor an error takes it back or
\* replaces it before midnight, unless the file was spoilt.
OneAnswerADay == Day!Spec

\* When some page has a post that counts, a search ends, if only by counting it again,
\* unless the process crashes again and again.
SearchEnds ==
    UNION {Pages[i] : i \in DOMAIN Pages} \subseteq Forwarded
    \/ []<><<Crash>>_vars
    \/ \A r \in Requests : req[r].pc = "stat" ~> req[r].pc \in {"idle", "done"}
=============================================================================

--------------------------- MODULE PublicPostsProofs ---------------------------
(***************************************************************************)
(* TypeOK, DayIsCached, AnswerIsSound and OneAnswerADay of PublicPosts for *)
(* any number of searches, any pages, posts, links and limits.             *)
(*                                                                         *)
(* DayIsCached follows one file through the searches that fill it: as     *)
(* long as nothing spoilt it there is one at a time, and how far that one  *)
(* came says what is in the file and how often TDLib answered.             *)
(* AnswerIsSound follows one search through the pages.                     *)
(***************************************************************************)
EXTENDS PublicPosts, TLAPS

Clean(i) == fate[i] # "spoilt"

\* A file that is not spoilt is filled by one search at a time.
OneFills ==
    \A i \in PageNos : Clean(i) => \A q, r \in Filling(i) : q = r

\* What the search that fills a file has done of it so far.
Progress ==
    \A i \in PageNos : Clean(i) => \A r \in Filling(i) :
        /\ req[r].pc = "ask"   => fate[i] = "none" /\ file[i] = "none"
        /\ req[r].pc = "open"  => fate[i] = "asked" /\ file[i] = "none"
        /\ req[r].pc = "write" => fate[i] = "asked" /\ file[i] = "empty"

\* A file nobody fills is not there, and was not asked for, or is a whole answer.
Settled ==
    \A i \in PageNos : Clean(i) /\ Filling(i) = {} =>
        file[i] \in Whole \/ (file[i] = "none" /\ fate[i] = "none")

FileInv == OneQueryADay /\ OneFills /\ Progress /\ Settled

\* A post a search has is of a page, and no forward; it was counted once, on a page
\* before the one that comes next, unless the search began again.
SoundSoFar ==
    \A r \in Requests : req[r].pc # "done" =>
        \A p \in Posts : req[r].got[p] > 0 =>
            \E i \in PageNos :
                /\ p \in Pages[i] \ Forwarded
                /\ \/ req[r].wrapped
                   \/ req[r].got[p] = 1 /\ (i < req[r].page \/ (req[r].pc = "judge" /\ i = req[r].page))

-------------------------------------------------------------------------------
\* What a search may be.
Pcs == {"idle", "stat", "read", "ask", "open", "write", "judge", "done"}
Search == [pc : Pcs, want : Limits \union {0}, page : PageNos, late : BOOLEAN,
           body : Whole \union {"none"}, got : [Posts -> Nat], wrapped : BOOLEAN,
           failed : SUBSET Posts, judged : SUBSET Posts]
Fit(x) ==
    /\ x.late => x.pc \in {"read", "ask", "open", "write"}
    /\ x.body \in Whole <=> x.pc \in {"open", "write"}
    /\ x.pc = "idle" => x.got = None

LEMMA Types ==
    TypeOK <=> /\ file \in [PageNos -> {"none", "empty", "torn"} \union Whole]
               /\ req \in [Requests -> Search] /\ \A r \in Requests : Fit(req[r])
               /\ fate \in [PageNos -> {"none", "asked", "again", "spoilt"}]
BY DEF TypeOK, Search, Pcs, Fit

\* A post of a search is of a page, and was counted once before the page that comes next.
Sound(x) ==
    \A p \in Posts : x.got[p] > 0 =>
        \E i \in PageNos :
            /\ p \in Pages[i] \ Forwarded
            /\ \/ x.wrapped
               \/ x.got[p] = 1 /\ (i < x.page \/ (x.pc = "judge" /\ i = x.page))

\* What SearchPublicPostsFiltered answers.
SoundAnswer(x) ==
    \A p \in Posts : x.got[p] > 0 =>
        /\ x.got[p] = 1 \/ x.wrapped
        /\ p \in x.judged
        /\ \/ \E i \in DOMAIN Pages : p \in Pages[i] \ Forwarded
           \/ \E q \in x.failed : p \in Links[q]

Good(x) == x \in Search /\ Fit(x) /\ (IF x.pc = "done" THEN SoundAnswer(x) ELSE Sound(x))

LEMMA GoodSearches ==
    (req \in [Requests -> Search] /\ \A r \in Requests : Fit(req[r])) /\ SoundSoFar /\ AnswerIsSound
        <=> req \in [Requests -> Search] /\ \A r \in Requests : Good(req[r])
BY DEF SoundSoFar, AnswerIsSound, Good, Sound, SoundAnswer

LEMMA IdleGood == Idle \in Search /\ Fit(Idle) /\ Sound(Idle) /\ None \in [Posts -> Nat] /\ 1 \in PageNos
<1>1. 1 \in PageNos
  BY PostsAssumption DEF PageNos
<1>2. None \in [Posts -> Nat] /\ \A p \in Posts : None[p] = 0
  BY DEF None
<1> QED
  BY <1>1, <1>2 DEF Idle, Search, Pcs, Fit, Sound, Whole

\* The first page of a new search.
LEMMA FreshGood ==
    ASSUME NEW x \in Search, x.got = None, x.pc = "stat", ~x.late, x.body = "none"
    PROVE  Good(x)
<1>1. \A p \in Posts : None[p] = 0
  BY DEF None
<1> QED
  BY <1>1 DEF Good, Fit, Sound, Whole
LEMMA StartGood ==
    /\ \A i \in PageNos : Good([Idle EXCEPT !.pc = "stat", !.page = i])
    /\ \A limit \in Limits : Good([Idle EXCEPT !.pc = "stat", !.want = limit])
<1>1. ASSUME NEW i \in PageNos PROVE Good([Idle EXCEPT !.pc = "stat", !.page = i])
  <2> DEFINE x == [Idle EXCEPT !.pc = "stat", !.page = i]
  <2>1. x \in Search /\ x.got = None /\ x.pc = "stat" /\ ~x.late /\ x.body = "none"
    BY IdleGood DEF Idle, Search, Pcs
  <2> QED
    BY <2>1, FreshGood
<1>2. ASSUME NEW limit \in Limits PROVE Good([Idle EXCEPT !.pc = "stat", !.want = limit])
  <2> DEFINE x == [Idle EXCEPT !.pc = "stat", !.want = limit]
  <2>1. x \in Search /\ x.got = None /\ x.pc = "stat" /\ ~x.late /\ x.body = "none"
    BY IdleGood DEF Idle, Search, Pcs
  <2> QED
    BY <2>1, FreshGood
<1> QED
  BY <1>1, <1>2

\* A search that goes on with its file, as it was or before midnight.
LEMMA FileStepGood ==
    ASSUME NEW x \in Search, Good(x), x.pc \in {"stat", "read", "ask", "open", "write"},
           NEW y \in Search, Fit(y), y.pc \in {"read", "ask", "open", "write"},
           y.got = x.got, y.page = x.page, y.wrapped = x.wrapped
    PROVE  Good(y)
BY DEF Good, Sound

\* A page's posts are counted, and the next page comes.
LEMMA CountedGood ==
    ASSUME NEW x \in Search, Good(x), x.pc \in {"read", "write"}, NEW got \in [Posts -> Nat],
           got = [p \in Posts |-> x.got[p] + IF p \in ParseMessages(Pages[x.page]) THEN 1 ELSE 0],
           NEW enough \in BOOLEAN,
           NEW y \in Search, y.got = got, ~y.late, y.body = "none",
           y.pc = (IF enough THEN "judge" ELSE "stat"),
           y.page = (IF enough THEN x.page ELSE IF x.page < Len(Pages) THEN x.page + 1 ELSE 1),
           y.wrapped = (x.wrapped \/ (~enough /\ y.page = 1))
    PROVE  Good(y)
<1>1. Fit(y)
  BY DEF Fit, Whole
<1>2. x.page \in Nat \ {0} /\ PageNos = 1 .. Len(Pages) /\ PageNos \subseteq Nat
  BY PostsAssumption DEF Search, PageNos
<1>4. y.wrapped \/ x.page < y.page \/ (y.pc = "judge" /\ x.page = y.page)
  <2>1. CASE enough
    BY <2>1
  <2>2. CASE ~enough /\ x.page < Len(Pages)
    BY <1>2, <2>2
  <2>3. CASE ~enough /\ ~(x.page < Len(Pages))
    BY <2>3
  <2> QED
    BY <2>1, <2>2, <2>3
<1>3. ASSUME NEW p \in Posts, got[p] > 0
      PROVE  \E i \in PageNos :
                /\ p \in Pages[i] \ Forwarded
                /\ \/ y.wrapped
                   \/ got[p] = 1 /\ (i < y.page \/ (y.pc = "judge" /\ i = y.page))
  <2>1. x.got \in [Posts -> Nat] /\ x.page \in PageNos /\ x.wrapped \in BOOLEAN
    BY DEF Search
  <2>2. CASE p \in ParseMessages(Pages[x.page]) /\ x.got[p] = 0
    <3>1. got[p] = 1 /\ p \in Pages[x.page] \ Forwarded
      BY <2>1, <2>2 DEF ParseMessages
    <3>2. y.wrapped \/ x.page < y.page \/ (y.pc = "judge" /\ x.page = y.page)
      BY <1>4
    <3> QED
      BY <2>1, <3>1, <3>2
  <2>3. CASE x.got[p] > 0
    <3>1. PICK i \in PageNos : /\ p \in Pages[i] \ Forwarded
                               /\ x.wrapped \/ (x.got[p] = 1 /\ i < x.page)
      BY <2>3 DEF Good, Sound
    <3>2. x.wrapped \/ p \notin ParseMessages(Pages[x.page])
      <4>1. \A k, m \in PageNos : k # m => Pages[k] \intersect Pages[m] = {}
        BY PostsAssumption DEF PageNos
      <4>2. i < x.page => i # x.page
        BY <1>2, <2>1
      <4> QED
        BY <2>1, <3>1, <4>1, <4>2 DEF ParseMessages
    <3>3. x.wrapped => y.wrapped
      OBVIOUS
    <3>4. CASE x.wrapped
      BY <3>1, <3>3, <3>4
    <3>5. CASE ~x.wrapped
      <4>1. got[p] = 1 /\ i < x.page
        BY <2>1, <3>1, <3>2, <3>5
      <4>2. x.page \in Nat /\ i \in Nat /\ (y.wrapped \/ y.page \in Nat)
        BY <1>2, <2>1 DEF Search
      <4>3. y.wrapped \/ i < y.page
        BY <1>4, <4>1, <4>2
      <4> QED
        BY <3>1, <4>1, <4>3
    <3> QED
      BY <3>4, <3>5
  <2>4. x.got[p] = 0 \/ x.got[p] > 0
    BY <2>1
  <2> QED
    BY <1>3, <2>1, <2>2, <2>3, <2>4
<1> QED
  BY <1>1, <1>3 DEF Good, Sound

\* The linked posts are added, each once; those found keep their number.
LEMMA JudgedGood ==
    ASSUME NEW x \in Search, Good(x), x.pc = "judge",
           NEW toMessages \in GetLinkTypes({p \in Posts : x.got[p] > 0}),
           NEW messages \in GetExtraMessages({l[2] : l \in toMessages})
    PROVE  Good([Idle EXCEPT !.pc = "done", !.got = Extended(x.got, ParseMessages(messages)),
                             !.wrapped = x.wrapped, !.failed = {l[1] : l \in toMessages},
                             !.judged = {p \in Posts : x.got[p] > 0} \union ParseMessages(messages)])
<1> DEFINE found == {p \in Posts : x.got[p] > 0}
           extra == ParseMessages(messages)
           got == Extended(x.got, extra)
           failed == {l[1] : l \in toMessages}
           judged == found \union extra
           y == [Idle EXCEPT !.pc = "done", !.got = got, !.wrapped = x.wrapped, !.failed = failed,
                             !.judged = judged]
<1>1. x.got \in [Posts -> Nat] /\ x.wrapped \in BOOLEAN
  BY DEF Search
<1>2. \A l \in toMessages : \E p \in found : l \in {p} \X Links[p]
  BY DEF GetLinkTypes, getLinks
<1>3. failed \subseteq Posts
  BY <1>2
<1>4. \A p \in extra : p \in Posts /\ \E q \in failed : p \in Links[q]
  <2> SUFFICES ASSUME NEW p \in extra PROVE p \in Posts /\ \E q \in failed : p \in Links[q]
    OBVIOUS
  <2>1. PICK l \in toMessages : p = l[2]
    BY DEF ParseMessages, GetExtraMessages
  <2>2. PICK q \in found : l \in {q} \X Links[q]
    BY <1>2
  <2>3. l[1] = q /\ l[2] \in Links[q] /\ l[1] \in failed
    BY <2>2
  <2> QED
    BY <2>1, <2>3, <1>3, PostsAssumption
<1>5. got \in [Posts -> Nat] /\ \A p \in Posts :
        got[p] > 0 => p \in judged /\ ((p \in found /\ got[p] = x.got[p]) \/ (p \in extra /\ got[p] = 1))
  <2> HIDE DEF extra
  <2>1. \A p \in Posts : got[p] = IF x.got[p] = 0 /\ p \in extra THEN 1 ELSE x.got[p]
    BY DEF Extended
  <2>2. got \in [Posts -> Nat]
    BY <1>1 DEF Extended
  <2> QED
    BY <1>1, <2>1, <2>2
<1>6. judged \subseteq Posts
  BY <1>4
<1> HIDE DEF found, extra, got, failed, judged
<1>7. y \in Search /\ y.pc = "done"
  <2>1. Idle \in Search
    BY IdleGood
  <2>2. /\ got \in [Posts -> Nat] /\ x.wrapped \in BOOLEAN /\ failed \subseteq Posts /\ judged \subseteq Posts
    BY <1>1, <1>3, <1>5, <1>6, Zenon
  <2> QED
    BY <2>1, <2>2 DEF Search, Pcs
<1>8. /\ y.got = got /\ y.wrapped = x.wrapped /\ y.failed = failed /\ y.judged = judged
      /\ ~y.late /\ y.body = "none"
  BY DEF Idle
<1>9. SoundAnswer(y)
  <2> SUFFICES ASSUME NEW p \in Posts, got[p] > 0
               PROVE  /\ got[p] = 1 \/ x.wrapped
                      /\ p \in judged
                      /\ \/ \E i \in DOMAIN Pages : p \in Pages[i] \ Forwarded
                         \/ \E q \in failed : p \in Links[q]
    BY <1>8 DEF SoundAnswer
  <2>1. CASE p \in extra /\ got[p] = 1
    BY <2>1, <1>4, <1>5
  <2>2. CASE p \in found /\ got[p] = x.got[p]
    <3>1. PICK i \in PageNos : p \in Pages[i] \ Forwarded /\ (x.wrapped \/ x.got[p] = 1)
      BY <2>2 DEF Good, Sound, found
    <3> QED
      BY <3>1, <2>2, <1>5 DEF PageNos
  <2> QED
    BY <2>1, <2>2, <1>5
<1>10. Fit(y)
  BY <1>7, <1>8 DEF Fit, Whole
<1> QED
  BY <1>7, <1>9, <1>10 DEF Good, found, extra, got, failed, judged

-------------------------------------------------------------------------------
GoodReq == req \in [Requests -> Search] /\ \A r \in Requests : Good(req[r])

\* What a step of one search leaves of it.
Becomes(r, y) == Good(y) /\ req' = [req EXCEPT ![r] = y]

\* After a page a search is not at a file.
LEMMA AnswerStep ==
    ASSUME GoodReq, NEW r \in Requests, req[r].pc \in {"read", "write"}, NEW body, Answer(r, body)
    PROVE  \E y : Becomes(r, y) /\ y.pc \in {"idle", "stat", "judge"}
<1> DEFINE x == req[r]
<1>1. x \in Search /\ Good(x)
  BY DEF GoodReq
<1>2. CASE End(r)
  <2>1. Idle.pc = "idle"
    BY DEF Idle
  <2>2. Becomes(r, Idle)
    BY <1>2, <2>1, IdleGood DEF End, Becomes, Good
  <2> QED
    BY <2>1, <2>2
<1> DEFINE got == [p \in Posts |-> x.got[p] + IF p \in ParseMessages(Pages[x.page]) THEN 1 ELSE 0]
<1>3. CASE NextOffset(r, got)
  <2>1. got \in [Posts -> Nat]
    BY <1>1 DEF Search
  <2> HIDE DEF got
  <2> DEFINE next == IF x.page < Len(Pages) THEN x.page + 1 ELSE 1
             y(enough) == [x EXCEPT !.got = got, !.body = "none", !.late = FALSE,
                                    !.pc = IF enough THEN "judge" ELSE "stat",
                                    !.page = IF enough THEN x.page ELSE next,
                                    !.wrapped = @ \/ (~enough /\ next = 1)]
  <2>2. \E enough \in BOOLEAN : req' = [req EXCEPT ![r] = y(enough)]
    <3>1. CASE Total(got) >= x.want
      <4>1. req' = [req EXCEPT ![r] = y(TRUE)]
        BY <1>3, <3>1 DEF NextOffset, GoodReq
      <4> QED
        BY <4>1
    <3>2. CASE ~(Total(got) >= x.want)
      <4>1. req' = [req EXCEPT ![r] = y(FALSE)]
        BY <1>3, <3>2 DEF NextOffset, GoodReq
      <4> QED
        BY <4>1
    <3> QED
      BY <3>1, <3>2
  <2>3. next \in PageNos /\ x.page \in PageNos
    <3>1. PageNos = 1 .. Len(Pages) /\ Len(Pages) \in Nat
      BY PostsAssumption DEF PageNos
    <3> QED
      BY <1>1, <3>1, IdleGood DEF Search
  <2>4. ASSUME NEW enough \in BOOLEAN PROVE Good(y(enough)) /\ y(enough).pc \in {"idle", "stat", "judge"}
    <3> DEFINE z == y(enough)
    <3>1. z.got = got /\ ~z.late /\ z.body = "none" /\ z.pc = (IF enough THEN "judge" ELSE "stat")
          /\ z.page = (IF enough THEN x.page ELSE IF x.page < Len(Pages) THEN x.page + 1 ELSE 1)
          /\ z.wrapped = (x.wrapped \/ (~enough /\ next = 1))
      BY <1>1 DEF Search
    <3>2. z \in Search
      <4>1. x \in Search /\ got \in [Posts -> Nat] /\ next \in PageNos /\ x.page \in PageNos
        BY <1>1, <2>1, <2>3
      <4> DEFINE pc == IF enough THEN "judge" ELSE "stat"
                 page == IF enough THEN x.page ELSE next
                 wrapped == x.wrapped \/ (~enough /\ next = 1)
      <4>2. pc \in Pcs /\ page \in PageNos /\ wrapped \in BOOLEAN
        BY <4>1 DEF Pcs
      <4>3. z = [x EXCEPT !.got = got, !.body = "none", !.late = FALSE, !.pc = pc, !.page = page, !.wrapped = wrapped]
        BY <4>1 DEF Search
      <4> HIDE DEF next, pc, page, wrapped, z
      <4> QED
        BY <4>1, <4>2, <4>3 DEF Search
    <3>3. ~enough => z.page = next
      BY <3>1
    <3>4. z.wrapped = (x.wrapped \/ (~enough /\ z.page = 1))
      BY <3>1, <3>3
    <3> HIDE DEF z
    <3>5. Good(z)
      BY <1>1, <2>1, <3>1, <3>2, <3>4, CountedGood DEF got
    <3> QED
      BY <3>1, <3>5 DEF z
  <2> HIDE DEF y
  <2> QED
    BY <2>2, <2>4, Zenon DEF Becomes
<1> QED
  BY <1>2, <1>3 DEF Answer

\* No step but a crash and midnight touches another search.
LEMMA GoodKept ==
    ASSUME GoodReq, NEW r \in Requests, NEW y, Becomes(r, y)
    PROVE  GoodReq' /\ req'[r] = y /\ \A q \in Requests \ {r} : req'[q] = req[q]
<1>1. y \in Search
  BY DEF Becomes, Good
<1>2. req' \in [Requests -> Search] /\ \A q \in Requests : Good(req'[q])
  BY <1>1 DEF GoodReq, Becomes
<1> QED
  BY <1>2 DEF GoodReq, Becomes

\* What the steps make of their search.
LEMMA StartStep ==
    ASSUME GoodReq, NEW r \in Requests, Start(r)
    PROVE  \E y : Becomes(r, y) /\ y.pc = "stat" /\ ~y.late
<1>1. CASE SearchOne(r)
  <2>1. PICK i \in PageNos : req' = [req EXCEPT ![r] = [Idle EXCEPT !.pc = "stat", !.page = i]]
    BY <1>1 DEF SearchOne
  <2> DEFINE y == [Idle EXCEPT !.pc = "stat", !.page = i]
  <2>2. y.pc = "stat" /\ ~y.late
    BY DEF Idle
  <2>3. Becomes(r, y)
    BY <2>1, StartGood DEF Becomes
  <2> QED
    BY <2>2, <2>3
<1>2. CASE SearchFiltered(r)
  <2>1. PICK limit \in Limits : req' = [req EXCEPT ![r] = [Idle EXCEPT !.pc = "stat", !.want = limit]]
    BY <1>2 DEF SearchFiltered
  <2> DEFINE y == [Idle EXCEPT !.pc = "stat", !.want = limit]
  <2>2. y.pc = "stat" /\ ~y.late
    BY DEF Idle
  <2>3. Becomes(r, y)
    BY <2>1, StartGood, IdleGood DEF Becomes
  <2> QED
    BY <2>2, <2>3
<1> QED
  BY <1>1, <1>2 DEF Start

\* The next call at a file.
LEMMA NextCallGood ==
    ASSUME NEW x, Good(x), x.pc \in {"stat", "read", "ask", "open", "write"}, NEW pc \in {"read", "ask", "open", "write"},
           x.body \in Whole <=> pc \in {"open", "write"},
           NEW y, y = [x EXCEPT !.pc = pc]
    PROVE  Good(y) /\ y.pc = pc /\ y.page = x.page /\ y.late = x.late
<1>1. x \in Search /\ Fit(x)
  BY DEF Good
<1>2. /\ y.pc = pc /\ y.page = x.page /\ y.late = x.late /\ y.got = x.got /\ y.wrapped = x.wrapped
      /\ y.body = x.body
  BY <1>1 DEF Search
<1>3. pc \in Pcs
  BY DEF Pcs
<1>4. y \in Search
  BY <1>1, <1>3 DEF Search
<1>5. Fit(y)
  BY <1>1, <1>2 DEF Fit
<1> QED
  BY <1>1, <1>2, <1>4, <1>5, FileStepGood

LEMMA StatStep ==
    ASSUME GoodReq, NEW r \in Requests, Stat(r)
    PROVE  \E y : /\ Becomes(r, y) /\ y.page = req[r].page /\ ~y.late
                  /\ y.pc = IF file[req[r].page] # "none" THEN "read" ELSE "ask"
<1> DEFINE x == req[r]
           pc == IF file[x.page] # "none" THEN "read" ELSE "ask"
           y == [x EXCEPT !.pc = pc]
<1>1. Good(x) /\ x.pc = "stat" /\ req \in [Requests -> Search]
  BY DEF Stat, GoodReq
<1>2. pc \in {"read", "ask", "open", "write"} /\ pc \notin {"open", "write"}
  OBVIOUS
<1>3. x.body \notin Whole /\ ~x.late
  BY <1>1 DEF Good, Fit
<1>4. req' = [req EXCEPT ![r] = y]
  BY <1>1 DEF Stat
<1> HIDE DEF pc
<1>5. Good(y) /\ y.pc = pc /\ y.page = x.page /\ y.late = x.late
  BY <1>1, <1>2, <1>3, NextCallGood
<1> QED
  BY <1>3, <1>4, <1>5 DEF Becomes, pc

LEMMA AskStep ==
    ASSUME GoodReq, NEW r \in Requests, Ask(r)
    PROVE  \E y : Becomes(r, y) /\ y.page = req[r].page /\ y.late = req[r].late /\ y.pc = "open"
<1> DEFINE x == req[r]
<1>1. PICK body \in Whole : req' = [req EXCEPT ![r].pc = "open", ![r].body = body]
  BY DEF Ask
<1> DEFINE y == [x EXCEPT !.pc = "open", !.body = body]
<1>2. x \in Search /\ Fit(x) /\ Good(x) /\ x.pc = "ask"
  BY DEF GoodReq, Good, Ask
<1>3. y.pc = "open" /\ y.body = body /\ y.page = x.page /\ y.late = x.late /\ y.got = x.got /\ y.wrapped = x.wrapped
  BY <1>2 DEF Search
<1>4. y \in Search
  BY <1>2 DEF Search, Pcs
<1>5. req' = [req EXCEPT ![r] = y]
  BY <1>1 DEF GoodReq
<1> HIDE DEF y
<1>6. Fit(y)
  BY <1>3 DEF Fit
<1>7. Good(y)
  BY <1>2, <1>3, <1>4, <1>6, FileStepGood
<1> QED
  BY <1>3, <1>5, <1>7 DEF Becomes

LEMMA OpenStep ==
    ASSUME GoodReq, NEW r \in Requests, Open(r)
    PROVE  \E y : Becomes(r, y) /\ y.page = req[r].page /\ y.late = req[r].late /\ y.pc = "write"
<1> DEFINE x == req[r]
           y == [x EXCEPT !.pc = "write"]
<1>1. Good(x) /\ x.pc = "open"
  BY DEF Open, GoodReq
<1>2. x.body \in Whole
  BY <1>1 DEF Good, Fit
<1>3. req' = [req EXCEPT ![r] = y]
  BY DEF Open, GoodReq
<1>4. Good(y) /\ y.pc = "write" /\ y.page = x.page /\ y.late = x.late
  BY <1>1, <1>2, NextCallGood
<1> HIDE DEF y
<1> QED
  BY <1>3, <1>4 DEF Becomes

LEMMA FailStep ==
    ASSUME NEW r \in Requests, Fail(r)
    PROVE  Becomes(r, Idle) /\ Idle.pc = "idle"
BY IdleGood DEF Fail, End, Becomes, Good, Idle

LEMMA JudgeStep ==
    ASSUME GoodReq, NEW r \in Requests, Judge(r)
    PROVE  \E y : Becomes(r, y) /\ y.pc = "done"
<1> DEFINE x == req[r]
           found == {p \in Posts : x.got[p] > 0}
           y(toMessages, messages) ==
             [Idle EXCEPT !.pc = "done", !.got = Extended(x.got, ParseMessages(messages)),
                          !.wrapped = x.wrapped, !.failed = {l[1] : l \in toMessages},
                          !.judged = found \union ParseMessages(messages)]
<1>1. x \in Search /\ Good(x) /\ x.pc = "judge"
  BY DEF Judge, GoodReq
<1> HIDE DEF x
<1>2. PICK toMessages \in GetLinkTypes(found) :
        \E messages \in GetExtraMessages({l[2] : l \in toMessages}) :
            req' = [req EXCEPT ![r] = y(toMessages, messages)]
  BY Zenon DEF Judge, Done, x
<1>3. PICK messages \in GetExtraMessages({l[2] : l \in toMessages}) :
        req' = [req EXCEPT ![r] = y(toMessages, messages)]
  BY <1>2, Zenon
<1>4. Good(y(toMessages, messages))
  BY <1>1, JudgedGood, Zenon
<1>5. y(toMessages, messages).pc = "done"
  BY DEF Idle
<1> HIDE DEF y
<1> QED
  BY <1>3, <1>4, <1>5, Zenon DEF Becomes, x

LEMMA MidnightGood == GoodReq /\ Midnight => GoodReq'
<1> SUFFICES ASSUME GoodReq, Midnight PROVE GoodReq'
  OBVIOUS
<1> DEFINE y(r) == [req[r] EXCEPT !.late = @ \/ req[r].pc \in {"read", "ask", "open", "write"}]
<1>1. ASSUME NEW r \in Requests PROVE Good(y(r))
  <2>1. req[r] \in Search /\ Good(req[r])
    BY DEF GoodReq
  <2>2. PICK late \in BOOLEAN : /\ y(r) = [req[r] EXCEPT !.late = late]
                                /\ late => req[r].pc \in {"read", "ask", "open", "write"}
    BY <2>1 DEF Search, Good, Fit
  <2> QED
    BY <2>1, <2>2 DEF Good, Search, Fit, Sound, SoundAnswer
<1>2. req' = [r \in Requests |-> y(r)]
  BY DEF Midnight
<1> HIDE DEF y
<1>3. \A r \in Requests : y(r) \in Search
  BY <1>1 DEF Good
<1> QED
  BY <1>1, <1>2, <1>3 DEF GoodReq

\* The searches stay good.
LEMMA GoodStep == GoodReq /\ [Next]_vars => GoodReq'
<1> SUFFICES ASSUME GoodReq, [Next]_vars PROVE GoodReq'
  OBVIOUS
<1>1. ASSUME NEW r \in Requests, Start(r) \/ Work(r) \/ Fail(r) PROVE \E y : Becomes(r, y)
  <2>1. CASE Read(r)
    <3>1. \E body : Answer(r, body)
      BY <2>1 DEF Read
    <3> QED
      BY <2>1, <3>1, AnswerStep DEF Read
  <2>2. CASE Write(r)
    BY <2>2, AnswerStep DEF Write
  <2> QED
    BY <1>1, <2>1, <2>2, StartStep, StatStep, AskStep, OpenStep, JudgeStep, FailStep DEF Work
<1>2. CASE Crash
  BY <1>2, IdleGood DEF Crash, GoodReq, Good, Idle
<1>3. CASE UNCHANGED vars
  BY <1>3 DEF vars, GoodReq
<1> QED
  BY <1>1, <1>2, <1>3, GoodKept, MidnightGood DEF Next

-------------------------------------------------------------------------------
\* A search that is at today's file of page i without having found it there.
Fills(x, i) == x.pc \in {"ask", "open", "write"} /\ x.page = i /\ ~x.late

FileTypes ==
    /\ file \in [PageNos -> {"none", "empty", "torn"} \union Whole]
    /\ fate \in [PageNos -> {"none", "asked", "again", "spoilt"}]

FInv == GoodReq /\ FileTypes /\ FileInv

\* A step that fills no file, before or after it.
LEMMA FilesKept ==
    ASSUME FInv, NEW r \in Requests, NEW y, Becomes(r, y), UNCHANGED <<file, fate>>,
           \A i \in PageNos : ~Fills(req[r], i) /\ ~Fills(y, i)
    PROVE  FileTypes' /\ FileInv'
<1>1. req'[r] = y /\ \A q \in Requests \ {r} : req'[q] = req[q]
  BY GoodKept DEF FInv
<1>2. \A i \in PageNos : Filling(i)' = Filling(i)
  BY <1>1 DEF Filling, Fills
<1>3. \A i \in PageNos : \A q \in Filling(i) : q \in Requests /\ req'[q] = req[q]
  BY <1>1 DEF Filling, Fills
<1> QED
  BY <1>2, <1>3 DEF FInv, FileTypes, FileInv, OneQueryADay, OneFills, Progress, Settled, Clean

\* A step that is at today's file of page i, whose file and history it may change.
LEMMA FileChanged ==
    ASSUME FInv, NEW r \in Requests, NEW y, Becomes(r, y), NEW i \in PageNos,
           \A k \in PageNos \ {i} : /\ ~Fills(req[r], k) /\ ~Fills(y, k)
                                    /\ file'[k] = file[k] /\ fate'[k] = fate[k],
           FileTypes',
           fate'[i] # "again",
           fate'[i] # "spoilt" =>
              /\ \A q \in Filling(i) : q = r
              /\ Fills(y, i) => /\ y.pc = "ask" => fate'[i] = "none" /\ file'[i] = "none"
                                /\ y.pc = "open"  => fate'[i] = "asked" /\ file'[i] = "none"
                                /\ y.pc = "write" => fate'[i] = "asked" /\ file'[i] = "empty"
              /\ ~Fills(y, i) => file'[i] \in Whole \/ (file'[i] = "none" /\ fate'[i] = "none")
    PROVE  FileInv'
<1>1. req'[r] = y /\ \A q \in Requests \ {r} : req'[q] = req[q]
  BY GoodKept DEF FInv
<1>2. ASSUME NEW k \in PageNos, k # i
      PROVE  /\ Filling(k)' = Filling(k)
             /\ \A q \in Filling(k) : q \in Requests /\ req'[q] = req[q]
  BY <1>1, <1>2 DEF Filling, Fills
<1>3. Filling(i)' = (Filling(i) \ {r}) \union (IF Fills(y, i) THEN {r} ELSE {})
  BY <1>1 DEF Filling, Fills
<1>4. OneQueryADay'
  BY DEF OneQueryADay, FInv, FileInv
<1>5. OneFills'
  BY <1>2, <1>3 DEF OneFills, FInv, FileInv, Clean
<1>6. Progress'
  BY <1>1, <1>2, <1>3 DEF Progress, FInv, FileInv, Clean
<1>7. Settled'
  BY <1>2, <1>3 DEF Settled, FInv, FileInv, Clean
<1> QED
  BY <1>4, <1>5, <1>6, <1>7 DEF FileInv

LEMMA StatFiles == ASSUME FInv, NEW r \in Requests, Stat(r) PROVE FileTypes' /\ FileInv'
<1> DEFINE i == req[r].page
<1>1. PICK y : /\ Becomes(r, y) /\ y.page = i /\ ~y.late
               /\ y.pc = IF file[i] # "none" THEN "read" ELSE "ask"
  BY StatStep DEF FInv
<1>2. i \in PageNos /\ req[r].pc = "stat"
  BY DEF FInv, GoodReq, Search, Stat
<1>3. CASE file[i] # "none"
  BY <1>1, <1>2, <1>3, FilesKept DEF Stat, Fills
<1>4. CASE file[i] = "none"
  <2>1. fate' = (IF Filling(i) # {} THEN [fate EXCEPT ![i] = "spoilt"] ELSE fate) /\ file' = file
    BY <1>4 DEF Stat
  <2>2. FileTypes'
    BY <1>2, <2>1 DEF FInv, FileTypes
  <2>3. Filling(i) = {} /\ fate[i] # "spoilt" => fate[i] = "none"
    BY <1>2, <1>4 DEF FInv, FileInv, Settled, Clean, Whole
  <2>4. fate[i] # "again"
    BY <1>2 DEF FInv, FileInv, OneQueryADay
  <2> QED
    BY <1>1, <1>2, <1>4, <2>1, <2>2, <2>3, <2>4, FileChanged DEF Fills, FInv, FileTypes
<1> QED
  BY <1>3, <1>4

\* What is so of a file as long as a search fills it and nothing spoilt it.
LEMMA WhileFilling ==
    ASSUME FInv, NEW r \in Requests, NEW i \in PageNos, Fills(req[r], i), fate[i] # "spoilt"
    PROVE  /\ \A q \in Filling(i) : q = r
           /\ req[r].pc = "ask"   => fate[i] = "none" /\ file[i] = "none"
           /\ req[r].pc = "open"  => fate[i] = "asked" /\ file[i] = "none"
           /\ req[r].pc = "write" => fate[i] = "asked" /\ file[i] = "empty"
<1>1. r \in Filling(i)
  BY DEF Fills, Filling
<1> QED
  BY <1>1 DEF FInv, FileInv, OneFills, Progress, Clean

LEMMA AskFiles == ASSUME FInv, NEW r \in Requests, Ask(r) PROVE FileTypes' /\ FileInv'
<1> DEFINE i == req[r].page
<1>1. PICK y : Becomes(r, y) /\ y.page = i /\ y.late = req[r].late /\ y.pc = "open"
  BY AskStep DEF FInv
<1>2. i \in PageNos /\ req[r].pc = "ask"
  BY DEF FInv, GoodReq, Search, Ask
<1>3. CASE req[r].late
  BY <1>1, <1>2, <1>3, FilesKept DEF Ask, Fills
<1>4. CASE ~req[r].late
  <2>1. file' = file /\ fate' = [fate EXCEPT ![i] = CASE @ = "none" -> "asked" [] @ = "spoilt" -> @ [] OTHER -> "again"]
    BY <1>4 DEF Ask
  <2>2. FileTypes'
    BY <1>2, <2>1 DEF FInv, FileTypes
  <2>3. Fills(req[r], i)
    BY <1>2, <1>4 DEF Fills
  <2>4. fate[i] = "spoilt" \/ (fate[i] = "none" /\ file[i] = "none" /\ \A q \in Filling(i) : q = r)
    BY <1>2, <2>3, WhileFilling
  <2>5. fate'[i] = IF fate[i] = "spoilt" THEN "spoilt" ELSE "asked"
    BY <1>2, <2>1, <2>4 DEF FInv, FileTypes
  <2> QED
    BY <1>1, <1>2, <1>4, <2>1, <2>2, <2>4, <2>5, FileChanged DEF Fills, FInv, FileTypes
<1> QED
  BY <1>3, <1>4

LEMMA OpenFiles == ASSUME FInv, NEW r \in Requests, Open(r) PROVE FileTypes' /\ FileInv'
<1> DEFINE i == req[r].page
<1>1. PICK y : Becomes(r, y) /\ y.page = i /\ y.late = req[r].late /\ y.pc = "write"
  BY OpenStep DEF FInv
<1>2. i \in PageNos /\ req[r].pc = "open"
  BY DEF FInv, GoodReq, Search, Open
<1>3. CASE req[r].late
  BY <1>1, <1>2, <1>3, FilesKept DEF Open, Put, Fills
<1>4. CASE ~req[r].late
  <2>1. file' = [file EXCEPT ![i] = "empty"] /\ fate' = fate
    BY <1>4 DEF Open, Put
  <2>2. FileTypes'
    BY <1>2, <2>1 DEF FInv, FileTypes
  <2>3. Fills(req[r], i)
    BY <1>2, <1>4 DEF Fills
  <2>4. fate[i] = "spoilt" \/ (fate[i] = "asked" /\ \A q \in Filling(i) : q = r)
    BY <1>2, <2>3, WhileFilling
  <2> QED
    BY <1>1, <1>2, <1>4, <2>1, <2>2, <2>4, FileChanged DEF Fills, FInv, FileTypes
<1> QED
  BY <1>3, <1>4

LEMMA WriteFiles == ASSUME FInv, NEW r \in Requests, Write(r) PROVE FileTypes' /\ FileInv'
<1> DEFINE i == req[r].page
           body == req[r].body
<1>1. i \in PageNos /\ req[r].pc = "write" /\ body \in Whole
  BY DEF FInv, GoodReq, Good, Fit, Search, Write
<1>2. PICK y : Becomes(r, y) /\ y.pc \in {"idle", "stat", "judge"}
  BY <1>1, AnswerStep DEF FInv, Write
<1>3. PICK new \in {body} \union IF file[i] = "empty" THEN {} ELSE {"torn"} : Put(r, new)
  BY DEF Write
<1>4. fate' = fate
  BY DEF Write
<1>5. CASE req[r].late
  BY <1>2, <1>3, <1>4, <1>5, FilesKept DEF Put, Fills
<1>6. CASE ~req[r].late
  <2>1. file' = [file EXCEPT ![i] = new]
    BY <1>3, <1>6 DEF Put
  <2>2. FileTypes'
    BY <1>1, <1>4, <2>1 DEF FInv, FileTypes
  <2>3. Fills(req[r], i)
    BY <1>1, <1>6 DEF Fills
  <2>4. fate[i] = "spoilt" \/ (new \in Whole /\ fate[i] = "asked" /\ \A q \in Filling(i) : q = r)
    BY <1>1, <2>3, WhileFilling
  <2> QED
    BY <1>1, <1>2, <1>4, <1>6, <2>1, <2>2, <2>4, FileChanged DEF Fills, FInv, FileTypes
<1> QED
  BY <1>5, <1>6

LEMMA FailFiles == ASSUME FInv, NEW r \in Requests, Fail(r) PROVE FileTypes' /\ FileInv'
<1> DEFINE i == req[r].page
<1>1. Becomes(r, Idle) /\ Idle.pc = "idle"
  BY FailStep
<1>2. i \in PageNos
  BY DEF FInv, GoodReq, Search
<1>3. CASE ~Fills(req[r], i)
  BY <1>1, <1>2, <1>3, FilesKept DEF Fail, Put, Spoil, Fills
<1>4. CASE Fills(req[r], i)
  <2>1. /\ file' = file \/ file' = [file EXCEPT ![i] = "torn"]
        /\ fate' = IF req[r].pc = "ask" THEN fate ELSE [fate EXCEPT ![i] = "spoilt"]
        /\ req[r].pc = "ask" => file' = file
    BY <1>4 DEF Fail, Put, Spoil, Fills
  <2>2. FileTypes'
    BY <1>2, <2>1 DEF FInv, FileTypes
  <2>3. fate[i] # "again"
    BY <1>2 DEF FInv, FileInv, OneQueryADay
  <2>4. fate[i] # "spoilt" /\ req[r].pc = "ask" => fate[i] = "none" /\ file[i] = "none" /\ \A q \in Filling(i) : q = r
    BY <1>2, <1>4, WhileFilling
  <2> QED
    BY <1>1, <1>2, <1>4, <2>1, <2>2, <2>3, <2>4, FileChanged DEF Fills, FInv, FileTypes
<1> QED
  BY <1>3, <1>4

\* The day's files are gone, and no search fills one of the new day.
LEMMA MidnightFiles == FInv /\ Midnight => FileTypes' /\ FileInv'
<1> SUFFICES ASSUME FInv, Midnight PROVE FileTypes' /\ FileInv'
  OBVIOUS
<1>1. FileTypes' /\ \A i \in PageNos : file'[i] = "none" /\ fate'[i] = "none"
  BY DEF Midnight, FileTypes
<1>2. \A i \in PageNos : Filling(i)' = {}
  BY DEF Midnight, Filling, FInv, GoodReq, Search
<1> QED
  BY <1>1, <1>2 DEF FileInv, OneQueryADay, OneFills, Progress, Settled, Clean

LEMMA CrashFiles == FInv /\ Crash => FileTypes' /\ FileInv'
<1> SUFFICES ASSUME FInv, Crash PROVE FileTypes' /\ FileInv'
  OBVIOUS
<1>1. file' = file /\ \A i \in PageNos :
        fate'[i] = IF \E r \in Filling(i) : req[r].pc # "ask" THEN "spoilt" ELSE fate[i]
  BY DEF Crash
<1>2. fate' \in [PageNos -> {"none", "asked", "again", "spoilt"}]
  BY DEF Crash, FInv, FileTypes
<1>3. \A i \in PageNos : Filling(i)' = {}
  BY DEF Crash, Filling, Idle
<1>4. ASSUME NEW i \in PageNos, fate'[i] # "spoilt"
      PROVE  file[i] \in Whole \/ (file[i] = "none" /\ fate'[i] = "none")
  <2>1. fate'[i] = fate[i] /\ \A r \in Filling(i) : req[r].pc = "ask"
    BY <1>1, <1>4
  <2>2. CASE Filling(i) = {}
    BY <1>4, <2>1, <2>2 DEF FInv, FileInv, Settled, Clean
  <2>3. CASE Filling(i) # {}
    <3>1. PICK r \in Filling(i) : req[r].pc = "ask"
      BY <2>1, <2>3
    <3> QED
      BY <1>4, <2>1, <3>1 DEF FInv, FileInv, Progress, Clean
  <2> QED
    BY <2>2, <2>3
<1>5. \A i \in PageNos : fate'[i] # "again"
  BY <1>1 DEF FInv, FileInv, OneQueryADay
<1> QED
  BY <1>1, <1>2, <1>3, <1>4, <1>5
     DEF FileTypes, FInv, FileInv, OneQueryADay, OneFills, Progress, Settled, Clean

\* The files follow the searches.
LEMMA FileStep == FInv /\ [Next]_vars => FileTypes' /\ FileInv'
<1> SUFFICES ASSUME FInv, [Next]_vars PROVE FileTypes' /\ FileInv'
  OBVIOUS
<1>1. ASSUME NEW r \in Requests, Start(r) PROVE FileTypes' /\ FileInv'
  <2>1. PICK y : Becomes(r, y) /\ y.pc = "stat"
    BY <1>1, StartStep DEF FInv
  <2> QED
    BY <1>1, <2>1, FilesKept DEF Start, Fills
<1>2. ASSUME NEW r \in Requests, Read(r) PROVE FileTypes' /\ FileInv'
  <2>1. \E body : Answer(r, body)
    BY <1>2 DEF Read
  <2>2. PICK y : Becomes(r, y) /\ y.pc \in {"idle", "stat", "judge"}
    BY <1>2, <2>1, AnswerStep DEF FInv, Read
  <2> QED
    BY <1>2, <2>2, FilesKept DEF Read, Fills
<1>3. ASSUME NEW r \in Requests, Judge(r) PROVE FileTypes' /\ FileInv'
  <2>1. PICK y : Becomes(r, y) /\ y.pc = "done"
    BY <1>3, JudgeStep DEF FInv
  <2> QED
    BY <1>3, <2>1, FilesKept DEF Judge, Fills
<1>4. CASE UNCHANGED vars
  BY <1>4 DEF vars, FInv, FileTypes, FileInv, OneQueryADay, OneFills, Progress, Settled, Clean, Filling
<1> QED
  BY <1>1, <1>2, <1>3, <1>4, StatFiles, AskFiles, OpenFiles, WriteFiles, FailFiles, MidnightFiles, CrashFiles
     DEF Next, Work

LEMMA InitFInv == Init => FInv
<1> SUFFICES ASSUME Init PROVE FInv
  OBVIOUS
<1>1. GoodReq
  BY IdleGood DEF Init, GoodReq, Good, Idle
<1>2. FileTypes
  BY DEF Init, FileTypes
<1>3. \A i \in PageNos : Filling(i) = {} /\ file[i] = "none" /\ fate[i] = "none"
  BY DEF Init, Filling, Idle
<1> QED
  BY <1>1, <1>2, <1>3 DEF FInv, FileInv, OneQueryADay, OneFills, Progress, Settled, Clean

-------------------------------------------------------------------------------
THEOREM Invariance == Spec => []FInv
<1>1. FInv /\ [Next]_vars => FInv'
  BY GoodStep, FileStep DEF FInv
<1> QED
  BY <1>1, InitFInv, PTL DEF Spec

\* Types: a search has posts only while it goes on or when it is done, and its answer only
\* while it writes it.
THEOREM TypeCorrect == Spec => []TypeOK
<1>1. FInv => TypeOK
  BY Types DEF FInv, GoodReq, Good, FileTypes
<1> QED
  BY <1>1, Invariance, PTL

\* For any number of searches, crashes, failures and midnights: a page of the day is
\* answered by TDLib once (a call that fails, or that a crash cuts short, is not an answer), and a file
\* nobody is writing is a whole answer, unless two searches worked on it at once or its writing was cut
\* short (tdApi.go:790-824).
THEOREM DaysAreCached == Spec => []DayIsCached
<1>1. FInv => OneQueryADay
  BY DEF FInv, FileInv
<1>2. FInv => WholeFiles
  <2> SUFFICES ASSUME FInv, NEW i \in PageNos, Writers(i) = {}, fate[i] # "spoilt"
               PROVE  file[i] \in {"none"} \union Whole
    BY DEF WholeFiles
  <2>1. CASE Filling(i) = {}
    BY <2>1 DEF FInv, FileInv, Settled, Clean
  <2>2. CASE Filling(i) # {}
    <3>1. PICK r \in Filling(i) : req[r].pc \in {"ask", "open"}
      BY <2>2 DEF Filling, Writers
    <3> QED
      BY <3>1 DEF FInv, FileInv, Progress, Clean
  <2> QED
    BY <2>1, <2>2
<1> QED
  BY <1>1, <1>2, Invariance, PTL DEF DayIsCached

\* For any pages, forwards, links and limits: the answer of a filtered search has each post
\* once unless the search began again, with its verdict, and a post that is there only by a link
\* is linked from one that failed for it (handler.go:96-132).
THEOREM AnswersAreSound == Spec => []AnswerIsSound
<1>1. FInv => AnswerIsSound
  BY GoodSearches DEF FInv, GoodReq, Good
<1> QED
  BY <1>1, Invariance, PTL

-------------------------------------------------------------------------------
\* The files implement DayAnswers.

LEMMA KeptAt ==
    /\ Kept = [i \in PageNos |-> Kept[i]] /\ Kept' = [i \in PageNos |-> Kept'[i]]
    /\ \A i \in PageNos :
        /\ Kept[i] = IF fate[i] = "spoilt" THEN "lost" ELSE IF file[i] \in Whole THEN file[i] ELSE "none"
        /\ Kept'[i] = IF fate'[i] = "spoilt" THEN "lost" ELSE IF file'[i] \in Whole THEN file'[i] ELSE "none"
BY DEF Kept, PageNos, Whole

\* A step that is at one page's file keeps an answer there, loses it, or leaves it.
LEMMA OnePage ==
    ASSUME NEW i \in PageNos,
           \A k \in PageNos \ {i} : file'[k] = file[k] /\ fate'[k] = fate[k],
           Kept'[i] = Kept[i] \/ Kept'[i] = "lost" \/ (Kept[i] = "none" /\ Kept'[i] \in Whole)
    PROVE  [Day!Next]_Kept
<1>1. \A k \in PageNos \ {i} : Kept'[k] = Kept[k]
  BY KeptAt
<1>2. CASE Kept'[i] = Kept[i]
  <2>1. \A k \in PageNos : Kept'[k] = Kept[k]
    BY <1>1, <1>2
  <2>2. Kept' = Kept
    BY <2>1, KeptAt
  <2> QED
    BY <2>2
<1>3. CASE Kept'[i] = "lost"
  <2>1. \A k \in PageNos : Kept'[k] = IF k \in {i} THEN "lost" ELSE Kept[k]
    BY <1>1, <1>3
  <2>2. Kept' = [k \in PageNos |-> IF k \in {i} THEN "lost" ELSE Kept[k]]
    BY <2>1, KeptAt
  <2>3. Day!Lose({i})
    BY <2>2 DEF Day!Lose
  <2> QED
    BY <2>3 DEF Day!Next
<1>4. CASE Kept[i] = "none" /\ Kept'[i] \in Whole
  <2>1. PICK a \in Whole : Kept'[i] = a
    BY <1>4
  <2>2. \A k \in PageNos : Kept'[k] = IF k = i THEN a ELSE Kept[k]
    BY <1>1, <2>1
  <2>3. Kept' = [k \in PageNos |-> IF k = i THEN a ELSE Kept[k]]
    BY <2>2, KeptAt
  <2>4. Kept' = [Kept EXCEPT ![i] = a]
    BY <2>3, KeptAt
  <2>5. Day!Keep(i)
    BY <1>4, <2>4 DEF Day!Keep
  <2> QED
    BY <2>5 DEF Day!Next
<1> QED
  BY <1>2, <1>3, <1>4

\* The steps of a search at today's file.
LEMMA FileStepDay ==
    ASSUME FInv, NEW r \in Requests, Stat(r) \/ Ask(r) \/ Open(r) \/ Write(r) \/ Fail(r)
    PROVE  [Day!Next]_Kept
<1> DEFINE i == req[r].page
<1>1. i \in PageNos /\ file[i] \in {"none", "empty", "torn"} \union Whole
  BY DEF FInv, GoodReq, Search, FileTypes
<1>2. \A k \in PageNos \ {i} : file'[k] = file[k] /\ fate'[k] = fate[k]
  BY <1>1 DEF Stat, Ask, Open, Write, Fail, Put, Spoil, FInv, FileTypes
<1>3. file \in [PageNos -> {"none", "empty", "torn"} \union Whole] /\ fate \in [PageNos -> {"none", "asked", "again", "spoilt"}]
  BY DEF FInv, FileTypes
<1>4. fate[i] = "spoilt" => fate'[i] = "spoilt"
  BY <1>1, <1>3 DEF Stat, Ask, Open, Write, Fail, Spoil
<1>5. CASE fate'[i] = "spoilt"
  BY <1>1, <1>2, <1>5, KeptAt, OnePage
<1>6. CASE fate'[i] # "spoilt" /\ ~Fills(req[r], i)
  <2>1. file'[i] = file[i]
    BY <1>1, <1>6 DEF Stat, Ask, Open, Write, Fail, Put, Fills
  <2> QED
    BY <1>1, <1>2, <1>4, <1>6, <2>1, KeptAt, OnePage
<1>7. CASE fate'[i] # "spoilt" /\ Fills(req[r], i)
  <2>1. /\ req[r].pc = "ask"   => file[i] = "none"
        /\ req[r].pc = "open"  => file[i] = "none"
        /\ req[r].pc = "write" => file[i] = "empty"
    BY <1>1, <1>4, <1>7, WhileFilling
  <2>2. ~req[r].late /\ req[r].pc \in {"ask", "open", "write"} /\ file[i] \notin Whole
    BY <1>7, <2>1 DEF Fills, Whole
  <2>3. file'[i] \in Whole \/ file'[i] \notin Whole
    OBVIOUS
  <2> QED
    BY <1>1, <1>2, <1>4, <1>7, <2>2, <2>3, KeptAt, OnePage
<1> QED
  BY <1>5, <1>6, <1>7

LEMMA DayStep == FInv /\ [Next]_vars => [Day!Next]_Kept
<1> SUFFICES ASSUME FInv, [Next]_vars PROVE [Day!Next]_Kept
  OBVIOUS
<1>1. CASE UNCHANGED <<file, fate>>
  BY <1>1 DEF Kept
<1>2. CASE Midnight
  <2>1. Day!Midnight
    BY <1>2 DEF Midnight, Kept, Day!Midnight, Whole
  <2> QED
    BY <2>1 DEF Day!Next
<1>3. CASE Crash
  <2> DEFINE pages == {i \in PageNos : fate'[i] = "spoilt"}
  <2>1. file' = file /\ \A i \in PageNos : fate'[i] # "spoilt" => fate'[i] = fate[i]
    BY <1>3 DEF Crash
  <2>2. \A i \in PageNos : Kept'[i] = IF i \in pages THEN "lost" ELSE Kept[i]
    BY <2>1, KeptAt
  <2> HIDE DEF pages
  <2>3. Kept' = [i \in PageNos |-> IF i \in pages THEN "lost" ELSE Kept[i]]
    BY <2>2, KeptAt
  <2>4. Day!Lose(pages) /\ pages \in SUBSET PageNos
    BY <2>3 DEF Day!Lose, pages
  <2> QED
    BY <2>4 DEF Day!Next
<1>4. ASSUME NEW r \in Requests, Start(r) \/ Work(r) \/ Fail(r) PROVE [Day!Next]_Kept
  BY <1>1, <1>4, FileStepDay DEF Work, Start, Read, Judge
<1> QED
  BY <1>1, <1>2, <1>3, <1>4 DEF Next, vars

\* PublicPosts implements DayAnswers: for any number of searches, crashes, failures and midnights,
\* a page's answer is fixed for the day from when it is kept, unless its file was spoilt
\* (tdApi.go:790-824).
THEOREM Refinement == Spec => OneAnswerADay
<1>1. Init => Day!Init
  BY DEF Init, Kept, Day!Init, Whole
<1> QED
  BY <1>1, DayStep, Invariance, PTL DEF Spec, OneAnswerADay, Day!Spec
===============================================================================

------------------------------ MODULE ServingProofs ------------------------------
(***************************************************************************)
(* The safety properties of Serving, for any accounts, owner, handlers and *)
(* failures, and of its scheduled forwards, for any chats and messages.    *)
(***************************************************************************)
EXTENDS Serving, TLAPS, FiniteSetTheorems, SequenceTheorems

\* An account that is logged in sends updates, and one about to be put in the store has its client.
PutHasClient ==
    \A a \in Accounts : /\ stage[a] \in {"version", "me", "set"} => a \in live
                        /\ stage[a] = "put" => a \in client

\* The handler of an update that came for an account in the store: the account stays there, and
\* a custom routine was given its client.
LateHasClient ==
    \A h \in Handlers : handler[h].step # "idle" /\ ~handler[h].early =>
        /\ handler[h].acc \in store
        /\ handler[h].step \notin {"new", "asks", "reload"} => handler[h].has

Inv == TypeOK /\ PutHasClient /\ LateHasClient /\ RequestsHaveClients /\ DeathHasCause

-----------------------------------------------------------------------------
LEMMA AfterDomain == /\ DOMAIN After = {"asks", "forward", "getChat", "search", "create", "send"}
                     /\ \A s \in DOMAIN After : After[s] \subseteq DOMAIN After \union {"idle"}
                     /\ \A s \in DOMAIN After : "asks" \notin After[s]
BY DEF After

LEMMA InitInv == Init => Inv
<1> SUFFICES ASSUME Init PROVE Inv
  OBVIOUS
<1>1. handler \in [Handlers -> [step : DOMAIN After \union {"idle", "new", "routine", "reload"},
                               acc : Accounts \union {NoAccount},
                               kind : Kinds \union {"none"},
                               has : BOOLEAN, early : BOOLEAN]]
  BY DEF Init, Idle
<1>2. TypeOK
  BY <1>1 DEF Init, TypeOK, NoRequest, Stages, Underway
<1> QED
  BY <1>2 DEF Init, Inv, PutHasClient, LateHasClient, RequestsHaveClients, DeathHasCause, Idle, NoRequest

LEMMA DieInv == ASSUME Inv, NEW c, Die(c), c # "nil of a served account" PROVE Inv'
BY AfterDomain DEF Die, Inv, TypeOK, PutHasClient, LateHasClient, RequestsHaveClients, DeathHasCause,
   Idle, NoRequest, Stages, Underway

\* The process and its start go on, and no handler or request does.
LEMMA StartInv ==
    ASSUME Inv, Beside, store \subseteq store', client \subseteq client', TypeOK', PutHasClient'
    PROVE  Inv'
BY DEF Beside, Inv, LateHasClient, RequestsHaveClients, DeathHasCause

LEMMA StageType ==
    ASSUME Inv, NEW a \in Accounts, NEW s \in Stages, Stage(a, s),
           s \in Underway => \A b \in Accounts \ {a} : stage[b] \notin Underway
    PROVE  /\ stage' \in [Accounts -> Stages]
           /\ stage'[a] = s /\ \A b \in Accounts \ {a} : stage'[b] = stage[b]
           /\ \A c, d \in Accounts : stage'[c] \in Underway /\ stage'[d] \in Underway => c = d
BY DEF Inv, TypeOK, Stage

\* A step of an account's start.
LEMMA StageInv ==
    ASSUME Inv, Beside, NEW a \in Accounts, NEW s \in Stages, Stage(a, s), proc' = proc,
           s \in Underway => \A b \in Accounts \ {a} : stage[b] \notin Underway,
           live' \in {live, live \union {a}}, client' \in {client, client \union {a}},
           store' \in {store, store \union {a}},
           client' # client => a \in live, store' # store => a \in client, s = "put" => a \in client',
           s \in {"version", "me", "set"} => a \in live'
    PROVE  Inv'
<1>1. /\ stage' \in [Accounts -> Stages]
      /\ stage'[a] = s /\ \A b \in Accounts \ {a} : stage'[b] = stage[b]
      /\ \A c, d \in Accounts : stage'[c] \in Underway /\ stage'[d] \in Underway => c = d
  BY StageType
<1>2. live' \subseteq Accounts /\ client' \subseteq live' /\ store' \subseteq client'
  BY DEF Inv, TypeOK
<1>3. TypeOK'
  BY <1>1, <1>2 DEF Inv, TypeOK, Beside
<1>4. PutHasClient'
  BY <1>1 DEF Inv, PutHasClient
<1> QED
  BY <1>3, <1>4, StartInv

LEMMA HandleInv ==
    ASSUME Inv, NEW h \in Handlers, NEW r, Handle(h, r),
           r \in [step : DOMAIN After \union {"idle", "new", "routine", "reload"},
                  acc : Accounts \union {NoAccount}, kind : Kinds \union {"none"},
                  has : BOOLEAN, early : BOOLEAN],
           r.step # "idle" /\ ~r.early =>
              r.acc \in store /\ (r.step \notin {"new", "asks", "reload"} => r.has)
    PROVE  Inv'
<1>1. UNCHANGED <<proc, stage, live, client, store, request, signalled, death>>
  BY DEF Handle, startVars
<1>2. /\ handler' \in [Handlers -> [step : DOMAIN After \union {"idle", "new", "routine", "reload"},
                  acc : Accounts \union {NoAccount}, kind : Kinds \union {"none"},
                  has : BOOLEAN, early : BOOLEAN]]
      /\ handler'[h] = r /\ \A g \in Handlers \ {h} : handler'[g] = handler[g]
  BY DEF Handle, Inv, TypeOK
<1>3. TypeOK'
  BY <1>1, <1>2 DEF Inv, TypeOK
<1>4. LateHasClient'
  BY <1>1, <1>2 DEF Inv, LateHasClient
<1> QED
  BY <1>1, <1>3, <1>4 DEF Inv, PutHasClient, RequestsHaveClients, DeathHasCause

LEMMA AnswerInv ==
    ASSUME Inv, NEW r, Answer(r),
           r \in [step : {"idle", "asked", "runs"}, acc : Accounts \union {NoAccount, Owner}, needs : BOOLEAN],
           r.step = "runs" => (r.needs => r.acc \in store) /\ (r.acc # NoAccount => r.acc \in client)
    PROVE  Inv'
BY DEF Answer, startVars, Inv, TypeOK, PutHasClient, LateHasClient, RequestsHaveClients, DeathHasCause

LEMMA NextInv == Inv /\ [Next]_vars => Inv'
<1> SUFFICES ASSUME Inv, [Next]_vars PROVE Inv'
  OBVIOUS
<1>1. CASE Boot
  BY <1>1, DieInv, StartInv DEF Boot, Inv, TypeOK, PutHasClient, Beside
<1>2. CASE LoadAccounts
  <2>1. CASE (Failures \/ signalled) /\ Die("exit")
    BY <2>1, DieInv
  <2>2. ASSUME Beside, UNCHANGED <<live, client, store>>, proc' = "start",
               \E active \in SUBSET Accounts :
                  stage' = [a \in Accounts |-> IF a \in active THEN "waiting" ELSE "skipped"]
        PROVE  Inv'
    <3>1. stage' \in [Accounts -> Stages] /\ \A a \in Accounts : stage'[a] \in {"waiting", "skipped"}
      BY <2>2 DEF Stages
    <3>2. TypeOK' /\ PutHasClient'
      BY <2>2, <3>1 DEF Inv, TypeOK, PutHasClient, Beside, Underway
    <3> QED
      BY <2>2, <3>2, StartInv
  <2> QED
    BY <1>2, <2>1, <2>2 DEF LoadAccounts
<1>3. CASE Serve
  BY <1>3, DieInv, StartInv DEF Serve, Inv, TypeOK, PutHasClient, Beside
<1>4. ASSUME NEW a \in Accounts, Run(a) PROVE Inv'
  BY <1>4, StageInv DEF Run, Stages, Underway
<1>5. ASSUME NEW a \in Accounts,
             LoadChatFolders(a) \/ Login(a) \/ GetVersion(a) \/ GetMe(a) \/ SetClient(a) \/ Put(a)
      PROVE  Inv'
  <2>1. \A b \in Accounts \ {a} : stage[b] \notin Underway
    BY <1>5 DEF LoadChatFolders, Login, GetVersion, GetMe, SetClient, Put, Inv, TypeOK, Underway
  <2>2. (stage[a] \in {"version", "me", "set"} => a \in live) /\ (stage[a] = "put" => a \in client)
    BY DEF Inv, PutHasClient
  <2>3. CASE LoadChatFolders(a)
    <3>1. CASE Die("nil cursor")
      BY <3>1, DieInv
    <3>2. CASE Beside /\ (Fail(a) \/ (Stage(a, "login") /\ UNCHANGED <<proc, live, client, store>>))
      BY <2>1, <3>2, StageInv DEF Fail, Stages, Underway
    <3> QED
      BY <2>3, <3>1, <3>2 DEF LoadChatFolders
  <2>4. CASE Login(a)
    BY <2>1, <2>4, StageInv DEF Login, Fail, Stages, Underway
  <2>5. CASE GetVersion(a)
    BY <2>1, <2>2, <2>5, StageInv DEF GetVersion, Fail, Stages, Underway
  <2>6. CASE GetMe(a)
    BY <2>1, <2>2, <2>6, StageInv DEF GetMe, Fail, Stages, Underway
  <2>7. CASE SetClient(a)
    BY <2>1, <2>2, <2>7, StageInv DEF SetClient, Stages, Underway
  <2>8. CASE Put(a)
    BY <2>1, <2>2, <2>8, StageInv DEF Put, Stages, Underway
  <2> QED
    BY <1>5, <2>3, <2>4, <2>5, <2>6, <2>7, <2>8
<1>6. CASE Signal
  BY <1>6 DEF Signal, startVars, Inv, TypeOK, PutHasClient, LateHasClient, RequestsHaveClients, DeathHasCause
<1>7. CASE Deadline
  BY <1>7, DieInv DEF Deadline
<1>8. CASE Forward
  BY <1>8 DEF Forward, startVars, Inv, TypeOK, PutHasClient, LateHasClient, RequestsHaveClients, DeathHasCause
<1>9. ASSUME NEW h \in Handlers, NEW a \in Accounts, NEW k \in Kinds, Update(h, a, k)
      PROVE  Inv'
  BY <1>9, HandleInv DEF Update
<1>10. ASSUME NEW h \in Handlers,
              SaveChatFilters(h) \/ ReloadFolders(h) \/ Asks(h) \/ Custom(h) \/ NewMessageRoutine(h) \/ MessageContentRoutine(h) \/ CallTdlib(h)
       PROVE  Inv'
  <2>1. /\ handler[h] \in [step : DOMAIN After \union {"idle", "new", "routine", "reload"},
                  acc : Accounts \union {NoAccount}, kind : Kinds \union {"none"},
                  has : BOOLEAN, early : BOOLEAN]
        /\ handler[h].step # "idle" /\ ~handler[h].early =>
              handler[h].acc \in store /\ (handler[h].step \notin {"new", "asks", "reload"} => handler[h].has)
        /\ store \subseteq client
    BY DEF Inv, TypeOK, LateHasClient
  <2>2. Handle(h, Idle) => Inv'
    BY HandleInv DEF Idle
  <2>3. CASE Asks(h)
    BY <2>1, <2>2, <2>3, HandleInv, AfterDomain DEF Asks
  <2>4. CASE Custom(h)
    <3>1. Handle(h, [handler[h] EXCEPT !.step = "routine", !.has = handler[h].acc \in client])
          /\ handler[h].step = "new"
      BY <2>4 DEF Custom
    <3>2. (handler[h].acc \in client) \in BOOLEAN
      OBVIOUS
    <3>3. ~handler[h].early => handler[h].acc \in client
      BY <2>1, <3>1
    <3> QED
      BY <2>1, <3>1, <3>2, <3>3, HandleInv
  <2>5. CASE NewMessageRoutine(h)
    BY <2>1, <2>2, <2>5, HandleInv, AfterDomain DEF NewMessageRoutine
  <2>6. CASE MessageContentRoutine(h)
    BY <2>1, <2>2, <2>6, HandleInv, AfterDomain DEF MessageContentRoutine
  <2>7. CASE CallTdlib(h)
    <3>1. CASE handler[h].has \/ (handler[h].step = "asks" /\ handler[h].acc \in client)
      <4>1. PICK s \in (IF handler[h].kind = "folders" THEN {"reload"} ELSE After[handler[h].step]) :
                Handle(h, IF s = "idle" THEN Idle ELSE [handler[h] EXCEPT !.step = s])
        BY <2>7, <3>1 DEF CallTdlib
      <4>2. handler[h].step \in DOMAIN After
        BY <2>7 DEF CallTdlib
      <4>3. s \in DOMAIN After \union {"idle", "reload"} /\ s # "asks"
            /\ (handler[h].step = "asks" => s \in {"idle", "reload"})
        BY <4>1, <4>2, AfterDomain DEF After
      <4> QED
        BY <2>1, <2>2, <4>1, <4>2, <4>3, HandleInv, AfterDomain
    <3>2. CASE ~(handler[h].has \/ (handler[h].step = "asks" /\ handler[h].acc \in client))
      <4>1. handler[h].early
        BY <2>1, <2>7, <3>2, AfterDomain DEF CallTdlib
      <4> QED
        BY <2>7, <3>2, <4>1, DieInv DEF CallTdlib
    <3> QED
      BY <3>1, <3>2
  <2>8. CASE SaveChatFilters(h)
    BY <2>1, <2>8, HandleInv, AfterDomain DEF SaveChatFilters
  <2>9. CASE ReloadFolders(h)
    BY <2>2, <2>9, DieInv DEF ReloadFolders
  <2> QED
    BY <1>10, <2>3, <2>4, <2>5, <2>6, <2>7, <2>8, <2>9
<1>11. CASE AskRpc \/ \E a \in Accounts \union {NoAccount}, needs \in BOOLEAN : Ask(a, needs)
  BY <1>11, AnswerInv DEF AskRpc, Ask
<1>12. CASE Refuse \/ EndRequest
  BY <1>12, AnswerInv DEF Refuse, EndRequest, NoRequest
<1>13. CASE Enter
  BY <1>13, AnswerInv DEF Enter, Inv, TypeOK
<1>14. CASE UNCHANGED vars
  BY <1>14 DEF vars, startVars, Inv, TypeOK, PutHasClient, LateHasClient, RequestsHaveClients, DeathHasCause
<1> QED
  BY <1>1, <1>2, <1>3, <1>4, <1>5, <1>6, <1>7, <1>8, <1>9, <1>10, <1>11, <1>12, <1>13, <1>14 DEF Next, Start

LEMMA Invariance == Spec => []Inv
BY InitInv, NextInv, PTL DEF Spec

\* The types of the process, one start at a time, and a client for every account in the store.
THEOREM TypeCorrect == Spec => []TypeOK
BY Invariance, PTL DEF Inv

\* No page and no call of RPC reaches an account without its client.
THEOREM RequestsAreServed == Spec => []RequestsHaveClients
BY Invariance, PTL DEF Inv

\* No update that came for an account in the store ends the process.
THEOREM DeathsHaveCause == Spec => []DeathHasCause
BY Invariance, PTL DEF Inv

-----------------------------------------------------------------------------
\* Ids can be taken one after another, from the lowest on.
LEMMA MinOfIds ==
    ASSUME NEW S \in SUBSET Nat, S # {}
    PROVE  Min(S) \in S
<1> DEFINE Below == {0 .. n : n \in S}
<1>1. Below \subseteq FiniteSubsetsOf(Nat) /\ Below # {}
  <2>1. ASSUME NEW n \in S PROVE 0 .. n \in FiniteSubsetsOf(Nat)
    <3>1. IsFiniteSet(0 .. n)
      BY FS_Interval
    <3>2. 0 .. n \subseteq Nat
      BY SMT
    <3> QED
      BY <3>1, <3>2 DEF FiniteSubsetsOf
  <2> QED
    BY <2>1
<1>2. PICK x \in Below : \A y \in Below : <<y, x>> \notin StrictSubsetOrdering(Nat)
  BY <1>1, FS_StrictSubsetOrderingWellFounded, WFMin
<1>3. PICK n \in S : x = 0 .. n
  BY <1>2
<1>4. ASSUME NEW m \in S PROVE n <= m
  <2>1. m < n => 0 .. m \subseteq 0 .. n /\ 0 .. m # 0 .. n
    BY SMT
  <2>2. 0 .. m \in SUBSET Nat /\ 0 .. n \in SUBSET Nat
    BY SMT
  <2>3. m < n => <<0 .. m, 0 .. n>> \in StrictSubsetOrdering(Nat)
    BY <2>1, <2>2 DEF StrictSubsetOrdering
  <2>4. ~(m < n)
    BY <1>2, <1>3, <2>3
  <2> QED
    BY <2>4
<1> QED
  BY <1>4 DEF Min

\* SetToSeq has each element once.
LEMMA SeqOfSet ==
    ASSUME NEW S, IsFiniteSet(S)
    PROVE  /\ SetToSeq(S) \in Seq(S)
           /\ \A i, j \in 1 .. Len(SetToSeq(S)) : SetToSeq(S)[i] = SetToSeq(S)[j] => i = j
<1>1. Cardinality(S) \in Nat /\ ExistsBijection(1 .. Cardinality(S), S)
  BY FS_CardinalityType
<1>2. \E f \in [1 .. Cardinality(S) -> S] : IsInjective(f)
  BY <1>1 DEF ExistsBijection, Bijection, Injection
<1>3. SetToSeq(S) \in [1 .. Cardinality(S) -> S] /\ IsInjective(SetToSeq(S))
  BY <1>2 DEF SetToSeq
<1>4. SetToSeq(S) \in Seq(S) /\ Len(SetToSeq(S)) = Cardinality(S)
  BY <1>1, <1>3, IsASeq, LenProperties
<1> QED
  BY <1>3, <1>4 DEF IsInjective

-----------------------------------------------------------------------------
Messages == [chat : Targets, id : Nat]

ForwardTypes ==
    /\ next \in [Targets -> Nat]
    /\ pending \subseteq Messages
    /\ sentMessages \subseteq Messages /\ IsFiniteSet(sentMessages)
    /\ call \in [step : {"idle", "waits", "returned"}, target : Targets \union {NoTarget},
                 want : SUBSET Nat, todo : SUBSET Nat, got : Seq(Messages)]
    /\ IsFiniteSet(call.want) /\ call.todo \subseteq call.want

\* An id that was given is not given again in its chat.
Issued ==
    /\ \A m \in pending \union sentMessages : m.id <= next[m.chat]
    /\ \A i \in DOMAIN call.got : call.got[i].id <= next[call.got[i].chat]

\* A message is on its way, kept, or in the answer, where it is once.
Once ==
    /\ pending \intersect sentMessages = {}
    /\ \A i \in DOMAIN call.got : call.got[i] \notin pending \union sentMessages
    /\ \A i, j \in DOMAIN call.got : call.got[i] = call.got[j] => i = j

Wanted == \A i \in DOMAIN call.got : call.got[i].id \in call.want

Full == call.step = "returned" => Len(call.got) = Cardinality(call.want)

ForwardInv == ForwardTypes /\ Issued /\ Once /\ Wanted /\ Full

LEMMA InitForward == ForwardInit => ForwardInv
<1> SUFFICES ASSUME ForwardInit PROVE ForwardInv
  OBVIOUS
<1>1. call = NoCall /\ DOMAIN NoCall.got = {} /\ NoCall.got \in Seq(Messages)
  BY DEF ForwardInit, NoCall
<1>2. IsFiniteSet({})
  BY FS_EmptySet
<1> QED
  BY <1>1, <1>2 DEF ForwardInit, ForwardInv, ForwardTypes, Issued, Once, Wanted, Full, NoCall

\* Nothing is on its way after a restart.
LEMMA DieForward == ASSUME NEW c, Die(c) PROVE ForwardInv'
<1>1. call' = NoCall /\ DOMAIN NoCall.got = {} /\ NoCall.got \in Seq(Messages)
  BY DEF Die, NoCall
<1>2. IsFiniteSet({})
  BY FS_EmptySet
<1>3. next' = [d \in Targets |-> 0] /\ pending' = {} /\ sentMessages' = {}
  BY DEF Die
<1> QED
  BY <1>1, <1>2, <1>3 DEF ForwardInv, ForwardTypes, Issued, Once, Wanted, Full, NoCall

\* TDLib takes n messages: their ids are new.
LEMMA SubmitForward ==
    ASSUME ForwardInv, NEW c \in Targets, NEW n \in Nat, Submit(c, n)
    PROVE  /\ next' \in [Targets -> Nat] /\ pending' \subseteq Messages
           /\ \A d \in Targets : next[d] <= next'[d]
           /\ \A m \in pending' \ pending : m.id > next[m.chat] /\ m.id <= next'[m.chat]
           /\ sentMessages' = sentMessages
<1>1. next[c] \in Nat /\ next' = [next EXCEPT ![c] = @ + n]
  BY DEF ForwardInv, ForwardTypes, Submit
<1>2. next' \in [Targets -> Nat] /\ next'[c] = next[c] + n /\ \A d \in Targets \ {c} : next'[d] = next[d]
  BY <1>1 DEF ForwardInv, ForwardTypes
<1>3. ASSUME NEW i \in next[c] + 1 .. next[c] + n
      PROVE  i \in Nat /\ i > next[c] /\ i <= next'[c]
  BY <1>1, <1>2, <1>3
<1>4. pending' = pending \union {[chat |-> c, id |-> i] : i \in next[c] + 1 .. next[c] + n}
  BY DEF Submit
<1>5. \A d \in Targets : next[d] \in Nat
  BY DEF ForwardInv, ForwardTypes
<1> QED
  BY <1>1, <1>2, <1>3, <1>4, <1>5 DEF Submit, ForwardInv, ForwardTypes, Messages

\* What is on its way after that is new, or was so before.
LEMMA SubmitKeeps ==
    ASSUME ForwardInv, NEW c \in Targets, NEW n \in Nat, Submit(c, n)
    PROVE  /\ \A m \in pending' \union sentMessages' : m.id <= next'[m.chat]
           /\ pending' \intersect sentMessages' = {}
           /\ \A i \in DOMAIN call.got : /\ call.got[i].id <= next'[call.got[i].chat]
                                         /\ call.got[i] \notin pending' \union sentMessages'
<1>1. /\ next' \in [Targets -> Nat]
      /\ \A d \in Targets : next[d] <= next'[d] /\ next[d] \in Nat /\ next'[d] \in Nat
      /\ \A m \in pending' \ pending : m.id > next[m.chat] /\ m.id <= next'[m.chat]
      /\ sentMessages' = sentMessages
  BY SubmitForward DEF ForwardInv, ForwardTypes
<1>2. ASSUME NEW m \in Messages, m.id <= next[m.chat]
      PROVE  m.id <= next'[m.chat] /\ m \notin pending' \ pending
  <2>1. m.chat \in Targets /\ m.id \in Nat
    BY DEF Messages
  <2> QED
    BY <1>1, <1>2, <2>1
<1>3. \A i \in DOMAIN call.got : call.got[i] \in Messages
  BY DEF ForwardInv, ForwardTypes
<1>4. pending \subseteq Messages /\ sentMessages \subseteq Messages
  BY DEF ForwardInv, ForwardTypes
<1> QED
  BY <1>1, <1>2, <1>3, <1>4 DEF ForwardInv, Issued, Once

LEMMA TakeForward ==
    ASSUME ForwardInv, Look
    PROVE  ForwardInv'
<1> DEFINE id == Min(call.todo)
           found == {s \in sentMessages : s.id = id}
           q == SetToSeq(found)
<1>1. /\ call.step = "waits" /\ call.todo # {} /\ call.todo \subseteq call.want
      /\ sentMessages' = sentMessages \ found
      /\ call' = [call EXCEPT !.todo = @ \ {id}, !.got = @ \o q]
      /\ UNCHANGED <<next, pending>>
  BY DEF Look, Take, ForwardInv, ForwardTypes
<1>2. id \in call.want
  BY <1>1, MinOfIds DEF ForwardInv, ForwardTypes
<1>3. IsFiniteSet(found) /\ IsFiniteSet(sentMessages')
  BY <1>1, FS_Subset DEF ForwardInv, ForwardTypes
<1>4. /\ q \in Seq(found) /\ \A i, j \in 1 .. Len(q) : q[i] = q[j] => i = j
  BY <1>3, SeqOfSet
<1> HIDE DEF q
<1>5. /\ call.got \in Seq(Messages) /\ found \subseteq sentMessages /\ sentMessages \subseteq Messages
      /\ \A m \in found : m.id = id
  BY DEF ForwardInv, ForwardTypes
<1> HIDE DEF found, id
<1>6. q \in Seq(Messages) /\ \A i \in 1 .. Len(q) : q[i] \in found
  BY <1>4, <1>5
<1>7. /\ call' \in [step : {"idle", "waits", "returned"}, target : Targets \union {NoTarget},
                    want : SUBSET Nat, todo : SUBSET Nat, got : Seq(Messages)]
      /\ call'.got = call.got \o q /\ call'.want = call.want /\ call'.step = "waits"
      /\ call'.todo \subseteq call.want
  BY <1>1, <1>5, <1>6, ConcatProperties DEF ForwardInv, ForwardTypes
<1>8. DOMAIN call'.got = 1 .. Len(call.got) + Len(q) /\ Len(call.got) \in Nat /\ Len(q) \in Nat
  BY <1>5, <1>6, <1>7, ConcatProperties
<1>9. \A i \in DOMAIN call'.got :
        call'.got[i] = IF i <= Len(call.got) THEN call.got[i] ELSE q[i - Len(call.got)]
  BY <1>5, <1>6, <1>7, <1>8, ConcatProperties
<1>10. ASSUME NEW i \in DOMAIN call'.got
       PROVE  \/ i \in DOMAIN call.got /\ call'.got[i] = call.got[i]
              \/ /\ i > Len(call.got) /\ i - Len(call.got) \in 1 .. Len(q)
                 /\ call'.got[i] = q[i - Len(call.got)] /\ call'.got[i] \in found
  BY <1>5, <1>6, <1>8, <1>9
<1>11. ForwardTypes'
  BY <1>1, <1>3, <1>5, <1>7 DEF ForwardInv, ForwardTypes
<1>12. Issued'
  BY <1>1, <1>5, <1>10 DEF ForwardInv, Issued
<1>13. Once'
  <2>1. \A i \in DOMAIN call'.got : call'.got[i] \notin pending' \union sentMessages'
    BY <1>1, <1>5, <1>10 DEF ForwardInv, Once
  <2>2. ASSUME NEW i \in DOMAIN call'.got, NEW j \in DOMAIN call'.got, call'.got[i] = call'.got[j]
        PROVE  i = j
    <3>1. CASE i \in DOMAIN call.got /\ j \in DOMAIN call.got /\ call'.got[i] = call.got[i] /\ call'.got[j] = call.got[j]
      BY <2>2, <3>1 DEF ForwardInv, Once
    <3>2. CASE /\ i - Len(call.got) \in 1 .. Len(q) /\ j - Len(call.got) \in 1 .. Len(q)
               /\ call'.got[i] = q[i - Len(call.got)] /\ call'.got[j] = q[j - Len(call.got)]
      <4>1. i - Len(call.got) = j - Len(call.got)
        BY <2>2, <3>2, <1>4
      <4> QED
        BY <4>1, <1>8
    <3>3. \A k \in DOMAIN call.got : call.got[k] \notin found
      BY <1>5 DEF ForwardInv, Once
    <3> QED
      BY <2>2, <3>1, <3>2, <3>3, <1>10
  <2> QED
    BY <1>1, <2>1, <2>2 DEF ForwardInv, Once
<1>14. Wanted'
  BY <1>2, <1>5, <1>7, <1>10 DEF ForwardInv, Wanted
<1>15. Full'
  BY <1>7 DEF Full
<1> QED
  BY <1>11, <1>12, <1>13, <1>14, <1>15 DEF ForwardInv

LEMMA ForwardStepInv == ForwardInv /\ [ForwardStep]_forwardVars => ForwardInv'
<1> SUFFICES ASSUME ForwardInv, [ForwardStep]_forwardVars PROVE ForwardInv'
  OBVIOUS
<1>1. ASSUME NEW c \in Targets, SendMessage(c) PROVE ForwardInv'
  <2>1. Submit(c, 1) /\ UNCHANGED call
    BY <1>1 DEF SendMessage
  <2> QED
    BY <2>1, SubmitForward, SubmitKeeps DEF ForwardInv, ForwardTypes, Issued, Once, Wanted, Full
<1>2. ASSUME NEW c \in Targets, NEW n \in 1 .. MaxSent, ForwardMessages(c, n) PROVE ForwardInv'
  <2>1. n \in Nat /\ Submit(c, n)
    BY <1>2, SentAssumption DEF ForwardMessages
  <2> DEFINE ids == next[c] + 1 .. next[c] + n
  <2>2. next[c] \in Nat /\ ids \in SUBSET Nat /\ IsFiniteSet(ids)
    <3>1. next[c] \in Nat
      BY DEF ForwardInv, ForwardTypes
    <3>2. next[c] + 1 \in Int /\ next[c] + n \in Int /\ ids \in SUBSET Nat
      BY <2>1, <3>1
    <3> QED
      BY <3>1, <3>2, FS_Interval
  <2>3. call' = [step |-> "waits", target |-> c, want |-> ids, todo |-> ids, got |-> <<>>]
    BY <1>2 DEF ForwardMessages
  <2> HIDE DEF ids
  <2>4. DOMAIN call'.got = {} /\ call'.got \in Seq(Messages)
    BY <2>3
  <2>5. ForwardTypes'
    BY <2>1, <2>2, <2>3, <2>4, SubmitForward DEF ForwardInv, ForwardTypes
  <2> QED
    BY <2>1, <2>3, <2>4, <2>5, SubmitKeeps DEF ForwardInv, Issued, Once, Wanted, Full
<1>3. ASSUME NEW m \in pending, SendSucceeded(m) \/ SendFailed(m) PROVE ForwardInv'
  <2>1. UNCHANGED <<next, call>> /\ pending' = pending \ {m} /\ sentMessages' \subseteq sentMessages \union {m}
    BY <1>3 DEF SendSucceeded, SendFailed
  <2>2. IsFiniteSet(sentMessages')
    BY <2>1, FS_AddElement, FS_Subset DEF ForwardInv, ForwardTypes
  <2> QED
    BY <2>1, <2>2 DEF ForwardInv, ForwardTypes, Issued, Once, Wanted, Full
<1>4. CASE Look
  BY <1>4, TakeForward
<1>5. CASE EndPass
  <2>1. UNCHANGED <<next, pending, sentMessages>>
    BY <1>5 DEF EndPass
  <2>2. CASE call' = NoCall
    <3>1. DOMAIN NoCall.got = {} /\ NoCall.got \in Seq(Messages) /\ IsFiniteSet(NoCall.want)
      BY FS_EmptySet DEF NoCall
    <3> QED
      BY <2>1, <2>2, <3>1 DEF ForwardInv, ForwardTypes, Issued, Once, Wanted, Full, NoCall
  <2>3. CASE call' = [call EXCEPT !.todo = call.want] \/ call' = [call EXCEPT !.step = "returned"]
    <3>1. call'.got = call.got /\ call'.want = call.want
      BY <2>3 DEF ForwardInv, ForwardTypes
    <3>2. CASE Len(call.got) = Cardinality(call.want)
      BY <2>1, <2>3, <3>1, <3>2 DEF ForwardInv, ForwardTypes, Issued, Once, Wanted, Full
    <3>3. CASE Len(call.got) # Cardinality(call.want)
      <4>1. call' \in {NoCall, [call EXCEPT !.todo = call.want]}
        BY <1>5, <3>3 DEF EndPass
      <4>2. call'.step # "returned"
        BY <1>5, <4>1 DEF EndPass, NoCall, ForwardInv, ForwardTypes
      <4> QED
        BY <2>1, <2>3, <3>1, <4>2 DEF ForwardInv, ForwardTypes, Issued, Once, Wanted, Full
    <3> QED
      BY <3>2, <3>3
  <2> QED
    BY <1>5, <2>2, <2>3 DEF EndPass
<1>6. CASE Forget
  <2>1. DOMAIN NoCall.got = {} /\ NoCall.got \in Seq(Messages) /\ IsFiniteSet(NoCall.want)
    BY FS_EmptySet DEF NoCall
  <2> QED
    BY <1>6, <2>1 DEF Forget, ForwardInv, ForwardTypes, Issued, Once, Wanted, Full, NoCall
<1>7. CASE UNCHANGED forwardVars
  BY <1>7 DEF forwardVars, ForwardInv, ForwardTypes, Issued, Once, Wanted, Full
<1> QED
  BY <1>1, <1>2, <1>3, <1>4, <1>5, <1>6, <1>7 DEF ForwardStep

\* Every other step of the process leaves the forwards alone, or ends it.
LEMMA NextForwards == [Next]_vars => [ForwardStep]_forwardVars \/ \E c : Die(c)
BY DEF Next, Start, Boot, LoadAccounts, Run, LoadChatFolders, Login, GetVersion, GetMe, SetClient, Put, Serve, Beside,
   Signal, Deadline, Update, Asks, Custom, SaveChatFilters, ReloadFolders, NewMessageRoutine, MessageContentRoutine, CallTdlib, Handle,
   Ask, AskRpc, Refuse, Enter, EndRequest, Answer, Forward, vars

\* A forward that returns has each message it sent, once, unless it has one of another chat
\* (tdApi.go:747-763 only counts what it finds): its messages of its own chat are
\* different, and as many as it waits for.
THEOREM ForwardsAreWhole == Spec => []ForwardIsWhole
<1>1. ForwardInv => ForwardIsWhole
  <2> SUFFICES ASSUME ForwardInv, call.step = "returned",
                      \A i \in DOMAIN call.got : call.got[i].chat = call.target
               PROVE  {call.got[i].id : i \in DOMAIN call.got} = call.want
    BY DEF ForwardIsWhole
  <2> DEFINE f == [i \in DOMAIN call.got |-> call.got[i].id]
  <2>1. /\ call.got \in Seq(Messages) /\ Len(call.got) = Cardinality(call.want)
        /\ DOMAIN call.got = 1 .. Len(call.got) /\ Len(call.got) \in Nat /\ IsFiniteSet(call.want)
    BY DEF ForwardInv, ForwardTypes, Full
  <2>2. ASSUME NEW i \in DOMAIN call.got, NEW j \in DOMAIN call.got, call.got[i].id = call.got[j].id
        PROVE  i = j
    <3>1. call.got[i] \in Messages /\ call.got[j] \in Messages
      BY <2>1
    <3>2. call.got[i] = call.got[j]
      BY <2>2, <3>1 DEF Messages
    <3> QED
      BY <3>2 DEF ForwardInv, Once
  <2>3. f \in Injection(DOMAIN call.got, call.want)
    BY <2>2 DEF Injection, IsInjective, ForwardInv, Wanted
  <2>4. Cardinality(DOMAIN call.got) = Cardinality(call.want)
    <3>1. Cardinality(1 .. Len(call.got)) = Len(call.got)
      BY <2>1, FS_Interval
    <3> QED
      BY <2>1, <3>1
  <2>5. f \in Surjection(DOMAIN call.got, call.want)
    BY <2>1, <2>3, <2>4, FS_Injection
  <2> QED
    BY <2>3, <2>5 DEF Injection, Surjection
<1>2. Init => ForwardInv
  BY InitForward DEF Init
<1>3. ForwardInv /\ [Next]_vars => ForwardInv'
  BY NextForwards, ForwardStepInv, DieForward
<1> QED
  BY <1>1, <1>2, <1>3, PTL DEF Spec
=================================================================================

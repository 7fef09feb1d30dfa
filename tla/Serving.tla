--------------------------------- MODULE Serving ---------------------------------
(***************************************************************************)
(* The process from its start to its end: main, AccountsStore.Run with     *)
(* Account.Run and RunTdlib for one account after another, the updates of  *)
(* TDLib, which come while that goes on, and the requests of the web       *)
(* server, which starts after it.                                          *)
(*                                                                         *)
(* An update here is one that makes its handler use the TDLib client, or    *)
(* load the folders; what they write is in ChatLists, ChatFolders and      *)
(* ReadMarks.                                                              *)
(* Requests share nothing but the store, so there is one.                  *)
(***************************************************************************)
EXTENDS ScheduledForward

CONSTANTS
    Accounts,   \* documents of the accounts collection
    Owner,      \* the account of the custom routines and of RPC, by its number in the code
    Handlers,   \* bound: goroutines of updates at once
    Failures    \* MongoDB and TDLib may fail

ASSUME FailuresAssumption == Failures \in BOOLEAN

VARIABLES
    proc,       \* the process
    stage,      \* how far the start of an account came
    live,       \* accounts whose TDLib sends updates
    client,     \* accounts whose t.tdlibClient, and then Me, is set
    store,      \* AccountsStore.accounts
    handler,    \* goroutines of updates
    request,    \* one page, or one call of RPC
    signalled,  \* ctx is cancelled
    death       \* history: what ended the process

startVars == <<proc, stage, live, client, store>>
vars == <<startVars, handler, request, signalled, death, forwardVars>>

NoAccount == "none"
Kinds == {"asks", "folders", "message", "content"}
Underway == {"folders", "login", "version", "me", "set", "put"}
Stages == {"skipped", "waiting", "served", "failed"} \union Underway
Idle == [step |-> "idle", acc |-> NoAccount, kind |-> "none", has |-> FALSE, early |-> FALSE]
NoRequest == [step |-> "idle", acc |-> NoAccount, needs |-> FALSE]

\* The calls of TDLib a handler makes, and what each may lead to.
After == [asks     |-> {"idle"},
          forward  |-> {"idle"},
          getChat  |-> {"search", "send", "idle"},
          search   |-> {"create", "idle"},
          create   |-> {"send", "idle"},
          send     |-> {"idle"}]

\* Bound: forwards are made when no update or request is handled, and none of these after them.
Quiet == (\A h \in Handlers : handler[h] = Idle) /\ request = NoRequest
NoForwards == \A c \in Targets : next[c] = 0

Init ==
    /\ proc = "boot" /\ stage = [a \in Accounts |-> "skipped"]
    /\ live = {} /\ client = {} /\ store = {}
    /\ handler = [h \in Handlers |-> Idle] /\ request = NoRequest
    /\ signalled = FALSE /\ death = "none"
    /\ ForwardInit

\* What was in memory is gone.
Die(cause) ==
    /\ proc' = "dead" /\ death' = cause
    /\ stage' = [a \in Accounts |-> "skipped"]
    /\ live' = {} /\ client' = {} /\ store' = {}
    /\ handler' = [h \in Handlers |-> Idle] /\ request' = NoRequest
    /\ next' = [c \in Targets |-> 0] /\ pending' = {}
    /\ sentMessages' = {} /\ call' = NoCall
    /\ UNCHANGED signalled

Beside == UNCHANGED <<handler, request, signalled, death, forwardVars>>

-----------------------------------------------------------------------------
\* Configuration, TDLib's options, MongoDB's client and the arguments.
Boot ==
    /\ proc = "boot"
    /\ \/ proc' = "load" /\ UNCHANGED <<stage, live, client, store>> /\ Beside
       \/ Die("exit")

\* The phone of the arguments selects some, and those that are not active are skipped.
LoadAccounts ==
    /\ proc = "load"
    /\ \/ /\ ~signalled /\ proc' = "start"
          /\ \E active \in SUBSET Accounts :
                stage' = [a \in Accounts |-> IF a \in active THEN "waiting" ELSE "skipped"]
          /\ UNCHANGED <<live, client, store>> /\ Beside
       \/ (Failures \/ signalled) /\ Die("exit")

Stage(a, s) == stage' = [stage EXCEPT ![a] = s]

\* A faulty loop, without the continue.
FailAndPut(a) == Stage(a, "put") /\ UNCHANGED <<proc, live, client, store>>

\* A failed account is left out of the store and the next one is run; its TDLib goes on.
Fail(a) == Stage(a, "failed") /\ UNCHANGED <<proc, live, client, store>>

\* A faulty loop, which does not wait for an account's start.
RunAtOnce(a) ==
    /\ proc = "start" /\ stage[a] = "waiting"
    /\ Stage(a, "folders") /\ UNCHANGED <<proc, live, client, store>> /\ Beside

\* A faulty order, in which the account is put before it runs.
RunPut(a) ==
    /\ proc = "start" /\ stage[a] = "waiting" /\ \A b \in Accounts : stage[b] \notin Underway
    /\ Stage(a, "folders") /\ store' = store \union {a} /\ UNCHANGED <<proc, live, client>> /\ Beside

Run(a) ==
    /\ proc = "start" /\ stage[a] = "waiting" /\ \A b \in Accounts : stage[b] \notin Underway
    /\ Stage(a, "folders") /\ UNCHANGED <<proc, live, client, store>> /\ Beside

\* The error of Find is not looked at: the cursor is then nil, and reading it panics in main.
\* Reading a cursor may fail too, which is an error.
LoadChatFolders(a) ==
    /\ proc = "start" /\ stage[a] = "folders"
    /\ \/ ~signalled /\ Stage(a, "login") /\ UNCHANGED <<proc, live, client, store>> /\ Beside
       \/ (Failures \/ signalled) /\ Fail(a) /\ Beside
       \/ (Failures \/ signalled) /\ Die("nil cursor")

\* NewClient returns when TDLib is logged in, or says it will not be.  A person's answer that
\* nobody can give is waited for without end.
Login(a) ==
    /\ proc = "start" /\ stage[a] = "login"
    /\ \/ Stage(a, "version") /\ live' = live \union {a} /\ UNCHANGED <<proc, client, store>>
       \/ Failures /\ Fail(a)
    /\ Beside

GetVersion(a) ==
    /\ proc = "start" /\ stage[a] = "version"
    /\ \/ Stage(a, "me") /\ UNCHANGED <<proc, live, client, store>>
       \/ Failures /\ Fail(a)
    /\ Beside

GetMe(a) ==
    /\ proc = "start" /\ stage[a] = "me"
    /\ \/ Stage(a, "set") /\ UNCHANGED <<proc, live, client, store>>
       \/ (Failures \/ signalled) /\ Fail(a)
    /\ Beside

SetClient(a) ==
    /\ proc = "start" /\ stage[a] = "set"
    /\ Stage(a, "put") /\ client' = client \union {a}
    /\ UNCHANGED <<proc, live, store>> /\ Beside

Put(a) ==
    /\ proc = "start" /\ stage[a] = "put"
    /\ Stage(a, "served") /\ store' = store \union {a}
    /\ UNCHANGED <<proc, live, client>> /\ Beside

\* A faulty loop, which the first error ends.
ServeOnError ==
    /\ proc = "start" /\ \A a \in Accounts : stage[a] \notin Underway
    /\ (\E a \in Accounts : stage[a] = "failed") \/ (\A a \in Accounts : stage[a] # "waiting")
    /\ proc' = "serve" /\ UNCHANGED <<stage, live, client, store>> /\ Beside

\* The web server, which may not get its port.
Serve ==
    /\ proc = "start" /\ \A a \in Accounts : stage[a] \notin Underway \union {"waiting"}
    /\ \/ proc' = "serve" /\ UNCHANGED <<stage, live, client, store>> /\ Beside
       \/ Die("exit")

\* What the program does for its own start.
Start ==
    \/ Boot \/ LoadAccounts \/ Serve
    \/ \E a \in Accounts : \/ Run(a) \/ LoadChatFolders(a) \/ GetVersion(a)
                           \/ GetMe(a) \/ SetClient(a) \/ Put(a)

\* NotifyContext catches the signal, and nothing but the timer acts on it.
Signal ==
    /\ proc \notin {"boot", "dead"} /\ ~signalled /\ signalled' = TRUE
    /\ UNCHANGED <<startVars, handler, request, death, forwardVars>>

Deadline == proc # "dead" /\ signalled /\ Die("timer")

-----------------------------------------------------------------------------
Handle(h, r) ==
    /\ handler' = [handler EXCEPT ![h] = r]
    /\ UNCHANGED <<startVars, request, signalled, death, forwardVars>>

\* UpdatesCallback starts for an update that, whatever its chat is, may need the client.
Update(h, a, kind) ==
    /\ proc # "dead" /\ handler[h] = Idle /\ a \in live /\ NoForwards
    /\ Handle(h, [step |-> "new", acc |-> a, kind |-> kind, has |-> FALSE, early |-> a \notin store])

\* A join, or a chat's name, which may be cached: t.tdlibClient is read when it is used.
Asks(h) ==
    /\ handler[h].step = "new" /\ handler[h].kind = "asks"
    /\ \E s \in {"asks", "idle"} : Handle(h, IF s = "idle" THEN Idle ELSE [handler[h] EXCEPT !.step = s])

\* The custom routine gets t.tdlibClient as its argument now.
Custom(h) ==
    /\ handler[h].step = "new" /\ handler[h].kind \in {"message", "content"}
    /\ Handle(h, [handler[h] EXCEPT !.step = "routine", !.has = handler[h].acc \in client])

\* Whether the message is one to react to is in its chat and text.
NewMessageRoutine(h) ==
    /\ handler[h].step = "routine" /\ handler[h].kind = "message"
    /\ \/ Handle(h, Idle)
       \/ handler[h].acc # Owner /\ Handle(h, [handler[h] EXCEPT !.step = "getChat"])
       \/ handler[h].acc = Owner /\ Handle(h, [handler[h] EXCEPT !.step = "forward"])

MessageContentRoutine(h) ==
    /\ handler[h].step = "routine" /\ handler[h].kind = "content"
    /\ \/ Handle(h, Idle)
       \/ handler[h].acc = Owner /\ Handle(h, [handler[h] EXCEPT !.step = "forward"])

\* The goroutine of a new folder, if there is one, asks for it; then the folders are loaded.
SaveChatFilters(h) ==
    /\ handler[h].step = "new" /\ handler[h].kind = "folders"
    /\ \E s \in {"asks", "reload"} : Handle(h, [handler[h] EXCEPT !.step = s])

\* As in the start, Find's nil cursor panics, here in a goroutine of an update.
ReloadFolders(h) ==
    /\ handler[h].step = "reload"
    /\ \/ Handle(h, Idle)
       \/ (Failures \/ signalled) /\ Die("nil cursor")

\* A call through a nil client panics, and no one recovers it in these goroutines.
CallTdlib(h) ==
    LET r == handler[h]
    IN  /\ r.step \in DOMAIN After
        /\ IF r.has \/ (r.step = "asks" /\ r.acc \in client)
           THEN \E s \in IF r.kind = "folders" THEN {"reload"} ELSE After[r.step] :
                    Handle(h, IF s = "idle" THEN Idle ELSE [r EXCEPT !.step = s])
           ELSE Die(IF r.early THEN "nil of an early update" ELSE "nil of a served account")

-----------------------------------------------------------------------------
Answer(r) == request' = r /\ UNCHANGED <<startVars, handler, signalled, death, forwardVars>>

\* A cookie of an account, of this or an earlier run of the process, or none that can be read.
Ask(a, needs) ==
    /\ proc = "serve" /\ request = NoRequest /\ NoForwards
    /\ Answer([step |-> "asked", acc |-> a, needs |-> needs])

\* The account of RPC is a number in the code.
AskRpc == Ask(Owner, TRUE)

\* The page to select an account, or "no acc in store", or RPC's "account not found".
Refuse ==
    /\ request.step = "asked" /\ request.needs /\ request.acc \notin store
    /\ Answer(NoRequest)

\* A page that needs no account has none, or the one of its cookie.
Enter ==
    /\ request.step = "asked" /\ (request.needs => request.acc \in store)
    /\ Answer([request EXCEPT !.step = "runs", !.acc = IF @ \in store THEN @ ELSE NoAccount])

\* Its calls; net/http recovers a panic of a page.
EndRequest == request.step = "runs" /\ Answer(NoRequest)

-----------------------------------------------------------------------------
\* The scheduled forwards of one account; accounts share no messages.
Forward ==
    /\ proc = "serve" /\ store # {} /\ Quiet
    /\ ForwardStep
    /\ UNCHANGED <<startVars, handler, request, signalled, death>>

Next ==
    \/ Start \/ Signal \/ Deadline \/ Forward
    \/ \E a \in Accounts : Login(a)
    \/ \E h \in Handlers :
        \/ \E a \in Accounts, k \in Kinds : Update(h, a, k)
        \/ SaveChatFilters(h) \/ ReloadFolders(h)
        \/ Asks(h) \/ Custom(h) \/ NewMessageRoutine(h) \/ MessageContentRoutine(h) \/ CallTdlib(h)
    \/ \E a \in Accounts \union {NoAccount}, needs \in BOOLEAN : Ask(a, needs)
    \/ AskRpc \/ Refuse \/ Enter \/ EndRequest

Spec == Init /\ [][Next]_vars

\* MongoDB and TDLib answer or fail, except for a login.
FairSpec == Spec /\ WF_vars(Start)

-----------------------------------------------------------------------------
\* Types; one account starts at a time, and one in the store has its client.
TypeOK ==
    /\ proc \in {"boot", "load", "start", "serve", "dead"}
    /\ stage \in [Accounts -> Stages]
    /\ \A a, b \in Accounts : stage[a] \in Underway /\ stage[b] \in Underway => a = b
    /\ live \subseteq Accounts /\ client \subseteq live /\ store \subseteq client
    /\ handler \in [Handlers -> [step : DOMAIN After \union {"idle", "new", "routine", "reload"},
                                 acc : Accounts \union {NoAccount},
                                 kind : Kinds \union {"none"},
                                 has : BOOLEAN, early : BOOLEAN]]
    /\ request \in [step : {"idle", "asked", "runs"}, acc : Accounts \union {NoAccount, Owner},
                    needs : BOOLEAN]
    /\ signalled \in BOOLEAN

\* An account whose start failed half-way, or a cookie of another run, leads no page and no call of
\* RPC to an account without its client.
RequestsHaveClients ==
    request.step = "runs" =>
        /\ request.needs => request.acc \in store
        /\ request.acc # NoAccount => request.acc \in client

\* Updates run in goroutines of their own while accounts start, and a nil client ends the process:
\* that happens only by an update that came before its account was in the store.
DeathHasCause == death # "nil of a served account"

\* Whatever fails in the start of the accounts before it, an active account is served or fails
\* itself, unless a login is waited for, or the process ends: by a signal's timer, by an update that
\* came too early, or as MongoDB, down or cut off by a signal, gave no cursor.  No failed account is
\* itself the end of it.
StartSettles ==
    \A a \in Accounts :
        stage[a] = "waiting" ~>
            \/ stage[a] \in {"served", "failed"} \/ \E b \in Accounts : stage[b] = "login"
            \/ death \in {"timer", "nil of an early update", "nil cursor"}
=================================================================================

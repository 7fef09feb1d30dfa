--------------------------- MODULE AccountCreation ---------------------------
(***************************************************************************)
(* Creating an account from the web page: processAddAccount of             *)
(* internal/web/controller.go, AccountCreator of internal/tdlib/creator.go *)
(* and AccountsStorage of internal/db/accounts.go.                         *)
(*                                                                         *)
(* Every POST is a goroutine of net/http; a phone number starts one more   *)
(* goroutine, the login, that outlives its request.  They share, without a *)
(* lock, the AccountCreator's three fields.  A step is the code between    *)
(* two calls that leave the process (MongoDB, TDLib, a channel): there     *)
(* every field may change under it.                                        *)
(*                                                                         *)
(* The login started by request r is named r, and so are the account       *)
(* object, the Authorizer and the AuthParams channel it allocates.  A      *)
(* login moves along LoginStages.Moves, which Authorizer.tla implements.   *)
(***************************************************************************)
EXTENDS LoginStages

CONSTANTS
    Requests,    \* the POSTs of /new
    Phones,      \* phone numbers; a phone also names its Telegram user
    Nil          \* the nil pointer, and no user

VARIABLES
    db,          \* MongoDB accounts: phone -> [phone, status, id]
    sess,        \* TDLib data directories: phone -> the user logged in there
    up,          \* the process: up, down, or hung in its start
    served,      \* AccountsStore: accounts with a running TDLib client
    cur,         \* AccountCreator.CurrentAuthorizingAcc: an object or Nil
    authz,       \* AccountCreator.Authorizer
    params,      \* AccountCreator.AuthParams
    acc,         \* account objects: request -> DbAccountData
    pc,          \* where each request stands
    phone,       \* the phone number a request carries
    found,       \* what GetSavedAccount returned to a request
    ch,          \* the channel a request is blocked on
    stage,       \* where each login stands
    dir,         \* the directory a login's TDLib client runs in
    page,        \* AuthorizerState of each authorizer: unset, set, reset
    overlapped   \* history: a phone was accepted while another was in work

diskVars == <<db, sess>>
credVars == <<cur, authz, params>>
reqVars  == <<pc, phone, found, ch>>
vars == <<diskVars, up, served, credVars, acc, reqVars, stage, dir, page, overlapped>>

\* A user is named by the phone; an account that was never active has id 0.
NoUser == "0"
NoDoc  == [phone |-> Nil, status |-> "none", id |-> NoUser]

ASSUME NilAssumption == Nil \notin Requests \union Phones /\ NoUser \notin Phones

\* Stages of the login goroutine around the login proper.
Over == {"none", "over"}

Init ==
    /\ db = [p \in Phones |-> NoDoc] /\ sess = [p \in Phones |-> Nil]
    /\ up = "up" /\ served = {}
    /\ cur = Nil /\ authz = Nil /\ params = Nil
    /\ acc = [r \in Requests |-> NoDoc]
    /\ pc = [r \in Requests |-> "idle"] /\ phone = [r \in Requests |-> Nil]
    /\ found = [r \in Requests |-> NoDoc] /\ ch = [r \in Requests |-> Nil]
    /\ stage = [r \in Requests |-> "none"] /\ dir = [r \in Requests |-> Nil]
    /\ page = [r \in Requests |-> "unset"]
    /\ overlapped = FALSE

\* Requests and logins at work on a phone number.
Busy == {r \in Requests : pc[r] \in {"find", "found", "save", "spawn", "check"}
                          \/ stage[r] \notin Over}

Goto(r, l) == pc' = [pc EXCEPT ![r] = l]

-------------------------------------------------------------------------------
(* processAddAccount, POST.  A nil dereference in a request is recovered by  *)
(* net/http: the request ends where it stands.                               *)

\* CurrentState() is not nil.
PageIsSet == authz # Nil /\ page[authz] = "set"

\* Mutant: the account in work is not looked at.
PostPhoneAnytime(r, p) ==
    /\ pc[r] = "idle" /\ ~PageIsSet
    /\ Goto(r, "find") /\ phone' = [phone EXCEPT ![r] = p]
    /\ overlapped' = (overlapped \/ Busy # {})
    /\ UNCHANGED <<diskVars, up, served, credVars, acc, found, ch, stage, dir, page>>

\* No account in work and a phone given: RunAccountCreationFlow is called.
\* While the page still has a state, its header dereferences the account.
PostPhone(r, p) ==
    /\ pc[r] = "idle" /\ cur = Nil /\ ~PageIsSet
    /\ Goto(r, "find") /\ phone' = [phone EXCEPT ![r] = p]
    /\ overlapped' = (overlapped \/ Busy # {})
    /\ UNCHANGED <<diskVars, up, served, credVars, acc, found, ch, stage, dir, page>>

\* An account in work and the page on its code or password form: the value
\* given there is sent on the AuthParams channel of that moment.
PostAnswer(r) ==
    /\ pc[r] = "idle" /\ cur # Nil /\ PageIsSet
    /\ stage[authz] \in {"askCode", "checkCode", "askPassword", "checkPassword"}
    /\ Goto(r, "send") /\ ch' = [ch EXCEPT ![r] = params]
    /\ UNCHANGED <<diskVars, up, served, credVars, acc, phone, found, stage, dir, page,
                   overlapped>>

\* Any other form only moves the page.
PostNothing(r) ==
    /\ pc[r] = "idle" /\ Goto(r, "done")
    /\ UNCHANGED <<diskVars, up, served, credVars, acc, phone, found, ch, stage, dir,
                   page, overlapped>>

\* GetSavedAccount; after an error the request goes on as if it had started.
Find(r) ==
    /\ pc[r] = "find"
    /\ \/ Goto(r, "found") /\ found' = [found EXCEPT ![r] = db[phone[r]]]
       \/ Goto(r, "check") /\ UNCHANGED found
    /\ UNCHANGED <<diskVars, up, served, credVars, acc, phone, ch, stage, dir, page,
                   overlapped>>

\* Mutant: the saved account is not looked at.
SetCurrentNew(r) ==
    /\ pc[r] = "found"
    /\ cur' = r
    /\ acc' = [acc EXCEPT ![r] = [phone |-> phone[r], status |-> "new", id |-> NoUser]]
    /\ Goto(r, "save")
    /\ UNCHANGED <<diskVars, up, served, authz, params, phone, found, ch, stage, dir,
                   page, overlapped>>

\* The account object, new or as saved, becomes the one in work.
SetCurrent(r) ==
    /\ pc[r] = "found"
    /\ cur' = r
    /\ acc' = [acc EXCEPT ![r] =
                 IF found[r] = NoDoc
                 THEN [phone |-> phone[r], status |-> "new", id |-> NoUser]
                 ELSE found[r]]
    /\ Goto(r, CASE found[r] = NoDoc            -> "save"
                 [] found[r].status = "active"  -> "check"
                 [] OTHER                       -> "spawn")
    /\ UNCHANGED <<diskVars, up, served, authz, params, phone, found, ch, stage, dir,
                   page, overlapped>>

\* SaveAccount: an upsert by phone.
Save(o) == db' = [db EXCEPT ![acc[o].phone] = acc[o]]

\* The new account is saved, or the account in work by then is put in error.
SaveNew(r) ==
    /\ pc[r] = "save"
    /\ \/ Save(r) /\ Goto(r, "spawn") /\ UNCHANGED acc
       \/ cur # Nil /\ acc' = [acc EXCEPT ![cur].status = "error"]
          /\ Goto(r, "check") /\ UNCHANGED db
       \/ cur = Nil /\ Goto(r, "done") /\ UNCHANGED <<db, acc>>
    /\ UNCHANGED <<sess, up, served, credVars, phone, found, ch, stage, dir, page,
                   overlapped>>

\* The authorizer takes the directory of the account in work by then; the
\* login goroutine starts.
Spawn(r) ==
    /\ pc[r] = "spawn"
    /\ IF cur = Nil
       THEN Goto(r, "done") /\ UNCHANGED <<authz, params, stage, dir>>
       ELSE /\ authz' = r /\ params' = r
            /\ dir' = [dir EXCEPT ![r] = acc[cur].phone]
            /\ stage' = [stage EXCEPT ![r] = "starting"]
            /\ Goto(r, "check")
    /\ UNCHANGED <<diskVars, up, served, cur, acc, phone, found, ch, page, overlapped>>

\* Mutant: the request lets go of the account whatever its status.
CheckAlwaysClears(r) ==
    /\ pc[r] = "check" /\ Goto(r, "done")
    /\ cur' = Nil
    /\ UNCHANGED <<diskVars, up, served, authz, params, acc, phone, found, ch, stage,
                   dir, page, overlapped>>

\* Back in the request: an active account is not the one in work any more.
Check(r) ==
    /\ pc[r] = "check" /\ Goto(r, "done")
    /\ cur' = IF cur # Nil /\ acc[cur].status = "active" THEN Nil ELSE cur
    /\ UNCHANGED <<diskVars, up, served, authz, params, acc, phone, found, ch, stage,
                   dir, page, overlapped>>

-------------------------------------------------------------------------------
(* The login goroutine and its ChanInteractor.                               *)

\* The process dies: its memory is gone, the disk is not.
Die ==
    /\ up' = "down" /\ served' = {}
    /\ cur' = Nil /\ authz' = Nil /\ params' = Nil
    /\ acc' = [r \in Requests |-> NoDoc]
    /\ pc' = [r \in Requests |-> IF pc[r] = "idle" THEN "idle" ELSE "done"]
    /\ phone' = [r \in Requests |-> Nil]
    /\ found' = [r \in Requests |-> NoDoc] /\ ch' = [r \in Requests |-> Nil]
    /\ stage' = [r \in Requests |-> "none"] /\ dir' = [r \in Requests |-> Nil]
    /\ page' = [r \in Requests |-> "unset"]
    /\ UNCHANGED <<diskVars, overlapped>>

\* ChanInteractor receives the first state.
Show(r) ==
    /\ stage[r] \in Stages /\ page[r] = "unset"
    /\ page' = [page EXCEPT ![r] = "set"]
    /\ UNCHANGED <<diskVars, up, served, credVars, acc, reqVars, stage, dir, overlapped>>

\* ChanInteractor ends after the login.
Hide(r) ==
    /\ stage[r] \notin Asking \union Working \union {"none"} /\ page[r] # "reset"
    /\ page' = [page EXCEPT ![r] = "reset"]
    /\ UNCHANGED <<diskVars, up, served, credVars, acc, reqVars, stage, dir, overlapped>>

\* TDLib asks, accepts or refuses.  A directory that is logged in asks for
\* nothing.  The login may have been accepted even when NewClient fails, at
\* its deadline.
LoginMove(r) ==
    /\ stage[r] \in Working
    /\ \E s \in Moves[stage[r]] \ {"panic"} :
        /\ s \in Asking => page[r] = "set" /\ sess[dir[r]] = Nil
        /\ s = "ok" => stage[r] # "starting" \/ sess[dir[r]] # Nil
        /\ stage' = [stage EXCEPT ![r] = s]
        /\ \/ s # "ok" /\ UNCHANGED sess
           \/ /\ s \notin Asking /\ (s = "ok" \/ stage[r] # "starting")
              /\ sess' = IF sess[dir[r]] = Nil
                         THEN [sess EXCEPT ![dir[r]] = phone[r]] ELSE sess
    /\ UNCHANGED <<db, up, served, credVars, acc, reqVars, dir, page, overlapped>>

\* A question meets a request blocked on this login's channel.
TakeAnswer(r, q) ==
    /\ stage[r] \in Asking /\ pc[q] = "send" /\ ch[q] = r
    /\ \E s \in Moves[stage[r]] : stage' = [stage EXCEPT ![r] = s]
    /\ Goto(q, "done")
    /\ UNCHANGED <<diskVars, up, served, credVars, acc, phone, found, ch, dir, page,
                   overlapped>>

\* A login state the code does not support panics outside any request.
LoginPanic(r) == stage[r] = "starting" /\ Die

\* Mutant: the account that failed is let go, as after a login that went well.
FlowErrorClears(r) ==
    /\ stage[r] \in {"ok", "failed"}
    /\ IF cur = Nil
       THEN Die
       ELSE /\ acc' = [acc EXCEPT ![cur].status = "error"]
            /\ cur' = Nil /\ stage' = [stage EXCEPT ![r] = "over"]
            /\ UNCHANGED <<diskVars, up, served, authz, params, reqVars, dir, page, overlapped>>

\* NewClient or a call after it failed: the account in work is in error, in
\* memory only.  It stays the one in work.
FlowError(r) ==
    /\ stage[r] \in {"ok", "failed"}
    /\ IF cur = Nil
       THEN Die
       ELSE /\ acc' = [acc EXCEPT ![cur].status = "error"]
            /\ stage' = [stage EXCEPT ![r] = "over"]
            /\ UNCHANGED <<diskVars, up, served, credVars, reqVars, dir, page, overlapped>>

\* Mutant: the account becomes active without the user's id.
FlowActiveNoId(r) ==
    /\ stage[r] = "ok"
    /\ IF cur = Nil
       THEN Die
       ELSE /\ acc' = [acc EXCEPT ![cur].status = "active"]
            /\ stage' = [stage EXCEPT ![r] = "saving"]
            /\ UNCHANGED <<diskVars, up, served, credVars, reqVars, dir, page, overlapped>>

\* Mutant: the id is the one of the directory's key, not of GetMe.
FlowActiveOfCurrent(r) ==
    /\ stage[r] = "ok"
    /\ IF cur = Nil
       THEN Die
       ELSE /\ acc' = [acc EXCEPT ![cur].id = cur, ![cur].status = "active"]
            /\ stage' = [stage EXCEPT ![r] = "saving"]
            /\ UNCHANGED <<diskVars, up, served, credVars, reqVars, dir, page, overlapped>>

\* GetOption, GetMe and Close went well: the account in work is active.
FlowActive(r) ==
    /\ stage[r] = "ok"
    /\ IF cur = Nil
       THEN Die
       ELSE /\ acc' = [acc EXCEPT ![cur].id = sess[dir[r]], ![cur].status = "active"]
            /\ stage' = [stage EXCEPT ![r] = "saving"]
            /\ UNCHANGED <<diskVars, up, served, credVars, reqVars, dir, page, overlapped>>

\* SaveAccount of the account in work by then.
FlowSave(r) ==
    /\ stage[r] = "saving"
    /\ IF cur = Nil
       THEN Die
       ELSE /\ \/ Save(cur) /\ stage' = [stage EXCEPT ![r] = "saved"]
               \/ stage' = [stage EXCEPT ![r] = "failed"] /\ UNCHANGED db
            /\ UNCHANGED <<sess, up, served, credVars, acc, reqVars, dir, page,
                           overlapped>>

\* The next account can be created.
FlowClear(r) ==
    /\ stage[r] = "saved"
    /\ cur' = Nil /\ stage' = [stage EXCEPT ![r] = "over"]
    /\ UNCHANGED <<diskVars, up, served, authz, params, acc, reqVars, dir, page,
                   overlapped>>

-------------------------------------------------------------------------------
(* The process.                                                              *)

Crash == up = "up" /\ Die

\* LoadAccounts, of those that Run does not pass over.
Actives == {p \in Phones : db[p].status = "active"}

\* RunTdlib of an account whose directory is logged out waits for ever for a
\* code nobody can enter.
Hangs == \E p \in Actives : sess[p] = Nil

\* The clients of those whose start did not fail.
Clients == SUBSET Actives

\* AccountsStore.Run: the web server is started when all accounts were.
Start ==
    /\ up = "down"
    /\ IF Hangs
       THEN up' = "hung" /\ UNCHANGED served
       ELSE up' = "up" /\ served' \in Clients
    /\ UNCHANGED <<diskVars, credVars, acc, reqVars, stage, dir, page, overlapped>>

Request(r) ==
    \/ \E p \in Phones : PostPhone(r, p)
    \/ PostAnswer(r) \/ PostNothing(r)

\* A request inside RunAccountCreationFlow, or back from it.
RequestGoesOn(r) == Find(r) \/ SetCurrent(r) \/ SaveNew(r) \/ Spawn(r) \/ Check(r)

Login(r) ==
    \/ Show(r) \/ Hide(r) \/ LoginMove(r) \/ \E q \in Requests : TakeAnswer(r, q)
    \/ FlowError(r) \/ FlowActive(r) \/ FlowSave(r) \/ FlowClear(r)

Next ==
    \/ Start
    \/ /\ up = "up"
       /\ \/ Crash
          \/ \E r \in Requests : \/ Request(r) \/ RequestGoesOn(r)
                                 \/ Login(r) \/ LoginPanic(r)

Spec == Init /\ [][Next]_vars

\* Goroutines run on, and a stopped process is started again; nothing forces
\* a request, a crash or a state that panics.
FairSpec ==
    /\ Spec
    /\ WF_vars(Start)
    /\ \A r \in Requests : /\ WF_vars(up = "up" /\ RequestGoesOn(r))
                           /\ WF_vars(up = "up" /\ Login(r))

-------------------------------------------------------------------------------
(* Properties.                                                               *)

Users == Phones \union {NoUser}
Docs  == {NoDoc} \union
         [phone : Phones, id : Users, status : {"new", "active", "error"}]

DiskTypes ==
    /\ db \in [Phones -> Docs] /\ sess \in [Phones -> Phones \union {Nil}]
    /\ up \in {"up", "down", "hung"} /\ served \in SUBSET Phones

CreatorTypes ==
    /\ cur \in Requests \union {Nil} /\ authz \in Requests \union {Nil}
    /\ params \in Requests \union {Nil}
    /\ acc \in [Requests -> Docs]

RequestTypes ==
    /\ pc \in [Requests -> {"idle", "find", "found", "save", "spawn", "check",
                            "send", "done"}]
    /\ phone \in [Requests -> Phones \union {Nil}]
    /\ found \in [Requests -> Docs]
    /\ ch \in [Requests -> Requests \union {Nil}]
    /\ overlapped \in BOOLEAN

LoginTypes ==
    /\ stage \in [Requests -> Stages \union Over \union {"saving", "saved"}]
    /\ dir \in [Requests -> Phones \union {Nil}]
    /\ page \in [Requests -> {"unset", "set", "reset"}]

\* Types: no step follows a nil account or an empty phone.
TypeOK == DiskTypes /\ CreatorTypes /\ RequestTypes /\ LoginTypes

\* Through crashes, failed saves and logins continued after a restart, and as long as no two
\* phone numbers were in work at once, an account saved as active carries the Telegram user of
\* its own phone, and has a data directory logged in for it, wherever the process died: the next
\* start never waits for a code.
ActiveIsOwn ==
    ~overlapped =>
        /\ \A p \in Phones : db[p].id = (IF p \in Actives THEN p ELSE NoUser)
        /\ up # "hung" /\ \A p \in Actives : sess[p] = p

\* Until its account is active, a login works on the object it started with;
\* after that, only its own request may have taken the object away.
LoginOwnsCurrent ==
    ~overlapped => \A r \in Requests :
        stage[r] \notin Over =>
            \/ cur = r /\ acc[r].phone = phone[r] /\ dir[r] = phone[r]
            \/ cur = Nil /\ acc[r].status = "active"

\* An active account is never set back.
ActiveStays == [][~overlapped' => Actives \subseteq Actives']_vars

\* Two phone numbers get in work at once only through a request that has not
\* set the account in work yet, or one whose account just became active.
OverlapWindow ==
    [][ ~overlapped /\ overlapped' =>
          \E q \in Busy : pc[q] \in {"find", "found", "check"} \/ acc[q].status = "active"
      ]_vars

\* An account whose login failed, or which could not be saved, stays the one in work: only a restart
\* lets the next account be created.  A login is over that way, or with its account saved as active.
FailureBlocksCreation ==
    ~overlapped => \A r \in Requests :
        /\ acc[r].status = "error" => cur = r
        /\ stage[r] = "over" => acc[r].status = "error" \/ phone[r] \in Actives

\* readme.md strikes out "requires restart after successful login" as done.
\* While the process keeps running, an account that became active gets a client.
ActiveIsServed == [](up = "up") => \A p \in Phones : p \in Actives ~> p \in served

===============================================================================

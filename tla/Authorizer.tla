------------------------------ MODULE Authorizer ------------------------------
(***************************************************************************)
(* One login through internal/tdlib/authorizer.go.                         *)
(*                                                                         *)
(* Three kinds of processes meet over the channels of a ClientAuthorizer:  *)
(*   - the login goroutine, inside client.NewClient, where go-tdlib's      *)
(*     Authorize loop asks TDLib for its state and calls Handle (Lib...);  *)
(*   - ChanInteractor, which shows the state to the web page and feeds the *)
(*     phone, the code and the password back (Inter...);                   *)
(*   - the web requests that POST a code or a password, each blocked on    *)
(*     the unbuffered AuthParams channel until ChanInteractor takes it.    *)
(* TDLib itself and the Authorize loop are outside src/; they are modelled *)
(* as the code uses them.                                                  *)
(***************************************************************************)
EXTENDS Naturals, Sequences

CONSTANTS
    Requests,    \* the POSTs of the form: each is one HTTP request
    StateCap,    \* capacity of the State channel (10 in the code)
    Nil          \* no authorization state, no value

ASSUME StateCapAssumption == StateCap \in Nat \ {0}

VARIABLES
    tdState,     \* TDLib's authorization state
    libPc,       \* where the Authorize loop stands
    libState,    \* the state Handle was called with
    expired,     \* the 60 s deadline of the running Handle has passed
    authErr,     \* a Handle failed: the loop waits for TDLib to close
    stateCh,     \* the State channel
    phoneCh, codeCh, passwordCh,   \* channels of capacity one: a value or Nil
    closed,      \* Close() ran
    interPc,     \* where ChanInteractor stands
    param,       \* the value ChanInteractor holds, named by its form
    phoneSet, codeSet, passwordSet,
    shown,       \* AuthorizerState, read by the web page
    reqPc, form, \* the web requests and the form each one carries
    usedCode,    \* the form whose value was checked as a code
    usedPassword,\* the form whose value was checked as a password
    panicked     \* the process died of a panic

libVars   == <<tdState, libPc, libState, expired, authErr>>
chVars    == <<stateCh, phoneCh, codeCh, passwordCh, closed>>
interVars == <<interPc, param, phoneSet, codeSet, passwordSet, shown>>
reqVars   == <<reqPc, form>>
usedVars  == <<usedCode, usedPassword>>
vars == <<libVars, chVars, interVars, reqVars, usedVars, panicked>>

Unsupported == {"WaitRegistration", "LoggingOut"}
Panicking   == {"WaitEmailAddress", "WaitEmailCode", "WaitOtherDeviceConfirmation"}
AuthStates  == {"WaitTdlibParameters", "WaitPhoneNumber", "WaitCode", "WaitPassword",
                "Ready", "Closing", "Closed"} \union Unsupported \union Panicking

\* nil is neither a state nor a value typed into a form.
ASSUME NilAssumption == Nil \notin AuthStates \union {"phone", "code", "password"}

\* The form the page shows for a state, and the state that asks for a form.
FormOf == [s \in {"WaitCode", "WaitPassword"} |->
             IF s = "WaitCode" THEN "code" ELSE "password"]

Init ==
    /\ tdState = "WaitTdlibParameters"
    /\ libPc = "ask" /\ libState = Nil /\ expired = FALSE /\ authErr = FALSE
    /\ stateCh = <<>> /\ phoneCh = Nil /\ codeCh = Nil /\ passwordCh = Nil
    /\ closed = FALSE
    /\ interPc = "recv" /\ param = Nil /\ shown = Nil
    /\ phoneSet = FALSE /\ codeSet = FALSE /\ passwordSet = FALSE
    /\ reqPc = [r \in Requests |-> "idle"] /\ form = [r \in Requests |-> Nil]
    /\ usedCode = Nil /\ usedPassword = Nil
    /\ panicked = FALSE

-------------------------------------------------------------------------------
(* The login goroutine: the Authorize loop and Handle.                       *)

\* GetAuthorizationState: Closed and Ready end the loop, every other state is
\* handed to Handle, whose deadline starts before it waits for anything.
LibAsk ==
    /\ libPc = "ask"
    /\ IF tdState \in {"Closed", "Ready"}
       THEN libPc' = "return" /\ UNCHANGED <<libState, expired>>
       ELSE libPc' = "push" /\ libState' = tdState /\ expired' = FALSE
    /\ UNCHANGED <<tdState, authErr, chVars, interVars, reqVars, usedVars, panicked>>

\* Mutant: the State channel has no bound.
HandlePushUnbounded ==
    /\ libPc = "push"
    /\ stateCh' = Append(stateCh, libState)
    /\ libPc' = "handle"
    /\ UNCHANGED <<tdState, libState, expired, authErr, phoneCh, codeCh, passwordCh,
                   closed, interVars, reqVars, usedVars, panicked>>

\* c.State <- state, which blocks while the channel is full.
HandlePush ==
    /\ libPc = "push" /\ Len(stateCh) < StateCap
    /\ stateCh' = Append(stateCh, libState)
    /\ libPc' = "handle"
    /\ UNCHANGED <<tdState, libState, expired, authErr, phoneCh, codeCh, passwordCh,
                   closed, interVars, reqVars, usedVars, panicked>>

\* A TDLib call of Handle: with time left it may answer with one of the
\* states of next; it may fail, and past the deadline it always does.  The
\* loop keeps the error and closes the client.
Call(next) ==
    /\ libPc' = "ask"
    /\ \/ ~expired /\ tdState' \in next /\ UNCHANGED authErr
       \/ tdState' = "Closing" /\ authErr' = TRUE
    /\ UNCHANGED <<libState, expired, stateCh, closed, interVars, reqVars, panicked>>

\* Mutant: the wait for the phone gives up at the deadline.
HandlePhoneOrDeadline ==
    /\ libPc = "handle" /\ libState = "WaitPhoneNumber"
    /\ \/ phoneCh # Nil /\ phoneCh' = Nil
       \/ expired /\ UNCHANGED phoneCh
    /\ Call({"WaitCode"} \union Panicking)
    /\ UNCHANGED <<codeCh, passwordCh, usedVars>>

\* Mutant: the wait for the code gives up at the deadline.
HandleCodeOrDeadline ==
    /\ libPc = "handle" /\ libState = "WaitCode"
    /\ \/ codeCh # Nil /\ codeCh' = Nil /\ usedCode' = codeCh
       \/ expired /\ UNCHANGED <<codeCh, usedCode>>
    /\ Call({"WaitPassword", "WaitRegistration", "Ready"})
    /\ UNCHANGED <<phoneCh, passwordCh, usedPassword>>

HandleParameters ==
    /\ libPc = "handle" /\ libState = "WaitTdlibParameters"
    /\ Call({"WaitPhoneNumber", "WaitCode", "WaitPassword", "Ready", "LoggingOut"})
    /\ UNCHANGED <<phoneCh, codeCh, passwordCh, usedVars>>

\* <-c.PhoneNumber, then SetAuthenticationPhoneNumber.
HandlePhone ==
    /\ libPc = "handle" /\ libState = "WaitPhoneNumber" /\ phoneCh # Nil
    /\ phoneCh' = Nil
    /\ Call({"WaitCode"} \union Panicking)
    /\ UNCHANGED <<codeCh, passwordCh, usedVars>>

\* <-c.Code, then CheckAuthenticationCode.
HandleCode ==
    /\ libPc = "handle" /\ libState = "WaitCode" /\ codeCh # Nil
    /\ codeCh' = Nil /\ usedCode' = codeCh
    /\ Call({"WaitPassword", "WaitRegistration", "Ready"})
    /\ UNCHANGED <<phoneCh, passwordCh, usedPassword>>

\* <-c.Password, then CheckAuthenticationPassword.
HandlePassword ==
    /\ libPc = "handle" /\ libState = "WaitPassword" /\ passwordCh # Nil
    /\ passwordCh' = Nil /\ usedPassword' = passwordCh
    /\ Call({"Ready"})
    /\ UNCHANGED <<phoneCh, codeCh, usedCode>>

\* NotSupportedAuthorizationState: an error, the client is closed.
HandleUnsupported ==
    /\ libPc = "handle" /\ libState \in Unsupported
    /\ libPc' = "ask" /\ tdState' = "Closing" /\ authErr' = TRUE
    /\ UNCHANGED <<libState, expired, chVars, interVars, reqVars, usedVars, panicked>>

\* The two email states and the other-device state panic.
HandlePanic ==
    /\ libPc = "handle" /\ libState \in Panicking
    /\ panicked' = TRUE
    /\ UNCHANGED <<libVars, chVars, interVars, reqVars, usedVars>>

\* Closing is not an error: the loop asks again until TDLib has closed.
HandleClosing ==
    /\ libPc = "handle" /\ libState = "Closing"
    /\ libPc' = "ask"
    /\ UNCHANGED <<tdState, libState, expired, authErr, chVars, interVars, reqVars,
                   usedVars, panicked>>

\* The loop's deferred Close closes the four channels; NewClient returns.
LibReturn ==
    /\ libPc = "return"
    /\ closed' = TRUE /\ libPc' = "done"
    /\ UNCHANGED <<tdState, libState, expired, authErr, stateCh, phoneCh, codeCh,
                   passwordCh, interVars, reqVars, usedVars, panicked>>

Lib == \/ LibAsk \/ HandlePush \/ HandleParameters \/ HandlePhone \/ HandleCode
       \/ HandlePassword \/ HandleUnsupported \/ HandlePanic \/ HandleClosing
       \/ LibReturn

\* TDLib finishes closing.
TdClose ==
    /\ tdState = "Closing" /\ tdState' = "Closed"
    /\ UNCHANGED <<libPc, libState, expired, authErr, chVars, interVars, reqVars,
                   usedVars, panicked>>

\* The deadline passes while Handle runs, its wait for the operator included.
Deadline ==
    /\ libPc \in {"push", "handle"} /\ ~expired /\ expired' = TRUE
    /\ UNCHANGED <<tdState, libPc, libState, authErr, chVars, interVars, reqVars,
                   usedVars, panicked>>

-------------------------------------------------------------------------------
(* ChanInteractor.                                                           *)

\* Mutant: the password is taken for sent once the code was.
AfterRecvOneFlag(s) ==
    CASE s = "WaitPhoneNumber" /\ ~phoneSet    -> "sendPhone"
      [] s = "WaitCode" /\ ~codeSet            -> "waitCode"
      [] s = "WaitPassword" /\ ~codeSet        -> "waitPassword"
      [] OTHER                                 -> "recv"

\* Where ChanInteractor goes with a state it received: a value that was
\* already sent once is not sent again.
AfterRecv(s) ==
    CASE s = "WaitPhoneNumber" /\ ~phoneSet    -> "sendPhone"
      [] s = "WaitCode" /\ ~codeSet            -> "waitCode"
      [] s = "WaitPassword" /\ ~passwordSet    -> "waitPassword"
      [] OTHER                                 -> "recv"

InterRecv ==
    /\ interPc = "recv" /\ stateCh # <<>>
    /\ stateCh' = Tail(stateCh)
    /\ shown' = Head(stateCh)
    /\ interPc' = AfterRecv(Head(stateCh))
    /\ UNCHANGED <<libVars, phoneCh, codeCh, passwordCh, closed, param, phoneSet,
                   codeSet, passwordSet, reqVars, usedVars, panicked>>

\* The closed State channel ends it; the deferred function resets the page's
\* state and the flags.
InterReturn ==
    /\ interPc = "recv" /\ stateCh = <<>> /\ closed
    /\ interPc' = "gone" /\ shown' = Nil
    /\ phoneSet' = FALSE /\ codeSet' = FALSE /\ passwordSet' = FALSE
    /\ UNCHANGED <<libVars, chVars, param, reqVars, usedVars, panicked>>

\* A send on a channel of capacity one; on a closed channel it panics.
Send(ch, v) ==
    \/ closed /\ panicked' = TRUE /\ UNCHANGED <<ch, interPc>>
    \/ ~closed /\ ch = Nil /\ ch' = v /\ interPc' = "recv" /\ UNCHANGED panicked

InterSendPhone ==
    /\ interPc = "sendPhone"
    /\ Send(phoneCh, "phone")
    /\ phoneSet' = ~closed
    /\ UNCHANGED <<libVars, stateCh, codeCh, passwordCh, closed, param, codeSet,
                   passwordSet, shown, reqVars, usedVars>>

\* param = <-nextParams: it meets any request blocked on AuthParams.
InterTake(r) ==
    /\ interPc \in {"waitCode", "waitPassword"} /\ reqPc[r] = "send"
    /\ reqPc' = [reqPc EXCEPT ![r] = "returned"]
    /\ param' = form[r]
    /\ IF interPc = "waitCode"
       THEN interPc' = "sendCode" /\ codeSet' = TRUE /\ UNCHANGED passwordSet
       ELSE interPc' = "sendPassword" /\ passwordSet' = TRUE /\ UNCHANGED codeSet
    /\ UNCHANGED <<libVars, chVars, phoneSet, shown, form, usedVars, panicked>>

InterSendCode ==
    /\ interPc = "sendCode"
    /\ Send(codeCh, param)
    /\ UNCHANGED <<libVars, stateCh, phoneCh, passwordCh, closed, param, phoneSet,
                   codeSet, passwordSet, shown, reqVars, usedVars>>

InterSendPassword ==
    /\ interPc = "sendPassword"
    /\ Send(passwordCh, param)
    /\ UNCHANGED <<libVars, stateCh, phoneCh, codeCh, closed, param, phoneSet,
                   codeSet, passwordSet, shown, reqVars, usedVars>>

Inter == \/ InterRecv \/ InterReturn \/ InterSendPhone \/ InterSendCode
         \/ InterSendPassword \/ \E r \in Requests : InterTake(r)

-------------------------------------------------------------------------------
(* The web requests.                                                         *)

\* Mutant: the request trusts its form, not the state the page shows.
SubmitUnchecked(r, f) ==
    /\ reqPc[r] = "idle"
    /\ form' = [form EXCEPT ![r] = f]
    /\ reqPc' = [reqPc EXCEPT ![r] = "send"]
    /\ UNCHANGED <<libVars, chVars, interVars, usedVars, panicked>>

\* A POST of form f: processAddAccount reads the shown state, and sends on
\* AuthParams only if that state asks for f; otherwise it asks for a refresh.
Submit(r, f) ==
    /\ reqPc[r] = "idle"
    /\ form' = [form EXCEPT ![r] = f]
    /\ reqPc' = [reqPc EXCEPT ![r] =
                   IF shown \in DOMAIN FormOf /\ FormOf[shown] = f
                   THEN "send" ELSE "refused"]
    /\ UNCHANGED <<libVars, chVars, interVars, usedVars, panicked>>

Next ==
    /\ ~panicked
    /\ \/ Lib \/ TdClose \/ Deadline \/ Inter
       \/ \E r \in Requests, f \in {"code", "password"} : Submit(r, f)

Spec == Init /\ [][Next]_vars

\* Goroutines that can move do, and TDLib finishes closing.  Neither the
\* operator nor the deadline is fair.
FairSpec ==
    /\ Spec
    /\ WF_vars(~panicked /\ Lib)
    /\ WF_vars(~panicked /\ TdClose)
    /\ WF_vars(~panicked /\ Inter)

-------------------------------------------------------------------------------
(* Properties.                                                               *)

Forms == {"code", "password"}

LibTypes ==
    /\ tdState \in AuthStates
    /\ libPc \in {"ask", "push", "handle", "return", "done"}
    /\ libState \in AuthStates \union {Nil}
    /\ libPc \in {"push", "handle"} => libState \in AuthStates
    /\ expired \in BOOLEAN /\ authErr \in BOOLEAN /\ panicked \in BOOLEAN

ChannelTypes ==
    /\ stateCh \in Seq(AuthStates) /\ Len(stateCh) <= StateCap
    /\ phoneCh \in {"phone", Nil}
    /\ codeCh \in Forms \union {Nil} /\ passwordCh \in Forms \union {Nil}
    /\ closed \in BOOLEAN

InterTypes ==
    /\ interPc \in {"recv", "sendPhone", "waitCode", "sendCode",
                    "waitPassword", "sendPassword", "gone"}
    /\ param \in Forms \union {Nil} /\ shown \in AuthStates \union {Nil}
    /\ phoneSet \in BOOLEAN /\ codeSet \in BOOLEAN /\ passwordSet \in BOOLEAN

RequestTypes ==
    /\ reqPc \in [Requests -> {"idle", "send", "returned", "refused"}]
    /\ form \in [Requests -> Forms \union {Nil}]
    /\ \A r \in Requests : reqPc[r] \in {"send", "returned"} => form[r] \in Forms
    /\ usedCode \in Forms \union {Nil} /\ usedPassword \in Forms \union {Nil}

\* Types, and the capacities of the channels.
TypeOK == LibTypes /\ ChannelTypes /\ InterTypes /\ RequestTypes

\* ChanInteractor never sends on a channel Close() has closed, whatever the
\* deadline and the errors do to the login goroutine: the process would die.
NoSendOnClosed == closed => interPc \notin {"sendPhone", "sendCode", "sendPassword"}

\* What TDLib checks as a code was typed into the code form, however many
\* requests of both forms are blocked on AuthParams.
CodeFromCodeForm == usedCode \in {Nil, "code"}

\* Two requests of the code form passed the page's check.
Resubmitted ==
    \E r1, r2 \in Requests :
        /\ r1 # r2
        /\ \A r \in {r1, r2} : form[r] = "code" /\ reqPc[r] \in {"send", "returned"}

\* A code is checked as a password only after the code form was submitted
\* twice for one login (the page shows the form again until the state moves).
PasswordFromPasswordForm == usedPassword = "code" => Resubmitted

\* Both: no answer is checked as another one than its form asked for, except a code
\* that was submitted twice.
AnswersMatchForms == CodeFromCodeForm /\ PasswordFromPasswordForm

\* A request blocked on AuthParams is released, unless the form it carries
\* was submitted twice: a single submission never leaks a request.
SubmittedTwice ==
    \E r1, r2 \in Requests :
        /\ r1 # r2 /\ form[r1] = form[r2] /\ form[r1] # Nil
        /\ \A r \in {r1, r2} : reqPc[r] \in {"send", "returned"}

SubmissionReturns ==
    \A r \in Requests :
        reqPc[r] = "send" ~> (reqPc[r] = "returned" \/ SubmittedTwice \/ panicked)

\* The operator is asked, and no answer is on its way.
AwaitsOperator ==
    /\ interPc \in {"waitCode", "waitPassword"}
    /\ \A r \in Requests : reqPc[r] # "send"

\* A login ends or waits for the operator: the two goroutines never wait for
\* each other, whichever states TDLib reports and whenever the deadline falls.
LoginEndsOrAsks == []<>(libPc = "done" \/ panicked \/ AwaitsOperator)

\* Once NewClient returns, ChanInteractor ends and the page falls back to its
\* start, even with states still queued.
PageResets == libPc = "done" ~> shown = Nil

\* Whatever TDLib reports and whenever the deadline falls, nobody waits for ever for the
\* other goroutine: not the login, not a submission, not the page.
LoginSettles == SubmissionReturns /\ LoginEndsOrAsks /\ PageResets

-------------------------------------------------------------------------------
(* The login as the web page sees it: one question at a time.                *)

Stage ==
    CASE panicked                          -> "panic"
      [] ~panicked /\ libPc \in {"return", "done"} ->
            (IF authErr THEN "failed" ELSE "ok")
      [] OTHER ->
            (IF passwordSet THEN "checkPassword"
             ELSE IF interPc = "waitPassword" THEN "askPassword"
             ELSE IF codeSet THEN "checkCode"
             ELSE IF interPc = "waitCode" THEN "askCode"
             ELSE "starting")

Session == INSTANCE AuthSession WITH stage <- Stage

\* Both goroutines together keep AuthSession's promise: every question gets
\* one answer, and the login never ends with a question open.
SessionSpec == Session!Spec

==============================================================================

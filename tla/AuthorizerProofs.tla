--------------------------- MODULE AuthorizerProofs ---------------------------
(***************************************************************************)
(* Proofs about Authorizer.  The argument: TDLib asks for the phone, the   *)
(* code and the password at most once each, and Handle does not return     *)
(* from a question before ChanInteractor has answered it.  So a question   *)
(* in the State channel is its last element, and whenever ChanInteractor   *)
(* holds a question the login goroutine is blocked on the answer.          *)
(***************************************************************************)
EXTENDS Authorizer, TLAPS

Waits == {"WaitPhoneNumber", "WaitCode", "WaitPassword"}

\* The login goroutine is inside Handle(s).
Handling(s) == libPc = "handle" /\ libState = s

\* ChanInteractor holds the question s.
Holds(s) ==
    \/ s = "WaitPhoneNumber" /\ interPc = "sendPhone"
    \/ s = "WaitCode" /\ interPc \in {"waitCode", "sendCode"}
    \/ s = "WaitPassword" /\ interPc \in {"waitPassword", "sendPassword"}

\* The answer to the question s is in its channel.
Answered(s) ==
    \/ s = "WaitPhoneNumber" /\ phoneCh # Nil
    \/ s = "WaitCode" /\ codeCh # Nil
    \/ s = "WaitPassword" /\ passwordCh # Nil

\* While Handle runs, TDLib's state is the one it was called with.
LibInv ==
    /\ libPc \in {"push", "handle"} =>
         tdState = libState \/ (libState = "Closing" /\ tdState = "Closed")
    /\ closed => libPc = "done"

\* A question that is queued, held or answered is the one Handle waits in,
\* and it is in one of the three places.
QueueInv ==
    \A i \in 1 .. Len(stateCh) : stateCh[i] \in Waits =>
        /\ i = Len(stateCh) /\ Handling(stateCh[i])
        /\ ~Holds(stateCh[i]) /\ ~Answered(stateCh[i])

HoldInv == \A s \in Waits : Holds(s) => Handling(s) /\ ~Answered(s)

AnswerInv == \A s \in Waits : Answered(s) => Handling(s)

\* TDLib is past the code, and a form that was shown stays behind it.
PastCode == tdState \notin {"WaitTdlibParameters", "WaitPhoneNumber", "WaitCode"}

Sending(f) == \E r \in Requests : reqPc[r] = "send" /\ form[r] = f

FormInv ==
    /\ shown = "WaitPassword" \/ Sending("password") => PastCode
    /\ shown = "WaitCode" \/ Sending("code") => tdState = "WaitCode" \/ usedCode # Nil
    /\ interPc = "sendCode" => param = "code"
    /\ codeCh # Nil => codeCh = "code"

\* A code that left its request left a request that returned.
CodeTaken ==
    interPc = "sendCode" \/ codeCh # Nil \/ usedCode # Nil =>
        \E r \in Requests : reqPc[r] = "returned" /\ form[r] = "code"

\* A code on its way to the password check was the second one.
PasswordInv ==
    \/ interPc = "sendPassword" /\ param = "code"
    \/ passwordCh = "code"
    \/ usedPassword = "code"
    => Resubmitted

\* The flags follow TDLib's state.
FlagInv ==
    /\ tdState \in {"WaitTdlibParameters", "WaitPhoneNumber"} \union Panicking =>
         ~codeSet /\ ~passwordSet
    /\ tdState = "WaitCode" => ~passwordSet

IInv ==
    /\ TypeOK /\ LibInv /\ QueueInv /\ HoldInv /\ AnswerInv
    /\ FormInv /\ CodeTaken /\ PasswordInv /\ FlagInv /\ CodeFromCodeForm

-------------------------------------------------------------------------------

\* Each part of TypeOK is kept by every step: the actions that touch it, and
\* the rest, which leave its variables alone.
LEMMA LibTypesStep == LibTypes /\ [Next]_vars => LibTypes'
<1> SUFFICES ASSUME LibTypes, [Next]_vars PROVE LibTypes'
  OBVIOUS
<1> USE StateCapAssumption DEF LibTypes, libVars, chVars, interVars, reqVars,
        usedVars
<1>1. CASE LibAsk
  BY <1>1 DEF LibAsk
<1>2. CASE HandlePush
  BY <1>2 DEF HandlePush
<1>3. CASE HandleParameters
  BY <1>3 DEF HandleParameters, Call, AuthStates, Unsupported, Panicking
<1>4. CASE HandlePhone
  BY <1>4 DEF HandlePhone, Call, AuthStates, Unsupported, Panicking
<1>5. CASE HandleCode
  BY <1>5 DEF HandleCode, Call, AuthStates, Unsupported, Panicking
<1>6. CASE HandlePassword
  BY <1>6 DEF HandlePassword, Call, AuthStates, Unsupported, Panicking
<1>7. CASE HandleUnsupported
  BY <1>7 DEF HandleUnsupported, AuthStates
<1>8. CASE HandlePanic
  BY <1>8 DEF HandlePanic
<1>9. CASE HandleClosing
  BY <1>9 DEF HandleClosing
<1>10. CASE LibReturn
  BY <1>10 DEF LibReturn
<1>11. CASE TdClose
  BY <1>11 DEF TdClose, AuthStates
<1>12. CASE Deadline
  BY <1>12 DEF Deadline
<1>13. CASE InterSendPhone
  BY <1>13 DEF InterSendPhone, Send
<1>14. CASE InterSendCode
  BY <1>14 DEF InterSendCode, Send
<1>15. CASE InterSendPassword
  BY <1>15 DEF InterSendPassword, Send
<1>16. CASE UNCHANGED <<libVars, panicked>>
  BY <1>16
<1> QED
  BY <1>1, <1>2, <1>3, <1>4, <1>5, <1>6, <1>7, <1>8, <1>9, <1>10, <1>11, <1>12,
     <1>13, <1>14, <1>15, <1>16 DEF Next, Lib, Inter, vars, InterRecv, InterReturn,
     InterTake, Submit, Call

LEMMA ChannelTypesStep ==
  LibTypes /\ ChannelTypes /\ InterTypes /\ [Next]_vars => ChannelTypes'
<1> SUFFICES ASSUME LibTypes, ChannelTypes, InterTypes, [Next]_vars PROVE
        ChannelTypes'
  OBVIOUS
<1> USE StateCapAssumption DEF LibTypes, ChannelTypes, InterTypes, libVars, chVars,
        interVars, reqVars, usedVars
<1>1. CASE HandlePush
  BY <1>1 DEF HandlePush
<1>2. CASE HandlePhone
  BY <1>2 DEF HandlePhone, Call
<1>3. CASE HandleCode
  BY <1>3 DEF HandleCode, Call
<1>4. CASE HandlePassword
  BY <1>4 DEF HandlePassword, Call
<1>5. CASE LibReturn
  BY <1>5 DEF LibReturn
<1>6. CASE InterRecv
  BY <1>6 DEF InterRecv
<1>7. CASE InterSendPhone
  BY <1>7 DEF InterSendPhone, Send
<1>8. CASE InterSendCode
  BY <1>8 DEF InterSendCode, Send
<1>9. CASE InterSendPassword
  BY <1>9 DEF InterSendPassword, Send
<1>10. CASE UNCHANGED <<chVars>>
  BY <1>10
<1> QED
  BY <1>1, <1>2, <1>3, <1>4, <1>5, <1>6, <1>7, <1>8, <1>9, <1>10 DEF Next, Lib,
     Inter, vars, LibAsk, HandleParameters, HandleUnsupported, HandlePanic,
     HandleClosing, TdClose, Deadline, InterReturn, InterTake, Submit, Call

LEMMA InterTypesStep ==
  ChannelTypes /\ InterTypes /\ RequestTypes /\ [Next]_vars => InterTypes'
<1> SUFFICES ASSUME ChannelTypes, InterTypes, RequestTypes, [Next]_vars PROVE
        InterTypes'
  OBVIOUS
<1> USE StateCapAssumption DEF ChannelTypes, InterTypes, RequestTypes, libVars,
        chVars, interVars, reqVars, usedVars
<1>1. CASE InterRecv
  BY <1>1 DEF InterRecv, AfterRecv
<1>2. CASE InterReturn
  BY <1>2 DEF InterReturn
<1>3. CASE InterSendPhone
  BY <1>3 DEF InterSendPhone, Send
<1>4. CASE InterSendCode
  BY <1>4 DEF InterSendCode, Send
<1>5. CASE InterSendPassword
  BY <1>5 DEF InterSendPassword, Send
<1>6. ASSUME NEW r \in Requests, InterTake(r) PROVE InterTypes'
  BY <1>6 DEF InterTake
<1>7. CASE UNCHANGED <<interVars>>
  BY <1>7
<1> QED
  BY <1>1, <1>2, <1>3, <1>4, <1>5, <1>6, <1>7 DEF Next, Lib, Inter, vars, LibAsk,
     HandlePush, HandleParameters, HandlePhone, HandleCode, HandlePassword,
     HandleUnsupported, HandlePanic, HandleClosing, LibReturn, TdClose, Deadline,
     Submit, Call

LEMMA RequestTypesStep ==
  ChannelTypes /\ RequestTypes /\ [Next]_vars => RequestTypes'
<1> SUFFICES ASSUME ChannelTypes, RequestTypes, [Next]_vars PROVE RequestTypes'
  OBVIOUS
<1> USE StateCapAssumption DEF ChannelTypes, RequestTypes, libVars, chVars,
        interVars, reqVars, usedVars
<1>1. CASE HandleCode
  BY <1>1 DEF HandleCode, Call
<1>2. CASE HandlePassword
  BY <1>2 DEF HandlePassword, Call
<1>3. ASSUME NEW r \in Requests, InterTake(r) PROVE RequestTypes'
  BY <1>3 DEF InterTake
<1>4. ASSUME NEW r \in Requests, NEW f \in {"code", "password"}, Submit(r, f) PROVE
        RequestTypes'
  BY <1>4 DEF Submit, Forms
<1>5. CASE UNCHANGED <<reqVars, usedVars>>
  BY <1>5
<1> QED
  BY <1>1, <1>2, <1>3, <1>4, <1>5 DEF Next, Lib, Inter, vars, LibAsk, HandlePush,
     HandleParameters, HandlePhone, HandleUnsupported, HandlePanic, HandleClosing,
     LibReturn, TdClose, Deadline, InterRecv, InterReturn, InterSendPhone,
     InterSendCode, InterSendPassword, Call

\* TDLib's state moves only when a call of Handle returns, or from Closing.
LEMMA LibInvStep == LibTypes /\ LibInv /\ [Next]_vars => LibInv'
<1> SUFFICES ASSUME LibTypes, LibInv, [Next]_vars PROVE LibInv'
  OBVIOUS
<1> USE NilAssumption DEF TypeOK, LibTypes, LibInv, libVars, chVars, interVars,
        reqVars, usedVars
<1>1. CASE LibAsk
  BY <1>1 DEF LibAsk
<1>2. CASE HandlePush
  BY <1>2 DEF HandlePush
<1>3. CASE HandleParameters
  BY <1>3 DEF HandleParameters, Call
<1>4. CASE HandlePhone
  BY <1>4 DEF HandlePhone, Call
<1>5. CASE HandleCode
  BY <1>5 DEF HandleCode, Call
<1>6. CASE HandlePassword
  BY <1>6 DEF HandlePassword, Call
<1>7. CASE HandleUnsupported
  BY <1>7 DEF HandleUnsupported, Unsupported
<1>8. CASE HandleClosing
  BY <1>8 DEF HandleClosing
<1>9. CASE LibReturn
  BY <1>9 DEF LibReturn
<1>10. CASE TdClose
  BY <1>10 DEF TdClose
<1>11. CASE UNCHANGED <<tdState, libPc, libState, closed>>
  BY <1>11
<1> QED
  BY <1>1, <1>2, <1>3, <1>4, <1>5, <1>6, <1>7, <1>8, <1>9, <1>10, <1>11 DEF Next,
     Lib, Inter, vars, HandlePanic, Deadline, InterRecv, InterReturn,
     InterSendPhone, InterSendCode, InterSendPassword, InterTake, Submit, Call, Send

\* A question enters the queue as its last element while no answer is under
\* way, and leaves it for ChanInteractor.
LEMMA QueueInvStep ==
  TypeOK /\ LibInv /\ QueueInv /\ HoldInv /\ AnswerInv /\ [Next]_vars =>
  QueueInv'
<1> SUFFICES ASSUME TypeOK, LibInv, QueueInv, HoldInv, AnswerInv, [Next]_vars PROVE
        QueueInv'
  OBVIOUS
<1> USE NilAssumption DEF TypeOK, ChannelTypes, LibTypes, QueueInv, HoldInv,
        AnswerInv, Holds, Answered, Handling, Waits, libVars, chVars, interVars,
        reqVars, usedVars
<1>1. CASE LibAsk
  BY <1>1 DEF LibAsk
<1>2. CASE HandlePush
  BY <1>2 DEF HandlePush
<1>3. CASE HandleParameters
  BY <1>3 DEF HandleParameters, Call
<1>4. CASE HandlePhone
  BY <1>4 DEF HandlePhone, Call
<1>5. CASE HandleCode
  BY <1>5 DEF HandleCode, Call
<1>6. CASE HandlePassword
  BY <1>6 DEF HandlePassword, Call
<1>7. CASE HandleUnsupported
  BY <1>7 DEF HandleUnsupported, Unsupported
<1>8. CASE HandleClosing
  BY <1>8 DEF HandleClosing
<1>9. CASE LibReturn
  BY <1>9 DEF LibReturn
<1>10. CASE InterRecv
  BY <1>10 DEF InterRecv, AfterRecv
<1>11. CASE InterReturn
  BY <1>11 DEF InterReturn
<1>12. CASE InterSendPhone
  BY <1>12 DEF InterSendPhone, Send
<1>13. CASE InterSendCode
  BY <1>13 DEF InterSendCode, Send
<1>14. CASE InterSendPassword
  BY <1>14 DEF InterSendPassword, Send
<1>15. ASSUME NEW r \in Requests, InterTake(r) PROVE QueueInv'
  BY <1>15 DEF InterTake
<1>16. CASE UNCHANGED <<stateCh, libPc, libState, interPc, phoneCh, codeCh,
        passwordCh>>
  BY <1>16
<1> QED
  BY <1>1, <1>2, <1>3, <1>4, <1>5, <1>6, <1>7, <1>8, <1>9, <1>10, <1>11, <1>12,
     <1>13, <1>14, <1>15, <1>16 DEF Next, Lib, Inter, vars, HandlePanic, TdClose,
     Deadline, Submit, Call, Send

\* ChanInteractor takes a question while Handle waits for its answer.
LEMMA HoldInvStep ==
  TypeOK /\ QueueInv /\ HoldInv /\ AnswerInv /\ [Next]_vars => HoldInv'
<1> SUFFICES ASSUME TypeOK, QueueInv, HoldInv, AnswerInv, [Next]_vars PROVE HoldInv'
  OBVIOUS
<1> USE NilAssumption DEF TypeOK, ChannelTypes, LibTypes, QueueInv, HoldInv,
        AnswerInv, Holds, Answered, Handling, Waits, libVars, chVars, interVars,
        reqVars, usedVars
<1>1. CASE LibAsk
  BY <1>1 DEF LibAsk
<1>2. CASE HandlePush
  BY <1>2 DEF HandlePush
<1>3. CASE HandleParameters
  BY <1>3 DEF HandleParameters, Call
<1>4. CASE HandlePhone
  BY <1>4 DEF HandlePhone, Call
<1>5. CASE HandleCode
  BY <1>5 DEF HandleCode, Call
<1>6. CASE HandlePassword
  BY <1>6 DEF HandlePassword, Call
<1>7. CASE HandleUnsupported
  BY <1>7 DEF HandleUnsupported, Unsupported
<1>8. CASE HandleClosing
  BY <1>8 DEF HandleClosing
<1>9. CASE LibReturn
  BY <1>9 DEF LibReturn
<1>10. CASE InterRecv
  BY <1>10 DEF InterRecv, AfterRecv
<1>11. CASE InterReturn
  BY <1>11 DEF InterReturn
<1>12. CASE InterSendPhone
  BY <1>12 DEF InterSendPhone, Send
<1>13. CASE InterSendCode
  BY <1>13 DEF InterSendCode, Send
<1>14. CASE InterSendPassword
  BY <1>14 DEF InterSendPassword, Send
<1>15. ASSUME NEW r \in Requests, InterTake(r) PROVE HoldInv'
  BY <1>15 DEF InterTake
<1>16. CASE UNCHANGED <<libPc, libState, interPc, phoneCh, codeCh, passwordCh>>
  BY <1>16
<1> QED
  BY <1>1, <1>2, <1>3, <1>4, <1>5, <1>6, <1>7, <1>8, <1>9, <1>10, <1>11, <1>12,
     <1>13, <1>14, <1>15, <1>16 DEF Next, Lib, Inter, vars, HandlePanic, TdClose,
     Deadline, Submit, Call, Send

\* An answer is sent and received inside one run of Handle.
LEMMA AnswerInvStep == TypeOK /\ HoldInv /\ AnswerInv /\ [Next]_vars => AnswerInv'
<1> SUFFICES ASSUME TypeOK, HoldInv, AnswerInv, [Next]_vars PROVE AnswerInv'
  OBVIOUS
<1> USE NilAssumption DEF TypeOK, ChannelTypes, LibTypes, HoldInv, AnswerInv, Holds,
        Answered, Handling, Waits, libVars, chVars, interVars, reqVars, usedVars
<1>1. CASE LibAsk
  BY <1>1 DEF LibAsk
<1>2. CASE HandlePush
  BY <1>2 DEF HandlePush
<1>3. CASE HandleParameters
  BY <1>3 DEF HandleParameters, Call
<1>4. CASE HandlePhone
  BY <1>4 DEF HandlePhone, Call
<1>5. CASE HandleCode
  BY <1>5 DEF HandleCode, Call
<1>6. CASE HandlePassword
  BY <1>6 DEF HandlePassword, Call
<1>7. CASE HandleUnsupported
  BY <1>7 DEF HandleUnsupported, Unsupported
<1>8. CASE HandleClosing
  BY <1>8 DEF HandleClosing
<1>9. CASE LibReturn
  BY <1>9 DEF LibReturn
<1>10. CASE InterSendPhone
  BY <1>10 DEF InterSendPhone, Send
<1>11. CASE InterSendCode
  BY <1>11 DEF InterSendCode, Send
<1>12. CASE InterSendPassword
  BY <1>12 DEF InterSendPassword, Send
<1>13. CASE UNCHANGED <<libPc, libState, phoneCh, codeCh, passwordCh>>
  BY <1>13
<1> QED
  BY <1>1, <1>2, <1>3, <1>4, <1>5, <1>6, <1>7, <1>8, <1>9, <1>10, <1>11, <1>12,
     <1>13 DEF Next, Lib, Inter, vars, HandlePanic, TdClose, Deadline, InterRecv,
     InterReturn, InterTake, Submit, Call, Send

\* A form is sent only while its state is shown; the password comes last.
LEMMA FormInvStep ==
  TypeOK /\ LibInv /\ QueueInv /\ HoldInv /\ AnswerInv /\ FormInv /\ [Next]_vars
  => FormInv'
<1> SUFFICES ASSUME TypeOK, LibInv, QueueInv, HoldInv, AnswerInv, FormInv,
        [Next]_vars PROVE FormInv'
  OBVIOUS
<1> USE NilAssumption DEF TypeOK, ChannelTypes, InterTypes, RequestTypes, Forms,
        LibInv, QueueInv, HoldInv, AnswerInv, Holds, Answered, Handling, Waits,
        FormInv, PastCode, Sending, FormOf, libVars, chVars, interVars, reqVars,
        usedVars
<1>1. CASE HandleParameters
  BY <1>1 DEF HandleParameters, Call
<1>2. CASE HandlePhone
  BY <1>2 DEF HandlePhone, Call
<1>3. CASE HandleCode
  BY <1>3 DEF HandleCode, Call
<1>4. CASE HandlePassword
  BY <1>4 DEF HandlePassword, Call
<1>5. CASE HandleUnsupported
  BY <1>5 DEF HandleUnsupported, Unsupported
<1>6. CASE TdClose
  BY <1>6 DEF TdClose
<1>7. CASE InterRecv
  BY <1>7 DEF InterRecv, AfterRecv
<1>8. CASE InterReturn
  BY <1>8 DEF InterReturn, AuthStates
<1>9. CASE InterSendPhone
  BY <1>9 DEF InterSendPhone, Send
<1>10. CASE InterSendCode
  BY <1>10 DEF InterSendCode, Send
<1>11. CASE InterSendPassword
  BY <1>11 DEF InterSendPassword, Send
<1>12. ASSUME NEW r \in Requests, InterTake(r) PROVE FormInv'
  BY <1>12 DEF InterTake
<1>13. ASSUME NEW r \in Requests, NEW f \in {"code", "password"}, Submit(r, f) PROVE
        FormInv'
  BY <1>13 DEF Submit
<1>14. CASE UNCHANGED <<tdState, shown, reqPc, form, interPc, param, codeCh,
        usedCode>>
  BY <1>14
<1> QED
  BY <1>1, <1>2, <1>3, <1>4, <1>5, <1>6, <1>7, <1>8, <1>9, <1>10, <1>11, <1>12,
     <1>13, <1>14 DEF Next, Lib, Inter, vars, LibAsk, HandlePush, HandlePanic,
     HandleClosing, LibReturn, Deadline, Call, Send

\* ChanInteractor takes a code from a request, which then returned.
LEMMA CodeTakenStep ==
  TypeOK /\ HoldInv /\ FormInv /\ CodeTaken /\ LibInv /\ [Next]_vars =>
  CodeTaken'
<1> SUFFICES ASSUME TypeOK, HoldInv, FormInv, CodeTaken, LibInv, [Next]_vars PROVE
        CodeTaken'
  OBVIOUS
<1> USE NilAssumption DEF TypeOK, RequestTypes, InterTypes, Forms, HoldInv, Holds,
        Handling, Waits, FormInv, LibInv, PastCode, Sending, CodeTaken, libVars,
        chVars, interVars, reqVars, usedVars
<1>1. CASE HandleCode
  BY <1>1 DEF HandleCode, Call
<1>2. CASE InterRecv
  BY <1>2 DEF InterRecv, AfterRecv
<1>3. CASE InterReturn
  BY <1>3 DEF InterReturn
<1>4. CASE InterSendPhone
  BY <1>4 DEF InterSendPhone, Send
<1>5. CASE InterSendCode
  BY <1>5 DEF InterSendCode, Send
<1>6. CASE InterSendPassword
  BY <1>6 DEF InterSendPassword, Send
<1>7. ASSUME NEW r \in Requests, InterTake(r) PROVE CodeTaken'
  BY <1>7 DEF InterTake
<1>8. ASSUME NEW r \in Requests, NEW f \in {"code", "password"}, Submit(r, f) PROVE
        CodeTaken'
  BY <1>8 DEF Submit
<1>9. CASE UNCHANGED <<interPc, codeCh, usedCode, reqPc, form>>
  BY <1>9
<1> QED
  BY <1>1, <1>2, <1>3, <1>4, <1>5, <1>6, <1>7, <1>8, <1>9 DEF Next, Lib, Inter,
     vars, LibAsk, HandlePush, HandleParameters, HandlePhone, HandlePassword,
     HandleUnsupported, HandlePanic, HandleClosing, LibReturn, TdClose, Deadline,
     Call, Send

\* A code taken as the password is not the request the first code came from.
LEMMA PasswordInvStep ==
  TypeOK /\ LibInv /\ HoldInv /\ FormInv /\ CodeTaken /\ PasswordInv /\
  [Next]_vars => PasswordInv'
<1> SUFFICES ASSUME TypeOK, LibInv, HoldInv, FormInv, CodeTaken, PasswordInv,
        [Next]_vars PROVE PasswordInv'
  OBVIOUS
<1> USE NilAssumption DEF TypeOK, RequestTypes, Forms, LibInv, HoldInv, Holds,
        Handling, Waits, FormInv, Sending, CodeTaken, PasswordInv, Resubmitted,
        libVars, chVars, interVars, reqVars, usedVars
<1>1. CASE HandlePassword
  BY <1>1 DEF HandlePassword, Call
<1>2. CASE InterRecv
  BY <1>2 DEF InterRecv, AfterRecv
<1>3. CASE InterReturn
  BY <1>3 DEF InterReturn
<1>4. CASE InterSendPhone
  BY <1>4 DEF InterSendPhone, Send
<1>5. CASE InterSendCode
  BY <1>5 DEF InterSendCode, Send
<1>6. CASE InterSendPassword
  BY <1>6 DEF InterSendPassword, Send
<1>7. ASSUME NEW r \in Requests, InterTake(r) PROVE PasswordInv'
  BY <1>7 DEF InterTake
<1>8. ASSUME NEW r \in Requests, NEW f \in {"code", "password"}, Submit(r, f) PROVE
        PasswordInv'
  BY <1>8 DEF Submit
<1>9. CASE UNCHANGED <<interPc, param, passwordCh, usedPassword, reqPc, form>>
  BY <1>9
<1> QED
  BY <1>1, <1>2, <1>3, <1>4, <1>5, <1>6, <1>7, <1>8, <1>9 DEF Next, Lib, Inter,
     vars, LibAsk, HandlePush, HandleParameters, HandlePhone, HandleCode,
     HandleUnsupported, HandlePanic, HandleClosing, LibReturn, TdClose, Deadline,
     Call, Send

\* codeSet and passwordSet are set after TDLib asked, never before.
LEMMA FlagInvStep ==
  TypeOK /\ LibInv /\ HoldInv /\ FlagInv /\ [Next]_vars => FlagInv'
<1> SUFFICES ASSUME TypeOK, LibInv, HoldInv, FlagInv, [Next]_vars PROVE FlagInv'
  OBVIOUS
<1> USE NilAssumption DEF TypeOK, LibInv, HoldInv, Holds, Handling, Waits, FlagInv,
        Panicking, libVars, chVars, interVars, reqVars, usedVars
<1>1. CASE HandleParameters
  BY <1>1 DEF HandleParameters, Call
<1>2. CASE HandlePhone
  BY <1>2 DEF HandlePhone, Call
<1>3. CASE HandleCode
  BY <1>3 DEF HandleCode, Call
<1>4. CASE HandlePassword
  BY <1>4 DEF HandlePassword, Call
<1>5. CASE HandleUnsupported
  BY <1>5 DEF HandleUnsupported, Unsupported
<1>6. CASE TdClose
  BY <1>6 DEF TdClose
<1>7. CASE InterReturn
  BY <1>7 DEF InterReturn
<1>8. ASSUME NEW r \in Requests, InterTake(r) PROVE FlagInv'
  BY <1>8 DEF InterTake
<1>9. CASE UNCHANGED <<tdState, codeSet, passwordSet>>
  BY <1>9
<1> QED
  BY <1>1, <1>2, <1>3, <1>4, <1>5, <1>6, <1>7, <1>8, <1>9 DEF Next, Lib, Inter,
     vars, LibAsk, HandlePush, HandlePanic, HandleClosing, LibReturn, Deadline,
     InterRecv, InterSendPhone, InterSendCode, InterSendPassword, Submit, Call, Send

\* The code channel only ever holds a value of the code form.
LEMMA CodeFromCodeFormStep ==
  FormInv /\ CodeFromCodeForm /\ [Next]_vars => CodeFromCodeForm'
<1> SUFFICES ASSUME FormInv, CodeFromCodeForm, [Next]_vars PROVE CodeFromCodeForm'
  OBVIOUS
<1> USE NilAssumption DEF TypeOK, FormInv, CodeFromCodeForm, libVars, chVars,
        interVars, reqVars, usedVars
<1>1. CASE HandleCode
  BY <1>1 DEF HandleCode, Call
<1>2. CASE UNCHANGED <<usedCode>>
  BY <1>2
<1> QED
  BY <1>1, <1>2 DEF Next, Lib, Inter, vars, LibAsk, HandlePush, HandleParameters,
     HandlePhone, HandlePassword, HandleUnsupported, HandlePanic, HandleClosing,
     LibReturn, TdClose, Deadline, InterRecv, InterReturn, InterSendPhone,
     InterSendCode, InterSendPassword, InterTake, Submit, Call, Send

-------------------------------------------------------------------------------

\* The inductive invariant holds of the specification.
THEOREM Invariance == Spec => []IInv
<1>1. Init => IInv
  <2> SUFFICES ASSUME Init PROVE IInv
    OBVIOUS
  <2> USE NilAssumption, StateCapAssumption DEF Init
  <2>1. LibTypes
    BY DEF LibTypes, AuthStates
  <2>2. ChannelTypes
    <3>1. stateCh \in Seq(AuthStates) /\ Len(stateCh) <= StateCap
      OBVIOUS
    <3> QED
      BY <3>1, Zenon DEF ChannelTypes
  <2>3. InterTypes
    BY DEF InterTypes
  <2>4. RequestTypes
    BY DEF RequestTypes
  <2>5. LibInv /\ QueueInv /\ HoldInv /\ AnswerInv
    BY DEF LibInv, QueueInv, HoldInv, AnswerInv, Holds, Answered
  <2>6. FormInv /\ CodeTaken /\ PasswordInv
    BY DEF FormInv, CodeTaken, PasswordInv, Sending, AuthStates
  <2>7. FlagInv /\ CodeFromCodeForm
    BY DEF FlagInv, CodeFromCodeForm
  <2> QED
    BY <2>1, <2>2, <2>3, <2>4, <2>5, <2>6, <2>7 DEF IInv, TypeOK
<1>2. IInv /\ [Next]_vars => IInv'
  BY LibTypesStep, ChannelTypesStep, InterTypesStep, RequestTypesStep, LibInvStep, QueueInvStep,
     HoldInvStep, AnswerInvStep, FormInvStep, CodeTakenStep, PasswordInvStep,
     FlagInvStep, CodeFromCodeFormStep DEF IInv, TypeOK
<1> QED
  BY <1>1, <1>2, PTL DEF Spec

\* Types are kept, the capacities of the channels included, for every number
\* of requests and every capacity of the State channel.
THEOREM TypeCorrect == Spec => []TypeOK
<1>1. IInv => TypeOK
  BY DEF IInv
<1> QED
  BY <1>1, Invariance, PTL

\* ChanInteractor never panics on a closed channel: when it is about to send,
\* Handle is waiting for the value, so the Authorize loop cannot have closed.
THEOREM SendsAreSafe == Spec => []NoSendOnClosed
<1>1. IInv => NoSendOnClosed
  BY DEF IInv, NoSendOnClosed, LibInv, HoldInv, Holds, Handling, Waits
<1> QED
  BY <1>1, Invariance, PTL

\* Whatever the operator posts and however often, what TDLib checks as a code was typed
\* into the code form, and a code is checked as the password only after two posts of it.
THEOREM AnswersAreOfTheirForms == Spec => []AnswersMatchForms
<1>1. IInv => AnswersMatchForms
  BY DEF IInv, PasswordInv, AnswersMatchForms, PasswordFromPasswordForm
<1> QED
  BY <1>1, Invariance, PTL

-------------------------------------------------------------------------------

\* A step of the login moves its stage along LoginStages.Moves, or not at all.
LEMMA StageStep == IInv /\ [Next]_vars => [Session!Next]_Stage
<1> SUFFICES ASSUME IInv, ~panicked, Next PROVE Stage' \in Session!Moves[Stage] \/
        Stage' = Stage
  BY DEF Session!Next, Session!Moves, Stage, vars, libVars, interVars, Next
<1> USE DEF IInv, TypeOK, LibTypes, InterTypes, ChannelTypes, LibInv, HoldInv,
        FlagInv, Holds, Handling, Waits, Stage, Session!Moves, libVars, chVars,
        interVars, reqVars, usedVars
<1>1. CASE LibAsk
  BY <1>1 DEF LibAsk
<1>2. CASE HandlePush
  BY <1>2 DEF HandlePush
<1>3. CASE HandleParameters
  BY <1>3 DEF HandleParameters, Call
<1>4. CASE HandlePhone
  BY <1>4 DEF HandlePhone, Call
<1>5. CASE HandleCode
  BY <1>5 DEF HandleCode, Call
<1>6. CASE HandlePassword
  BY <1>6 DEF HandlePassword, Call
<1>7. CASE HandleUnsupported
  BY <1>7 DEF HandleUnsupported, Unsupported
<1>8. CASE HandlePanic
  BY <1>8 DEF HandlePanic, Panicking
<1>9. CASE HandleClosing
  BY <1>9 DEF HandleClosing
<1>10. CASE LibReturn
  BY <1>10 DEF LibReturn
<1>11. CASE InterRecv
  BY <1>11 DEF InterRecv, AfterRecv
<1>12. CASE InterReturn
  BY <1>12 DEF InterReturn
<1>13. CASE InterSendPhone
  BY <1>13 DEF InterSendPhone, Send
<1>14. CASE InterSendCode
  BY <1>14 DEF InterSendCode, Send
<1>15. CASE InterSendPassword
  BY <1>15 DEF InterSendPassword, Send
<1>16. ASSUME NEW r \in Requests, InterTake(r) PROVE Stage' \in Session!Moves[Stage]
        \/ Stage' = Stage
  BY <1>16 DEF InterTake
<1>17. CASE UNCHANGED <<libPc, authErr, interPc, codeSet, passwordSet, panicked>>
  BY <1>17
<1> QED
  BY <1>1, <1>2, <1>3, <1>4, <1>5, <1>6, <1>7, <1>8, <1>9, <1>10, <1>11, <1>12,
     <1>13, <1>14, <1>15, <1>16, <1>17 DEF Next, Lib, Inter, TdClose, Deadline,
     Submit

\* The two goroutines and their channels keep the promise of one login: every
\* question gets one answer, and no login ends with a question open.
THEOREM Refinement == Spec => SessionSpec
<1>1. Init => Session!Init
  BY DEF Init, Session!Init, Stage
<1>2. IInv /\ [Next]_vars => [Session!Next]_Stage
  BY StageStep
<1> QED
  BY <1>1, <1>2, Invariance, PTL DEF Spec, SessionSpec, Session!Spec
===============================================================================

------------------------ MODULE AccountCreationProofs ------------------------
(***************************************************************************)
(* Proofs about AccountCreation.  The argument: as long as no phone number *)
(* was accepted while another was in work, the account in work belongs to  *)
(* the one login, or to nobody; so its directory, its object and what is   *)
(* saved are all of one phone.                                             *)
(***************************************************************************)
EXTENDS AccountCreation, TLAPS

\* What each place of the code has set: no step follows a nil pointer.
SetInv ==
    /\ cur # Nil => acc[cur] # NoDoc
    /\ \A r \in Requests :
        /\ pc[r] \in {"find", "found", "save", "spawn", "check"} => phone[r] \in Phones
        /\ pc[r] = "save" => acc[r] # NoDoc
        /\ stage[r] \notin Over => dir[r] \in Phones /\ phone[r] \in Phones
        /\ stage[r] = "ok" => sess[dir[r]] # Nil

\* r is at work on a phone number.
IsBusy(r) == \/ pc[r] \in {"find", "found", "save", "spawn", "check"}
             \/ stage[r] \notin Over

\* The disk: what is active is its phone's own, and logged in.
DiskInv ==
    /\ \A p \in Phones :
        /\ db[p] = NoDoc \/ db[p].phone = p
        /\ db[p].status = "active" => db[p].id = p /\ sess[p] = p
        /\ db[p].status # "active" => db[p].id = NoUser
        /\ sess[p] \in {Nil, p}
    /\ up # "hung"

\* What a request knows before its login starts.
RequestInv ==
    \A r \in Requests :
        /\ pc[r] \in {"idle", "find", "found", "save", "spawn"} => stage[r] \in Over
        /\ pc[r] \in {"find", "found"} => cur = Nil
        /\ pc[r] = "found" => found[r] = db[phone[r]]
        /\ pc[r] \in {"save", "spawn"} =>
             cur = r /\ acc[r].phone = phone[r] /\ acc[r].id = NoUser
        /\ pc[r] = "save" => acc[r].status = "new"

\* A login works for its own phone, on its own object.
LoginInv ==
    \A r \in Requests : stage[r] \notin Over =>
        /\ dir[r] = phone[r] /\ acc[r].phone = phone[r]
        /\ cur = r \/ (cur = Nil /\ acc[r].status = "active")
        /\ stage[r] = "saving" =>
             acc[r].status = "active" /\ acc[r].id = phone[r] /\ sess[phone[r]] = phone[r]

OneBusy == \A q, r \in Requests : IsBusy(q) /\ IsBusy(r) => q = r

SerialInv == OneBusy /\ DiskInv /\ RequestInv /\ LoginInv

IInv == TypeOK /\ SetInv /\ (~overlapped => SerialInv)

-------------------------------------------------------------------------------

\* What is written to the disk is an account, and a logged-in directory has a
\* user.
LEMMA DiskTypesStep == TypeOK /\ SetInv /\ [Next]_vars => DiskTypes'
<1> SUFFICES ASSUME TypeOK, SetInv, [Next]_vars PROVE DiskTypes'
  OBVIOUS
<1> USE NilAssumption DEF TypeOK, SetInv, DiskTypes, CreatorTypes, RequestTypes,
        LoginTypes, Docs, Users, NoDoc, Goto, diskVars, credVars, reqVars
<1>1. CASE Start
  BY <1>1 DEF Start, Hangs, Clients, Actives
<1>2. CASE Crash
  BY <1>2 DEF Crash, Die
<1>3. ASSUME NEW r \in Requests, SaveNew(r) PROVE DiskTypes'
  BY <1>3 DEF SaveNew, Save
<1>4. ASSUME NEW r \in Requests, LoginMove(r) PROVE DiskTypes'
  BY <1>4 DEF LoginMove, Moves, Working, Asking, Over
<1>5. ASSUME NEW r \in Requests, FlowError(r) PROVE DiskTypes'
  BY <1>5 DEF FlowError, Die
<1>6. ASSUME NEW r \in Requests, FlowActive(r) PROVE DiskTypes'
  BY <1>6 DEF FlowActive, Die
<1>7. ASSUME NEW r \in Requests, FlowSave(r) PROVE DiskTypes'
  BY <1>7 DEF FlowSave, Save, Die, Over
<1>8. ASSUME NEW r \in Requests, LoginPanic(r) PROVE DiskTypes'
  BY <1>8 DEF LoginPanic, Die
<1>9. CASE UNCHANGED <<db, sess, up, served>>
  BY <1>9
<1> QED
  BY <1>1, <1>2, <1>3, <1>4, <1>5, <1>6, <1>7, <1>8, <1>9 DEF Next, Request,
     RequestGoesOn, Login, vars, PostPhone, TakeAnswer, PostAnswer, PostNothing,
     Find, SetCurrent, Spawn, Check, Show, Hide, FlowClear

\* Every pointer of the AccountCreator is nil or an object that was set.
LEMMA CreatorTypesStep == TypeOK /\ SetInv /\ [Next]_vars => CreatorTypes'
<1> SUFFICES ASSUME TypeOK, SetInv, [Next]_vars PROVE CreatorTypes'
  OBVIOUS
<1> USE NilAssumption DEF TypeOK, SetInv, DiskTypes, CreatorTypes, RequestTypes,
        LoginTypes, Docs, Users, NoDoc, Goto, diskVars, credVars, reqVars
<1>1. CASE Crash
  BY <1>1 DEF Crash, Die
<1>2. ASSUME NEW r \in Requests, SetCurrent(r) PROVE CreatorTypes'
  BY <1>2 DEF SetCurrent
<1>3. ASSUME NEW r \in Requests, SaveNew(r) PROVE CreatorTypes'
  BY <1>3 DEF SaveNew, Save
<1>4. ASSUME NEW r \in Requests, Spawn(r) PROVE CreatorTypes'
  BY <1>4 DEF Spawn
<1>5. ASSUME NEW r \in Requests, Check(r) PROVE CreatorTypes'
  BY <1>5 DEF Check
<1>6. ASSUME NEW r \in Requests, FlowError(r) PROVE CreatorTypes'
  BY <1>6 DEF FlowError, Die
<1>7. ASSUME NEW r \in Requests, FlowActive(r) PROVE CreatorTypes'
  BY <1>7 DEF FlowActive, Die, Over
<1>8. ASSUME NEW r \in Requests, FlowSave(r) PROVE CreatorTypes'
  BY <1>8 DEF FlowSave, Save, Die
<1>9. ASSUME NEW r \in Requests, FlowClear(r) PROVE CreatorTypes'
  BY <1>9 DEF FlowClear
<1>10. ASSUME NEW r \in Requests, LoginPanic(r) PROVE CreatorTypes'
  BY <1>10 DEF LoginPanic, Die
<1>11. CASE UNCHANGED <<cur, authz, params, acc>>
  BY <1>11
<1> QED
  BY <1>1, <1>2, <1>3, <1>4, <1>5, <1>6, <1>7, <1>8, <1>9, <1>10, <1>11 DEF Next,
     Request, RequestGoesOn, Login, vars, Start, PostPhone, TakeAnswer, PostAnswer,
     PostNothing, Find, Show, Hide, LoginMove

\* A request carries what its place in the code needs.
LEMMA RequestTypesStep == TypeOK /\ SetInv /\ [Next]_vars => RequestTypes'
<1> SUFFICES ASSUME TypeOK, SetInv, [Next]_vars PROVE RequestTypes'
  OBVIOUS
<1> USE NilAssumption DEF TypeOK, SetInv, DiskTypes, CreatorTypes, RequestTypes,
        LoginTypes, Docs, Users, NoDoc, Goto, diskVars, credVars, reqVars
<1>1. CASE Crash
  BY <1>1 DEF Crash, Die
<1>2. ASSUME NEW r \in Requests, NEW p \in Phones, PostPhone(r, p) PROVE
        RequestTypes'
  BY <1>2 DEF PostPhone
<1>3. ASSUME NEW r \in Requests, PostAnswer(r) PROVE RequestTypes'
  BY <1>3 DEF PostAnswer
<1>4. ASSUME NEW r \in Requests, PostNothing(r) PROVE RequestTypes'
  BY <1>4 DEF PostNothing
<1>5. ASSUME NEW r \in Requests, Find(r) PROVE RequestTypes'
  BY <1>5 DEF Find
<1>6. ASSUME NEW r \in Requests, SetCurrent(r) PROVE RequestTypes'
  BY <1>6 DEF SetCurrent
<1>7. ASSUME NEW r \in Requests, SaveNew(r) PROVE RequestTypes'
  BY <1>7 DEF SaveNew, Save
<1>8. ASSUME NEW r \in Requests, Spawn(r) PROVE RequestTypes'
  BY <1>8 DEF Spawn
<1>9. ASSUME NEW r \in Requests, Check(r) PROVE RequestTypes'
  BY <1>9 DEF Check
<1>10. ASSUME NEW r \in Requests, NEW q \in Requests, TakeAnswer(r, q) PROVE
        RequestTypes'
  BY <1>10 DEF TakeAnswer, Moves, Asking
<1>11. ASSUME NEW r \in Requests, FlowError(r) PROVE RequestTypes'
  BY <1>11 DEF FlowError, Die
<1>12. ASSUME NEW r \in Requests, FlowActive(r) PROVE RequestTypes'
  BY <1>12 DEF FlowActive, Die
<1>13. ASSUME NEW r \in Requests, FlowSave(r) PROVE RequestTypes'
  BY <1>13 DEF FlowSave, Save, Die
<1>14. ASSUME NEW r \in Requests, LoginPanic(r) PROVE RequestTypes'
  BY <1>14 DEF LoginPanic, Die
<1>15. CASE UNCHANGED <<pc, phone, found, ch, overlapped>>
  BY <1>15
<1> QED
  BY <1>1, <1>2, <1>3, <1>4, <1>5, <1>6, <1>7, <1>8, <1>9, <1>10, <1>11, <1>12,
     <1>13, <1>14, <1>15 DEF Next, Request, RequestGoesOn, Login, vars, Start, Show,
     Hide, LoginMove, FlowClear

\* A login moves along its stages.
LEMMA LoginTypesStep == TypeOK /\ SetInv /\ [Next]_vars => LoginTypes'
<1> SUFFICES ASSUME TypeOK, SetInv, [Next]_vars PROVE LoginTypes'
  OBVIOUS
<1> USE NilAssumption DEF TypeOK, SetInv, DiskTypes, CreatorTypes, RequestTypes,
        LoginTypes, Docs, Users, NoDoc, Stages, Over, Goto, diskVars, credVars,
        reqVars
<1>1. CASE Crash
  BY <1>1 DEF Crash, Die
<1>2. ASSUME NEW r \in Requests, Spawn(r) PROVE LoginTypes'
  BY <1>2 DEF Spawn, Moves
<1>3. ASSUME NEW r \in Requests, Show(r) PROVE LoginTypes'
  BY <1>3 DEF Show, Stages
<1>4. ASSUME NEW r \in Requests, Hide(r) PROVE LoginTypes'
  BY <1>4 DEF Hide, Working, Asking
<1>5. ASSUME NEW r \in Requests, LoginMove(r) PROVE LoginTypes'
  BY <1>5 DEF LoginMove, Moves, Working, Asking
<1>6. ASSUME NEW r \in Requests, NEW q \in Requests, TakeAnswer(r, q) PROVE
        LoginTypes'
  BY <1>6 DEF TakeAnswer, Moves, Asking
<1>7. ASSUME NEW r \in Requests, FlowError(r) PROVE LoginTypes'
  BY <1>7 DEF FlowError, Die
<1>8. ASSUME NEW r \in Requests, FlowActive(r) PROVE LoginTypes'
  BY <1>8 DEF FlowActive, Die
<1>9. ASSUME NEW r \in Requests, FlowSave(r) PROVE LoginTypes'
  <2>1. CASE cur = Nil
    BY <1>9, <2>1 DEF FlowSave, Save, Die, Moves
  <2>2. CASE cur # Nil
    BY <1>9, <2>2 DEF FlowSave, Save, Die, Moves
  <2> QED
    BY <2>1, <2>2
<1>10. ASSUME NEW r \in Requests, FlowClear(r) PROVE LoginTypes'
  BY <1>10 DEF FlowClear
<1>11. ASSUME NEW r \in Requests, LoginPanic(r) PROVE LoginTypes'
  BY <1>11 DEF LoginPanic, Die
<1>12. CASE UNCHANGED <<stage, dir, page>>
  BY <1>12
<1> QED
  BY <1>1, <1>2, <1>3, <1>4, <1>5, <1>6, <1>7, <1>8, <1>9, <1>10, <1>11, <1>12 DEF
     Next, Request, RequestGoesOn, Login, vars, Start, PostPhone, PostAnswer,
     PostNothing, Find, SetCurrent, SaveNew, Check

\* Every place of the code is reached with its variables set.
LEMMA SetInvStep == TypeOK /\ SetInv /\ [Next]_vars => SetInv'
<1> SUFFICES ASSUME TypeOK, SetInv, [Next]_vars PROVE SetInv'
  OBVIOUS
<1> USE NilAssumption DEF TypeOK, SetInv, Over, DiskTypes, CreatorTypes,
        RequestTypes, LoginTypes, Docs, Users, NoDoc, Goto, diskVars, credVars,
        reqVars
<1>1. CASE Crash
  BY <1>1 DEF Crash, Die
<1>2. ASSUME NEW r \in Requests, NEW p \in Phones, PostPhone(r, p) PROVE SetInv'
  BY <1>2 DEF PostPhone
<1>3. ASSUME NEW r \in Requests, PostAnswer(r) PROVE SetInv'
  BY <1>3 DEF PostAnswer
<1>4. ASSUME NEW r \in Requests, PostNothing(r) PROVE SetInv'
  BY <1>4 DEF PostNothing
<1>5. ASSUME NEW r \in Requests, Find(r) PROVE SetInv'
  BY <1>5 DEF Find
<1>6. ASSUME NEW r \in Requests, SetCurrent(r) PROVE SetInv'
  BY <1>6 DEF SetCurrent
<1>7. ASSUME NEW r \in Requests, SaveNew(r) PROVE SetInv'
  BY <1>7 DEF SaveNew, Save
<1>8. ASSUME NEW r \in Requests, Spawn(r) PROVE SetInv'
  BY <1>8 DEF Spawn
<1>9. ASSUME NEW r \in Requests, Check(r) PROVE SetInv'
  BY <1>9 DEF Check
<1>10. ASSUME NEW r \in Requests, LoginMove(r) PROVE SetInv'
  BY <1>10 DEF LoginMove, Moves, Working, Asking
<1>11. ASSUME NEW r \in Requests, NEW q \in Requests, TakeAnswer(r, q) PROVE SetInv'
  BY <1>11 DEF TakeAnswer, Moves, Asking
<1>12. ASSUME NEW r \in Requests, FlowError(r) PROVE SetInv'
  <2>1. CASE cur = Nil
    BY <1>12, <2>1 DEF FlowError, Die
  <2>2. CASE cur # Nil
    BY <1>12, <2>2 DEF FlowError, Die
  <2> QED
    BY <2>1, <2>2
<1>13. ASSUME NEW r \in Requests, FlowActive(r) PROVE SetInv'
  <2>1. CASE cur = Nil
    BY <1>13, <2>1 DEF FlowActive, Die
  <2>2. CASE cur # Nil
    BY <1>13, <2>2 DEF FlowActive, Die
  <2> QED
    BY <2>1, <2>2
<1>14. ASSUME NEW r \in Requests, FlowSave(r) PROVE SetInv'
  BY <1>14 DEF FlowSave, Save, Die
<1>15. ASSUME NEW r \in Requests, FlowClear(r) PROVE SetInv'
  BY <1>15 DEF FlowClear
<1>16. ASSUME NEW r \in Requests, LoginPanic(r) PROVE SetInv'
  BY <1>16 DEF LoginPanic, Die
<1>17. CASE UNCHANGED <<cur, acc, pc, phone, stage, dir, sess>>
  BY <1>17
<1> QED
  BY <1>1, <1>2, <1>3, <1>4, <1>5, <1>6, <1>7, <1>8, <1>9, <1>10, <1>11, <1>12,
     <1>13, <1>14, <1>15, <1>16, <1>17 DEF Next, Request, RequestGoesOn, Login,
     vars, Start, Show, Hide

\* A phone number is accepted only when none is in work.
LEMMA OneBusyStep ==
  TypeOK /\ OneBusy /\ RequestInv /\ ~overlapped' /\ [Next]_vars => OneBusy'
<1> SUFFICES ASSUME TypeOK, OneBusy, RequestInv, ~overlapped', [Next]_vars PROVE
        OneBusy'
  OBVIOUS
<1> USE NilAssumption DEF TypeOK, OneBusy, IsBusy, RequestInv, Over, RequestTypes,
        LoginTypes, Goto, diskVars, credVars, reqVars
<1>1. CASE Crash
  BY <1>1 DEF Crash, Die
<1>2. ASSUME NEW r \in Requests, NEW p \in Phones, PostPhone(r, p) PROVE OneBusy'
  <2>1. Busy = {}
    BY <1>2 DEF PostPhone
  <2>2. \A q \in Requests : ~IsBusy(q)
    BY <2>1 DEF Busy
  <2> QED
    BY <1>2, <2>2 DEF PostPhone
<1>3. ASSUME NEW r \in Requests, PostAnswer(r) PROVE OneBusy'
  BY <1>3 DEF PostAnswer
<1>4. ASSUME NEW r \in Requests, PostNothing(r) PROVE OneBusy'
  BY <1>4 DEF PostNothing
<1>5. ASSUME NEW r \in Requests, Find(r) PROVE OneBusy'
  BY <1>5 DEF Find
<1>6. ASSUME NEW r \in Requests, SetCurrent(r) PROVE OneBusy'
  BY <1>6 DEF SetCurrent
<1>7. ASSUME NEW r \in Requests, SaveNew(r) PROVE OneBusy'
  BY <1>7 DEF SaveNew, Save
<1>8. ASSUME NEW r \in Requests, Spawn(r) PROVE OneBusy'
  BY <1>8 DEF Spawn
<1>9. ASSUME NEW r \in Requests, Check(r) PROVE OneBusy'
  BY <1>9 DEF Check
<1>10. ASSUME NEW r \in Requests, LoginMove(r) PROVE OneBusy'
  BY <1>10 DEF LoginMove, Moves, Working, Asking
<1>11. ASSUME NEW r \in Requests, NEW q \in Requests, TakeAnswer(r, q) PROVE
        OneBusy'
  BY <1>11 DEF TakeAnswer, Moves, Asking
<1>12. ASSUME NEW r \in Requests, FlowError(r) PROVE OneBusy'
  BY <1>12 DEF FlowError, Die
<1>13. ASSUME NEW r \in Requests, FlowActive(r) PROVE OneBusy'
  BY <1>13 DEF FlowActive, Die
<1>14. ASSUME NEW r \in Requests, FlowSave(r) PROVE OneBusy'
  BY <1>14 DEF FlowSave, Save, Die
<1>15. ASSUME NEW r \in Requests, FlowClear(r) PROVE OneBusy'
  BY <1>15 DEF FlowClear
<1>16. ASSUME NEW r \in Requests, LoginPanic(r) PROVE OneBusy'
  BY <1>16 DEF LoginPanic, Die
<1>17. CASE UNCHANGED <<pc, stage>>
  BY <1>17
<1> QED
  BY <1>1, <1>2, <1>3, <1>4, <1>5, <1>6, <1>7, <1>8, <1>9, <1>10, <1>11, <1>12,
     <1>13, <1>14, <1>15, <1>16, <1>17 DEF Next, Request, RequestGoesOn, Login,
     vars, Start, Show, Hide

\* What is saved is of the login's own phone, and active after it logged in.
LEMMA DiskInvStep ==
  TypeOK /\ SetInv /\ OneBusy /\ DiskInv /\ RequestInv /\ LoginInv /\
  ~overlapped' /\ [Next]_vars => DiskInv'
<1> SUFFICES ASSUME TypeOK, SetInv, OneBusy, DiskInv, RequestInv, LoginInv,
        ~overlapped', [Next]_vars PROVE DiskInv'
  OBVIOUS
<1> USE NilAssumption DEF TypeOK, SetInv, OneBusy, IsBusy, Over, RequestInv,
        LoginInv, DiskInv, DiskTypes, CreatorTypes, RequestTypes, LoginTypes, Docs,
        Users, NoDoc, Goto, diskVars, credVars, reqVars
<1>1. CASE Start
  BY <1>1 DEF Start, Hangs, Clients, Actives
<1>2. CASE Crash
  BY <1>2 DEF Crash, Die
<1>3. ASSUME NEW r \in Requests, SaveNew(r) PROVE DiskInv'
  BY <1>3 DEF SaveNew, Save
<1>4. ASSUME NEW r \in Requests, LoginMove(r) PROVE DiskInv'
  BY <1>4 DEF LoginMove, Moves, Working, Asking
<1>5. ASSUME NEW r \in Requests, FlowError(r) PROVE DiskInv'
  BY <1>5 DEF FlowError, Die
<1>6. ASSUME NEW r \in Requests, FlowActive(r) PROVE DiskInv'
  BY <1>6 DEF FlowActive, Die
<1>7. ASSUME NEW r \in Requests, FlowSave(r) PROVE DiskInv'
  BY <1>7 DEF FlowSave, Save, Die
<1>8. ASSUME NEW r \in Requests, LoginPanic(r) PROVE DiskInv'
  BY <1>8 DEF LoginPanic, Die
<1>9. CASE UNCHANGED <<db, sess, up>>
  BY <1>9
<1> QED
  BY <1>1, <1>2, <1>3, <1>4, <1>5, <1>6, <1>7, <1>8, <1>9 DEF Next, Request,
     RequestGoesOn, Login, vars, PostPhone, TakeAnswer, PostAnswer, PostNothing,
     Find, SetCurrent, Spawn, Check, Show, Hide, FlowClear

\* Until its login starts, a request has the account in work to itself.
LEMMA RequestInvStep ==
  TypeOK /\ SetInv /\ OneBusy /\ DiskInv /\ RequestInv /\ LoginInv /\
  ~overlapped' /\ [Next]_vars => RequestInv'
<1> SUFFICES ASSUME TypeOK, SetInv, OneBusy, DiskInv, RequestInv, LoginInv,
        ~overlapped', [Next]_vars PROVE RequestInv'
  OBVIOUS
<1> USE NilAssumption DEF TypeOK, SetInv, OneBusy, IsBusy, Over, RequestInv,
        LoginInv, DiskInv, DiskTypes, CreatorTypes, RequestTypes, LoginTypes, Docs,
        Users, NoDoc, Goto, diskVars, credVars, reqVars
<1>1. CASE Crash
  BY <1>1 DEF Crash, Die
<1>2. ASSUME NEW r \in Requests, NEW p \in Phones, PostPhone(r, p) PROVE RequestInv'
  BY <1>2 DEF PostPhone, Busy
<1>3. ASSUME NEW r \in Requests, PostAnswer(r) PROVE RequestInv'
  BY <1>3 DEF PostAnswer
<1>4. ASSUME NEW r \in Requests, PostNothing(r) PROVE RequestInv'
  BY <1>4 DEF PostNothing
<1>5. ASSUME NEW r \in Requests, Find(r) PROVE RequestInv'
  BY <1>5 DEF Find
<1>6. ASSUME NEW r \in Requests, SetCurrent(r) PROVE RequestInv'
  BY <1>6 DEF SetCurrent
<1>7. ASSUME NEW r \in Requests, SaveNew(r) PROVE RequestInv'
  BY <1>7 DEF SaveNew, Save
<1>8. ASSUME NEW r \in Requests, Spawn(r) PROVE RequestInv'
  BY <1>8 DEF Spawn
<1>9. ASSUME NEW r \in Requests, Check(r) PROVE RequestInv'
  BY <1>9 DEF Check
<1>10. ASSUME NEW r \in Requests, LoginMove(r) PROVE RequestInv'
  BY <1>10 DEF LoginMove, Moves, Working, Asking
<1>11. ASSUME NEW r \in Requests, NEW q \in Requests, TakeAnswer(r, q) PROVE
        RequestInv'
  BY <1>11 DEF TakeAnswer, Moves, Asking
<1>12. ASSUME NEW r \in Requests, FlowError(r) PROVE RequestInv'
  BY <1>12 DEF FlowError, Die
<1>13. ASSUME NEW r \in Requests, FlowActive(r) PROVE RequestInv'
  BY <1>13 DEF FlowActive, Die
<1>14. ASSUME NEW r \in Requests, FlowSave(r) PROVE RequestInv'
  BY <1>14 DEF FlowSave, Save, Die
<1>15. ASSUME NEW r \in Requests, FlowClear(r) PROVE RequestInv'
  BY <1>15 DEF FlowClear
<1>16. ASSUME NEW r \in Requests, LoginPanic(r) PROVE RequestInv'
  BY <1>16 DEF LoginPanic, Die
<1>17. CASE UNCHANGED <<pc, stage, cur, found, db, phone, acc>>
  BY <1>17
<1> QED
  BY <1>1, <1>2, <1>3, <1>4, <1>5, <1>6, <1>7, <1>8, <1>9, <1>10, <1>11, <1>12,
     <1>13, <1>14, <1>15, <1>16, <1>17 DEF Next, Request, RequestGoesOn, Login,
     vars, Start, Show, Hide

\* A login keeps its object, its directory and its phone together.
LEMMA LoginInvStep ==
  TypeOK /\ SetInv /\ OneBusy /\ DiskInv /\ RequestInv /\ LoginInv /\
  ~overlapped' /\ [Next]_vars => LoginInv'
<1> SUFFICES ASSUME TypeOK, SetInv, OneBusy, DiskInv, RequestInv, LoginInv,
        ~overlapped', [Next]_vars PROVE LoginInv'
  OBVIOUS
<1> USE NilAssumption DEF TypeOK, SetInv, OneBusy, IsBusy, Over, RequestInv,
        LoginInv, DiskInv, DiskTypes, CreatorTypes, RequestTypes, LoginTypes, Docs,
        Users, NoDoc, Goto, diskVars, credVars, reqVars
<1>1. CASE Crash
  BY <1>1 DEF Crash, Die
<1>2. ASSUME NEW r \in Requests, NEW p \in Phones, PostPhone(r, p) PROVE LoginInv'
  BY <1>2 DEF PostPhone, Busy
<1>3. ASSUME NEW r \in Requests, SetCurrent(r) PROVE LoginInv'
  BY <1>3 DEF SetCurrent
<1>4. ASSUME NEW r \in Requests, SaveNew(r) PROVE LoginInv'
  BY <1>4 DEF SaveNew, Save
<1>5. ASSUME NEW r \in Requests, Spawn(r) PROVE LoginInv'
  BY <1>5 DEF Spawn
<1>6. ASSUME NEW r \in Requests, Check(r) PROVE LoginInv'
  BY <1>6 DEF Check
<1>7. ASSUME NEW r \in Requests, LoginMove(r) PROVE LoginInv'
  BY <1>7 DEF LoginMove, Moves, Working, Asking
<1>8. ASSUME NEW r \in Requests, NEW q \in Requests, TakeAnswer(r, q) PROVE
        LoginInv'
  BY <1>8 DEF TakeAnswer, Moves, Asking
<1>9. ASSUME NEW r \in Requests, FlowError(r) PROVE LoginInv'
  BY <1>9 DEF FlowError, Die
<1>10. ASSUME NEW r \in Requests, FlowActive(r) PROVE LoginInv'
  BY <1>10 DEF FlowActive, Die
<1>11. ASSUME NEW r \in Requests, FlowSave(r) PROVE LoginInv'
  BY <1>11 DEF FlowSave, Save, Die
<1>12. ASSUME NEW r \in Requests, FlowClear(r) PROVE LoginInv'
  BY <1>12 DEF FlowClear
<1>13. ASSUME NEW r \in Requests, LoginPanic(r) PROVE LoginInv'
  BY <1>13 DEF LoginPanic, Die
<1>14. CASE UNCHANGED <<stage, cur, sess, dir, phone, acc>>
  BY <1>14
<1> QED
  BY <1>1, <1>2, <1>3, <1>4, <1>5, <1>6, <1>7, <1>8, <1>9, <1>10, <1>11, <1>12,
     <1>13, <1>14 DEF Next, Request, RequestGoesOn, Login, vars, Start, PostAnswer,
     PostNothing, Find, Show, Hide

\* The history variable is never taken back.
LEMMA OverlapStays == [Next]_vars /\ ~overlapped' => ~overlapped
  BY DEF Next, Request, RequestGoesOn, Login, vars, diskVars, credVars, reqVars, Start,
     Crash, Die, PostPhone, TakeAnswer, PostAnswer, PostNothing, Find, SetCurrent,
     SaveNew, Spawn, Check, Show, Hide, LoginMove, FlowError, FlowActive, FlowSave,
     FlowClear, LoginPanic

-------------------------------------------------------------------------------

\* The inductive invariant holds of the specification.
THEOREM Invariance == Spec => []IInv
<1>1. Init => IInv
  <2> SUFFICES ASSUME Init PROVE IInv
    OBVIOUS
  <2> USE NilAssumption DEF Init, NoDoc
  <2>1. DiskTypes /\ CreatorTypes /\ RequestTypes
    BY DEF DiskTypes, CreatorTypes, RequestTypes, Docs
  <2>2. LoginTypes
    BY DEF LoginTypes, Over
  <2>3. SetInv
    BY DEF SetInv, Over
  <2>4. OneBusy /\ RequestInv /\ LoginInv
    BY DEF OneBusy, IsBusy, RequestInv, LoginInv, Over
  <2>5. DiskInv
    BY DEF DiskInv
  <2> QED
    BY <2>1, <2>2, <2>3, <2>4, <2>5 DEF IInv, TypeOK, SerialInv
<1>2. IInv /\ [Next]_vars => IInv'
  <2> SUFFICES ASSUME IInv, [Next]_vars PROVE IInv'
    OBVIOUS
  <2>1. TypeOK' /\ SetInv'
    BY DiskTypesStep, CreatorTypesStep, RequestTypesStep, LoginTypesStep, SetInvStep
       DEF IInv, TypeOK
  <2>2. ASSUME ~overlapped' PROVE SerialInv'
    <3>1. ~overlapped
      BY <2>2, OverlapStays
    <3> QED
      BY <2>2, <3>1, OneBusyStep, DiskInvStep, RequestInvStep, LoginInvStep
         DEF IInv, SerialInv
  <2> QED
    BY <2>1, <2>2 DEF IInv
<1> QED
  BY <1>1, <1>2, PTL DEF Spec

\* Types are kept: no step reads through a nil account or an empty phone.
THEOREM TypeCorrect == Spec => []TypeOK
<1>1. IInv => TypeOK
  BY DEF IInv
<1> QED
  BY <1>1, Invariance, PTL

\* For any number of requests and phones, crashes and failures: as long as no
\* two phone numbers were in work at once, an active account is saved with the
\* Telegram user of its own phone, and has a directory that is logged in, so
\* that the start of the process never hangs.
THEOREM ActiveAccountsAreOwn == Spec => []ActiveIsOwn
<1>1. IInv => ActiveIsOwn
  BY DEF IInv, SerialInv, DiskInv, ActiveIsOwn, Actives
<1> QED
  BY <1>1, Invariance, PTL

\* Under the same condition a login dereferences only its own account, until
\* its own request may have let it go.
THEOREM LoginsOwnCurrent == Spec => []LoginOwnsCurrent
<1>1. IInv => LoginOwnsCurrent
  BY DEF IInv, SerialInv, LoginInv, LoginOwnsCurrent
<1> QED
  BY <1>1, Invariance, PTL

-------------------------------------------------------------------------------

\* While no two phones were in work at once, a new account is saved over none that is
\* active: it was looked up by the request that saves it.
NewInv == ~overlapped => \A r \in Requests : pc[r] = "save" => phone[r] \notin Actives

LEMMA BusyStages ==
    ASSUME IInv, ~overlapped, NEW r \in Requests, pc[r] = "save"
    PROVE  /\ \A q \in Requests : stage[q] \in Over
           /\ \A q \in Requests \ {r} : pc[q] \notin {"find", "found", "save", "spawn", "check"}
  BY DEF IInv, SerialInv, OneBusy, IsBusy, RequestInv

\* A login that ends, and a request that saves, write the object of their own phone.
LEMMA SavedOwn ==
    ASSUME IInv, ~overlapped, NewInv, [Next]_vars, NEW p \in Actives
    PROVE  p \in Actives'
<1> USE DEF Actives
<1>1. ASSUME NEW r \in Requests, SaveNew(r) PROVE p \in Actives'
  <2>1. acc[r].phone = phone[r] /\ phone[r] # p /\ db \in [Phones -> Docs]
    BY <1>1 DEF SaveNew, IInv, SerialInv, RequestInv, NewInv, TypeOK, DiskTypes
  <2> QED
    BY <1>1, <2>1 DEF SaveNew, Save
<1>2. ASSUME NEW r \in Requests, FlowSave(r) PROVE p \in Actives'
  <2>1. db \in [Phones -> Docs]
    BY DEF IInv, TypeOK, DiskTypes
  <2>2. CASE cur = Nil
    BY <1>2, <2>2 DEF FlowSave, Die, diskVars
  <2>3. CASE cur # Nil
    <3>1. cur = r /\ acc[r].status = "active"
      BY <1>2, <2>3 DEF FlowSave, IInv, SerialInv, LoginInv, Over
    <3> QED
      BY <1>2, <2>1, <2>3, <3>1 DEF FlowSave, Save
  <2> QED
    BY <2>2, <2>3
<1>3. CASE db' = db
  BY <1>3
<1> QED
  BY <1>1, <1>2, <1>3 DEF Next, Request, RequestGoesOn, Login, vars, diskVars, credVars, reqVars, Start,
     Crash, Die, PostPhone, TakeAnswer, PostAnswer, PostNothing, Find, SetCurrent,
     Spawn, Check, Show, Hide, LoginMove, FlowError, FlowActive, FlowClear, LoginPanic

LEMMA NewInvStep == IInv /\ NewInv /\ [Next]_vars => NewInv'
<1> SUFFICES ASSUME IInv, NewInv, [Next]_vars, ~overlapped',
                    NEW r \in Requests, pc'[r] = "save"
             PROVE  phone'[r] \notin Actives'
  BY DEF NewInv
<1>1. ~overlapped
  BY OverlapStays
<1>2. CASE SetCurrent(r)
  <2>1. found[r] = NoDoc /\ found[r] = db[phone[r]] /\ UNCHANGED <<db, phone>>
    BY <1>1, <1>2 DEF SetCurrent, Goto, IInv, SerialInv, RequestInv, TypeOK, RequestTypes, diskVars
  <2> QED
    BY <2>1 DEF Actives, NoDoc
<1>3. CASE pc[r] = "save" /\ UNCHANGED <<db, phone>>
  BY <1>1, <1>3 DEF NewInv, Actives
<1>4. pc[r] = "save" => \A q \in Requests : stage[q] \in Over
                         /\ (q # r => pc[q] \notin {"find", "found", "save", "spawn", "check"})
  BY <1>1, BusyStages
<1>5. CASE pc[r] # "save"
  <2> USE <1>5
  <2>1. pc \in [Requests -> {"idle", "find", "found", "save", "spawn", "check", "send", "done"}]
    BY DEF IInv, TypeOK, RequestTypes
  <2>2. ~Die /\ pc' # pc
    BY <2>1 DEF Die
  <2>3. ASSUME NEW q \in Requests PROVE ~Request(q)
    BY <2>1 DEF Request, PostPhone, PostAnswer, PostNothing, Goto
  <2>4. ASSUME NEW q \in Requests, RequestGoesOn(q) PROVE SetCurrent(r)
    BY <2>1, <2>4 DEF RequestGoesOn, Find, SetCurrent, SaveNew, Spawn, Check, Goto
  <2>5. ASSUME NEW q \in Requests PROVE ~Login(q)
    BY <2>1, <2>2 DEF Login, reqVars, Goto, TakeAnswer, Show, Hide, LoginMove, FlowError,
       FlowActive, FlowSave, FlowClear
  <2>6. SetCurrent(r)
    BY <2>2, <2>3, <2>4, <2>5 DEF Next, vars, reqVars, Start, Crash, LoginPanic
  <2> QED
    BY <1>2, <2>6
<1>6. CASE pc[r] = "save"
  <2> USE <1>6
  <2>1. pc \in [Requests -> {"idle", "find", "found", "save", "spawn", "check", "send", "done"}]
    BY DEF IInv, TypeOK, RequestTypes
  <2>2. r \in Busy
    BY DEF Busy
  <2>3. ASSUME NEW q \in Requests PROVE ~SaveNew(q)
    BY <1>4, <2>1, <2>3 DEF SaveNew, Goto
  <2>4. ASSUME NEW q \in Requests PROVE ~FlowSave(q)
    BY <1>4 DEF FlowSave, Over
  <2>5. ASSUME NEW q \in Requests, NEW p \in Phones PROVE ~PostPhone(q, p)
    BY <2>2 DEF PostPhone
  <2>6. ~Die
    BY <2>1 DEF Die
  <2>7. UNCHANGED <<db, phone>>
    BY <2>3, <2>4, <2>5, <2>6
       DEF Next, Request, RequestGoesOn, Login, vars, diskVars, credVars, reqVars, Start,
       Crash, TakeAnswer, PostAnswer, PostNothing, Find, SetCurrent,
       Spawn, Check, Show, Hide, LoginMove, FlowError, FlowActive,
       FlowClear, LoginPanic
  <2> QED
    BY <1>3, <2>7
<1> QED
  BY <1>5, <1>6

\* For any number of requests and phones: an active account is never set back by another
\* request for its phone, nor by a login that ends (creator.go:49-55, 131).
THEOREM ActivesStay == Spec => ActiveStays
<1>1. Init => NewInv
  BY DEF Init, NewInv
<1>2. IInv /\ NewInv /\ [Next]_vars => [~overlapped' => Actives \subseteq Actives']_vars
  BY SavedOwn, OverlapStays
<1> QED
  BY <1>1, <1>2, NewInvStep, Invariance, PTL DEF Spec, ActiveStays

\* For any number of requests and phones, two phones get in work at once only by a request
\* that has not set the account yet or let it go (controller.go:462, creator.go:34-58).
THEOREM OverlapHasWindow == Spec => OverlapWindow
<1>1. IInv /\ [Next]_vars =>
        [ ~overlapped /\ overlapped' =>
            \E q \in Busy : pc[q] \in {"find", "found", "check"} \/ acc[q].status = "active" ]_vars
  <2> SUFFICES ASSUME IInv, [Next]_vars, ~overlapped, overlapped'
               PROVE  \E q \in Busy : pc[q] \in {"find", "found", "check"} \/ acc[q].status = "active"
    OBVIOUS
  <2>1. PICK r \in Requests, p \in Phones : PostPhone(r, p)
    BY DEF Next, Request, RequestGoesOn, Login, vars, Start,
       Crash, Die, TakeAnswer, PostAnswer, PostNothing, Find, SetCurrent,
       SaveNew, Spawn, Check, Show, Hide, LoginMove, FlowError, FlowActive, FlowSave,
       FlowClear, LoginPanic
  <2>2. cur = Nil /\ Busy # {}
    BY <2>1 DEF PostPhone
  <2>3. PICK q \in Requests : q \in Busy
    BY <2>2 DEF Busy
  <2>4. q # Nil
    BY NilAssumption
  <2> QED
    BY <2>2, <2>3, <2>4 DEF Busy, IInv, SerialInv, RequestInv, LoginInv
<1> QED
  BY <1>1, Invariance, PTL DEF Spec, OverlapWindow

-------------------------------------------------------------------------------

\* How a login ends, while no two phones were in work at once: with its account in error, which is
\* then the one in work, or saved as active.  No account is saved in error, and a request has no
\* login before it starts one.
EndInv ==
    /\ \A p \in Phones : db[p].status # "error"
    /\ \A r \in Requests :
        /\ pc[r] \in {"idle", "find", "found", "save", "spawn"} => stage[r] = "none"
        /\ acc[r].status = "error" => cur = r
        /\ stage[r] = "saved" => acc[r].status = "active" /\ phone[r] \in Actives
        /\ stage[r] = "over" => acc[r].status = "error" \/ phone[r] \in Actives

LEMMA EndInvStep ==
    ASSUME IInv, NewInv, ~overlapped, EndInv, ~overlapped', [Next]_vars
    PROVE  EndInv'
<1>0. /\ SerialInv /\ TypeOK /\ Nil \notin Requests
      /\ \A p \in Actives : p \in Actives'
  BY SavedOwn, NilAssumption DEF IInv
<1> USE <1>0 DEF SerialInv, TypeOK, DiskTypes, CreatorTypes, RequestTypes, LoginTypes, Goto
\* A step of the requests, and of the logins but for their ends, writes no object.
<1>1. ASSUME UNCHANGED <<db, acc, phone>>,
             \A r \in Requests :
                /\ pc'[r] \in {"idle", "find", "found", "save", "spawn"} =>
                        pc[r] \in {"idle", "find", "found", "save", "spawn"} /\ stage'[r] = stage[r]
                /\ stage'[r] \in {"over", "saved"} => stage'[r] = stage[r],
             cur' = cur \/ cur = Nil \/ acc[cur].status = "active"
      PROVE  EndInv'
  BY <1>1 DEF EndInv, Actives
<1>2. CASE Die
  BY <1>2 DEF Die, EndInv, diskVars, NoDoc
<1>3. ASSUME NEW r \in Requests, NEW p \in Phones, PostPhone(r, p) PROVE EndInv'
  <2>1. /\ pc[r] = "idle" /\ pc' = [pc EXCEPT ![r] = "find"] /\ phone' = [phone EXCEPT ![r] = p]
        /\ UNCHANGED <<db, acc, cur, stage>>
    BY <1>3 DEF PostPhone, diskVars, credVars
  <2>2. stage[r] = "none"
    BY <2>1 DEF EndInv
  <2> QED
    BY <2>1, <2>2 DEF EndInv, Actives
<1>4. ASSUME NEW r \in Requests, PostAnswer(r) \/ PostNothing(r) \/ Find(r) PROVE EndInv'
  BY <1>1, <1>4 DEF PostAnswer, PostNothing, Find, diskVars, credVars
<1>5. ASSUME NEW r \in Requests, SetCurrent(r) PROVE EndInv'
  <2>1. cur = Nil /\ found[r] = db[phone[r]] /\ pc[r] = "found" /\ phone[r] \in Phones
    BY <1>5 DEF SetCurrent, RequestInv, IInv, SetInv
  <2>2. \A q \in Requests : acc[q].status # "error"
    BY <2>1 DEF EndInv
  <2>3. found[r].status # "error"
    BY <2>1 DEF EndInv
  <2>4. acc'[r].status # "error" /\ \A q \in Requests \ {r} : acc'[q] = acc[q]
    BY <1>5, <2>3 DEF SetCurrent
  <2>5. UNCHANGED <<db, phone, stage>> /\ \A q \in Requests \ {r} : pc'[q] = pc[q]
    BY <1>5 DEF SetCurrent, diskVars
  <2>6. stage[r] = "none"
    BY <2>1 DEF EndInv
  <2> QED
    BY <2>2, <2>4, <2>5, <2>6 DEF EndInv, Actives
<1>6. ASSUME NEW r \in Requests, SaveNew(r) PROVE EndInv'
  <2>1. /\ pc[r] = "save" /\ cur = r /\ r # Nil /\ acc[r].status = "new" /\ stage[r] = "none"
        /\ UNCHANGED <<cur, phone, stage>> /\ pc'[r] \in {"spawn", "check"}
        /\ \A q \in Requests \ {r} : pc'[q] = pc[q]
    BY <1>6 DEF SaveNew, RequestInv, EndInv, credVars
  <2>2. CASE Save(r) /\ UNCHANGED acc
    <3>1. \A p \in Phones : db'[p].status # "error"
      BY <2>1, <2>2 DEF Save, EndInv
    <3> QED
      BY <2>1, <2>2, <3>1 DEF EndInv
  <2>3. CASE acc' = [acc EXCEPT ![cur].status = "error"] /\ UNCHANGED db
    BY <2>1, <2>3 DEF EndInv, Actives
  <2> QED
    BY <1>6, <2>1, <2>2, <2>3 DEF SaveNew
<1>7. ASSUME NEW r \in Requests, Spawn(r) \/ Check(r) PROVE EndInv'
  BY <1>1, <1>7 DEF Spawn, Check, diskVars
<1>8. ASSUME NEW r \in Requests, LoginMove(r) PROVE EndInv'
  <2>1. stage'[r] \notin {"over", "saved"} /\ \A q \in Requests \ {r} : stage'[q] = stage[q]
    BY <1>8 DEF LoginMove, Moves, Working, Asking
  <2>2. pc[r] \notin {"idle", "find", "found", "save", "spawn"}
    BY <1>8 DEF LoginMove, EndInv, Working
  <2> QED
    BY <1>1, <1>8, <2>1, <2>2 DEF LoginMove, credVars, reqVars
<1>9. ASSUME NEW r \in Requests, NEW q \in Requests, TakeAnswer(r, q) PROVE EndInv'
  <2>1. stage'[r] \notin {"over", "saved"} /\ \A o \in Requests \ {r} : stage'[o] = stage[o]
    BY <1>9 DEF TakeAnswer, Moves, Asking
  <2>2. pc[r] \notin {"idle", "find", "found", "save", "spawn"}
    BY <1>9 DEF TakeAnswer, EndInv, Asking
  <2> QED
    BY <1>1, <1>9, <2>1, <2>2 DEF TakeAnswer, credVars, diskVars
<1>10. ASSUME NEW r \in Requests, FlowError(r) \/ FlowActive(r), cur # Nil PROVE EndInv'
  <2>1. cur = r /\ pc[r] \notin {"idle", "find", "found", "save", "spawn"}
    BY <1>10 DEF FlowError, FlowActive, LoginInv, EndInv, Over
  <2>2. /\ UNCHANGED <<db, cur, phone, pc>> /\ \A q \in Requests \ {r} : stage'[q] = stage[q] /\ acc'[q] = acc[q]
        /\ \/ stage'[r] = "over" /\ acc'[r].status = "error"
           \/ stage'[r] = "saving" /\ acc'[r].status = "active"
    <3>1. acc[r] \in Docs /\ acc \in [Requests -> Docs]
      OBVIOUS
    <3>2. CASE FlowError(r)
      BY <1>10, <2>1, <3>1, <3>2 DEF FlowError, diskVars, credVars, reqVars, Docs, NoDoc
    <3>3. CASE FlowActive(r)
      <4>1. acc' = [acc EXCEPT ![r].id = sess[dir[r]], ![r].status = "active"]
            /\ stage' = [stage EXCEPT ![r] = "saving"] /\ UNCHANGED <<db, cur, phone, pc>>
        BY <1>10, <2>1, <3>3 DEF FlowActive, diskVars, credVars, reqVars
      <4> QED
        BY <3>1, <4>1 DEF Docs, NoDoc
    <3> QED
      BY <1>10, <3>2, <3>3
  <2> QED
    BY <2>1, <2>2 DEF EndInv, Actives
<1>11. ASSUME NEW r \in Requests, FlowSave(r), cur # Nil PROVE EndInv'
  <2>1. cur = r /\ acc[r].status = "active" /\ acc[r].phone = phone[r] /\ phone[r] \in Phones
        /\ pc[r] \notin {"idle", "find", "found", "save", "spawn"}
    BY <1>11 DEF FlowSave, LoginInv, EndInv, IInv, SetInv, Over
  <2>2. UNCHANGED <<acc, cur, phone, pc>> /\ \A q \in Requests \ {r} : stage'[q] = stage[q]
    BY <1>11 DEF FlowSave, credVars, reqVars
  <2>3. CASE db' = db /\ stage'[r] = "failed"
    BY <2>1, <2>2, <2>3 DEF EndInv, Actives
  <2>4. CASE Save(r) /\ stage'[r] = "saved"
    <3>1. phone[r] \in Actives' /\ \A p \in Phones : db'[p].status # "error"
      BY <2>1, <2>4 DEF Save, Actives, EndInv
    <3> QED
      BY <2>1, <2>2, <2>4, <3>1 DEF EndInv
  <2> QED
    BY <1>11, <2>1, <2>3, <2>4 DEF FlowSave
<1>12. ASSUME NEW r \in Requests, FlowClear(r) PROVE EndInv'
  <2>1. /\ stage[r] = "saved" /\ cur \in {r, Nil} /\ cur' = Nil /\ stage' = [stage EXCEPT ![r] = "over"]
        /\ UNCHANGED <<db, acc, phone, pc>>
    BY <1>12 DEF FlowClear, LoginInv, Over, diskVars, reqVars
  <2>2. phone[r] \in Actives /\ \A q \in Requests : acc[q].status # "error"
    BY <2>1 DEF EndInv
  <2> QED
    BY <2>1, <2>2 DEF EndInv, Actives
<1>13. ASSUME NEW r \in Requests, Show(r) \/ Hide(r) PROVE EndInv'
  BY <1>1, <1>13 DEF Show, Hide, diskVars, credVars, reqVars
<1>14. CASE Start \/ UNCHANGED vars
  BY <1>1, <1>14 DEF Start, vars, diskVars, credVars, reqVars
<1> QED
  BY <1>2, <1>3, <1>4, <1>5, <1>6, <1>7, <1>8, <1>9, <1>10, <1>11, <1>12, <1>13, <1>14
     DEF Next, Request, RequestGoesOn, Login, Crash, LoginPanic, FlowError, FlowActive, FlowSave

\* For any number of requests and phones: a login ends with its account saved as active or with
\* the failed account left in work, where it keeps every other from being created
\* (creator.go:90-136, controller.go:462).
THEOREM FailuresBlock == Spec => []FailureBlocksCreation
<1> DEFINE Ends == ~overlapped => EndInv
<1>1. Init => NewInv /\ Ends
  BY DEF Init, NewInv, EndInv, NoDoc
<1>2. IInv /\ NewInv /\ Ends /\ [Next]_vars => Ends'
  BY EndInvStep, OverlapStays
<1>3. Ends => FailureBlocksCreation
  BY DEF EndInv, FailureBlocksCreation
<1> QED
  BY <1>1, <1>2, <1>3, NewInvStep, Invariance, PTL DEF Spec
===============================================================================

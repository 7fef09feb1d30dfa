----------------------------- MODULE LoginStages -----------------------------
(***************************************************************************)
(* The stages of one Telegram login, as the account-creation page sees it. *)
(***************************************************************************)

\* Where each stage may lead.  An answer is taken only by the question that
\* is open, and only a login that is working (no question open) may end.
Moves ==
    [ starting      |-> {"askCode", "askPassword", "ok", "failed", "panic"},
      askCode       |-> {"checkCode"},
      checkCode     |-> {"askPassword", "ok", "failed"},
      askPassword   |-> {"checkPassword"},
      checkPassword |-> {"ok", "failed"},
      ok            |-> {},
      failed        |-> {},
      panic         |-> {} ]

Stages == DOMAIN Moves

\* TDLib is working: no question is open.
Working == {"starting", "checkCode", "checkPassword"}

\* The operator is asked for something.
Asking == {"askCode", "askPassword"}
==============================================================================

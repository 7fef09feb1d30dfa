----------------------------- MODULE AuthSession -----------------------------
(***************************************************************************)
(* What one Telegram login promises to the account-creation page: TDLib    *)
(* may ask for a code and then for a password, each question is answered   *)
(* by exactly one value, and the login ends, well or badly, only while no  *)
(* question is open.  Authorizer.tla implements it with two goroutines and *)
(* four channels; AccountCreation.tla moves every login along its stages.  *)
(***************************************************************************)
EXTENDS LoginStages

VARIABLE stage    \* where the login stands

Init == stage = "starting"

Next == stage' \in Moves[stage]

Spec == Init /\ [][Next]_stage
==============================================================================

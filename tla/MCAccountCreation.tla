-------------------------- MODULE MCAccountCreation --------------------------
(* Three requests and two phones: two logins and an answer, or a login that *)
(* is continued, its request and its crash in any order.                    *)
EXTENDS AccountCreation, TLC

\* Requests are interchangeable, and so are phones.
Symmetry == Permutations(Requests) \union Permutations(Phones)
==============================================================================

------------------------------ MODULE MCChatPage ------------------------------
(* A chat in two folders: a page that looks for it in one after the other, while it moves
   between them, a folder is refreshed, or an update writes both its rows. *)
EXTENDS ChatPage, TLC

\* The two folders are interchangeable.
Symmetry == Permutations(Lists)
===============================================================================

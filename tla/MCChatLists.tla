------------------------------ MODULE MCChatLists ------------------------------
EXTENDS ChatLists, TLC

\* Chats and requests are interchangeable.
Symmetry == Permutations(Chats) \union Permutations(Requests)
=============================================================================

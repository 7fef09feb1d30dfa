----------------------------- MODULE MCChatFolders -----------------------------
(* Two folders and two handlers: the least in which a handler misses what another one saves. *)
EXTENDS ChatFolders
=============================================================================

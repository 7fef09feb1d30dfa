------------------------------ MODULE MCReadMarks ------------------------------
(* Two messages, each a join or not: a message before a join, after it, or a second join.
   One other caller of GetChat and a custom routine beside them.
   The safety of any number of all of these is proved in ReadMarksProofs. *)
EXTENDS ReadMarks
=============================================================================

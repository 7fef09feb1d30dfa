---------------------------- MODULE MCPatternDelete ----------------------------
(* Four messages and a page of three: pages that are left early and read to their end, a match
   on a page after one without, messages that arrive above the scan. *)
EXTENDS PatternDelete
=============================================================================

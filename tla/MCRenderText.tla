------------------------------ MODULE MCRenderText ------------------------------
(* Texts of up to four characters, and up to four entities: three of one range, two
   side by side, one within another with plain text around. *)
EXTENDS RenderText
=============================================================================

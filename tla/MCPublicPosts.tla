----------------------------- MODULE MCPublicPosts -----------------------------
(* Two pages, of which the first has a forward only; a post that links
   to another found one and to one outside, which links on.  A limit of 2 is reached, one of 3 only
   by going through the pages again. *)
EXTENDS PublicPosts

CONSTANTS p1, p2, p3, p4, p5

MCPages == <<{p1}, {p2, p3}>>
MCLinks == [p \in Posts |-> CASE p = p2 -> {p3, p4} [] p = p4 -> {p5} [] OTHER -> {}]
=============================================================================

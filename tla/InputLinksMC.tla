---------------------------- MODULE InputLinksMC ----------------------------
(***************************************************************************)
(* Small models of InputLinks: numbers of both signs and zero.             *)
(***************************************************************************)
EXTENDS InputLinks

SmallNumbers == -1 .. 2
=============================================================================

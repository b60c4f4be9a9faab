----------------------------- MODULE MCDirectory -----------------------------
(***************************************************************************)
(* Directory for TLC.  Two sessions of the admin interface, one of which   *)
(* may take the rights of the other, are interchangeable.                  *)
(***************************************************************************)
EXTENDS Directory, TLC

Sessions == Permutations(Browsers)
==============================================================================

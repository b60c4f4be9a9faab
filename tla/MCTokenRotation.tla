--------------------------- MODULE MCTokenRotation ---------------------------
(***************************************************************************)
(* TokenRotation for TLC.  Requests are interchangeable: no action or      *)
(* property singles one out.                                               *)
(***************************************************************************)
EXTENDS TokenRotation, TLC

RequestSymmetry == Permutations(Requests)
==============================================================================

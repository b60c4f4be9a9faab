------------------------------ MODULE MCAccounts ------------------------------
(***************************************************************************)
(* Accounts for TLC.  Nothing tells requests, addresses, spellings or      *)
(* existing accounts apart but their names.                                *)
(***************************************************************************)
EXTENDS Accounts, TLC

Symmetry == Permutations(Requests) \cup Permutations(Existing)
              \cup Permutations(Addresses) \cup Permutations(Spellings)

\* Registrations only: what goes wrong between them needs no staff edit.
SpecWithoutStaff == Init /\ [][Next /\ ~Staff]_vars
==============================================================================

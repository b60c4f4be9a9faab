--------------------------- MODULE SingleUseTokens ---------------------------
(***************************************************************************)
(* What docs/api-contract.md ("Refresh tokens rotate") promises a client:  *)
(* a refresh token is valid from the moment it is issued until the one     *)
(* refresh that spends it, which issues its successor in the same step; a  *)
(* token that was spent or withdrawn never comes back.  There are no       *)
(* requests, statements or locks here: the module TokenRotation has them,  *)
(* and implements this specification when its clients serialise.           *)
(***************************************************************************)
CONSTANTS
  Tokens,    \* every refresh token that can exist
  Stored     \* the ones issued before the behaviour starts

VARIABLE status

States == {"unissued", "valid", "spent", "gone"}

\* An issued token leaves the table in this step.
Forgotten(t) == status[t] \in {"valid", "spent"} /\ status'[t] = "gone"

Init == status = [t \in Tokens |-> IF t \in Stored THEN "valid" ELSE "unissued"]

\* A login issues a new token and touches no other.
Issue(new) ==
  /\ status[new] = "unissued"
  /\ status' = [status EXCEPT ![new] = "valid"]

\* A refresh spends a valid token and issues its successor in one step, which
\* may also forget expired tokens, the spent one included.
Rotate(old, new) ==
  /\ status[old] = "valid" /\ status'[old] \in {"spent", "gone"}
  /\ status[new] = "unissued" /\ status'[new] = "valid"
  /\ \A t \in Tokens \ {old, new} : status'[t] = status[t] \/ Forgotten(t)
  /\ status' \in [Tokens -> States]

\* Staff delete a token, or an account with all its tokens.
Withdraw ==
  /\ \A t \in Tokens : status'[t] = status[t] \/ Forgotten(t)
  /\ status' \in [Tokens -> States]

Next ==
  \/ \E new \in Tokens : Issue(new)
  \/ \E old, new \in Tokens : Rotate(old, new)
  \/ Withdraw

Spec == Init /\ [][Next]_status
==============================================================================

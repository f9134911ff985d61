--------------------------- MODULE MCControlPlane ---------------------------
(* One connected system, two requests of it and an operator, one key that a  *)
(* client may reuse with another payload.  The service starts from an empty  *)
(* file or from the one an activation leaves.                                *)
EXTENDS ControlPlane, TLC
CONSTANTS c1, r1, r2, operator, k1, b1, b2
OneSystem == {c1}
Requests == {r1, r2, operator}
OneKey == {k1}
TwoBodies == {b1, b2}
Plain(op) == [op |-> op, connector |-> c1, key |-> NoKey, body |-> b1]
Keyed(op, b) == [op |-> op, connector |-> c1, key |-> k1, body |-> b]
Messages ==
  {Plain(op) : op \in {"REGISTER_SYSTEM", "CERTIFY_SYSTEM", "REGISTER_DOMAIN", "ACTIVATE_DOMAIN",
                       "REGISTER_IDENTITY", "SUSPEND_SYSTEM", "RESUME_SYSTEM", "REVOKE_SYSTEM",
                       "DEACTIVATE_DOMAIN"} \union Reads}
  \union {Keyed("PUBLISH_LIFECYCLE_EVENT", b) : b \in TwoBodies}
  \union {Keyed("SUSPEND_SYSTEM", b1)}
Activated == [EmptyFile EXCEPT !.system[c1] = [status |-> "ACTIVE", certification |-> "CERTIFIED"],
                               !.domain[c1] = "ACTIVE", !.identities = {c1}]
Symmetry == Permutations({r1, r2})
Files == {EmptyFile, Activated}
=============================================================================

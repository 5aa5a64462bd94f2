-------------------------- MODULE MCBastionGrants --------------------------
(***************************************************************************)
(* A small installation: Ann approves everywhere, Sam approves only outside *)
(* prod, both may also ask for access.  One asset moves between dev and     *)
(* prod and may be deleted; Ann may lose or regain her role.                *)
(***************************************************************************)
EXTENDS BastionGrants, TLC

MCUser      == {"ann", "sam"}
MCDimension == {"env"}
MCValue     == {"dev", "prod"}
MCAlias     == {"ann"}
MCRole      == {"approver", "devApprover", "requester"}

NotProd == {[dim |-> "env", op |-> "not_in", values |-> {"prod"}]}

MCRolePerms ==
  [r \in MCRole |->
     CASE r = "approver"    -> {[perm |-> "bastion.grant:write", scope |-> {}]}
       [] r = "devApprover" -> {[perm |-> "bastion.grant:write", scope |-> NotProd]}
       [] r = "requester"   -> {[perm |-> "bastion.request:write", scope |-> {}]}]

MCInitRoles == [u \in MCUser |->
                  IF u = "ann" THEN {"approver", "requester"}
                               ELSE {"devApprover", "requester"}]
MCRoleEdits == {<<"ann", "approver">>}
Attr(e)     == [d \in MCDimension |-> e]
MCInitAttrs == [a \in Asset |-> Attr("dev")]
MCEditAttrs == {Attr("dev"), Attr("prod")}
NoDurations == {}
MCDurations == {0, 2}      \* missing, and one above the cap

Symmetry == Permutations(Call) \cup Permutations(Grant)

=============================================================================

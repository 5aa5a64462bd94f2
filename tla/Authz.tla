------------------------------- MODULE Authz -------------------------------
(***************************************************************************)
(* The capability evaluator of internal/iam: what a user's role bindings    *)
(* amount to (IdentityForUser) and what an identity may do to a concrete    *)
(* resource (Authorize).  Every gate of the product is built from these     *)
(* operators.                                                               *)
(*                                                                          *)
(* A scope value is compared by the code after trimming and case folding;   *)
(* a member of Value stands for one such class of spellings.  Sources and   *)
(* reasons, which only decorate a Decision, are left out.                   *)
(***************************************************************************)

CONSTANTS Dimension,   \* resource attributes a scope can constrain (env, source)
          Value,       \* values of those attributes
          None         \* "no value": SQL NULL, Go nil

(* The permissions the modelled routes ask for, "resource:action".         *)
Perm == {"system:admin", "bastion.grant:write", "bastion.request:write",
         "bastion.session:connect", "cmdb.asset:read"}

(* One entry of scope_json; "unknown" is any operator the code rejects.    *)
ScopeConstraint == [dim: Dimension, op: {"in", "eq", "not_in", "unknown"},
                    values: SUBSET Value]
Scope == SUBSET ScopeConstraint            \* the empty scope is "unscoped"

(* A row of iam_role_permission.                                            *)
RolePermission == [perm: Perm, scope: Scope]

(* What a user holds of one permission (Permissions + ScopedPermissions).   *)
Holding == [held: BOOLEAN, unscoped: BOOLEAN, scopes: SUBSET Scope]
Identity == [Perm -> Holding]

(* A concrete resource has every attribute; None asks the general question. *)
ResourceAttrs == [Dimension -> Value]

-----------------------------------------------------------------------------
constraintMatches(c, attrs) ==
  LET ok == c.dim \in DOMAIN attrs
  IN  \/ c.op \in {"in", "eq"} /\ ok /\ attrs[c.dim] \in c.values
      \/ c.op = "not_in" /\ (ok => attrs[c.dim] \notin c.values)

Matches(scope, attrs) == \A c \in scope : constraintMatches(c, attrs)

(* An unscoped row from any role wins over the scoped ones.                 *)
IdentityForUser(rows) ==
  [p \in Perm |->
     LET mine     == {row \in rows : row.perm = p}
         unscoped == \E row \in mine : row.scope = {}
     IN  [held     |-> mine # {},
          unscoped |-> unscoped,
          scopes   |-> IF unscoped THEN {} ELSE {row.scope : row \in mine}]]

IsAdmin(id) == id["system:admin"].held

(* The coarse route gate: a scoped holder passes it too.                    *)
RequirePermission(id, p) == IsAdmin(id) \/ id[p].held

(* Decision.Partial says "allowed, but only within a scope".                *)
Authorize(id, p, attrs) ==
  IF IsAdmin(id)              THEN [allowed |-> TRUE,  partial |-> FALSE]
  ELSE IF ~ id[p].held        THEN [allowed |-> FALSE, partial |-> FALSE]
  ELSE IF id[p].unscoped      THEN [allowed |-> TRUE,  partial |-> FALSE]
  ELSE IF attrs = None        THEN [allowed |-> TRUE,  partial |-> TRUE]
  ELSE [allowed |-> \E scope \in id[p].scopes : Matches(scope, attrs),
        partial |-> TRUE]

(* The check both bastion gates make: a scoped holder is refused when the   *)
(* resource could not be resolved (attrs = None).                           *)
AdmitsAsset(id, p, attrs) ==
  LET dec == Authorize(id, p, attrs)
  IN  dec.allowed /\ (attrs # None \/ ~ dec.partial)

(* The policy both are meant to enforce, said without identities, decisions *)
(* or their special cases: some role row admits this very resource.         *)
MayAct(rows, p, attrs) ==
  \E row \in rows :
    \/ row.perm = "system:admin"
    \/ row.perm = p /\ (row.scope = {} \/ (attrs # None /\ Matches(row.scope, attrs)))

=============================================================================

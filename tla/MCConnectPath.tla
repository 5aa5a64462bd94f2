--------------------------- MODULE MCConnectPath ---------------------------
(***************************************************************************)
(* Bob may connect outside prod by role, or anywhere by a grant from Eve.   *)
(* He may become an administrator or stop being one; the asset moves to     *)
(* prod or is deleted while ticket requests are in flight.                  *)
(***************************************************************************)
EXTENDS ConnectPath

MCUser      == {"bob", "eve"}
MCDimension == {"env"}
MCValue     == {"dev", "prod"}
MCRole      == {"viewer", "devConnect", "admin"}

NotProd == {[dim |-> "env", op |-> "not_in", values |-> {"prod"}]}
Viewer  == [perm |-> "cmdb.asset:read", scope |-> {}]

MCRolePerms ==
  [r \in MCRole |->
     CASE r = "viewer"     -> {Viewer}
       [] r = "devConnect" -> {[perm |-> "bastion.session:connect",
                                scope |-> NotProd]}
       [] r = "admin"      -> {[perm |-> "system:admin", scope |-> {}]}]

MCInitRoles == [u \in MCUser |-> IF u = "bob" THEN {"viewer", "devConnect"}
                                              ELSE {}]
BobIsAdmin  == {<<"bob", "admin">>}
NoRoleEdits == {}

Attr(e)     == [d \in MCDimension |-> e]
MCInitAttrs == [a \in Asset |-> Attr("dev")]
MCAssetEdits == {Attr("dev"), Attr("prod"), None}
NoEdits     == {}

=============================================================================

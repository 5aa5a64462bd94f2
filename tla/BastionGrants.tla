--------------------------- MODULE BastionGrants ---------------------------
(***************************************************************************)
(* Just-in-time bastion access: the bastion_request and bastion_grant       *)
(* tables and the HTTP handlers that work on them (internal/bastion).       *)
(*                                                                          *)
(* A handler in flight is a member of Call.  It reads the caller's identity *)
(* once, in the auth middleware, and then talks to PostgreSQL one statement *)
(* or transaction at a time; between two of those steps anything else may   *)
(* happen: another handler, a role edit, an asset edit, the clock.  A       *)
(* request answered with an error leaves no trace.                          *)
(*                                                                          *)
(* An id names at most one row.  PostgreSQL accepts other spellings of a    *)
(* uuid than the one it prints (capitals, braces, no hyphens); it matters   *)
(* where a client's text is compared before it is cast, in createGrant.     *)
(***************************************************************************)
EXTENDS Authz, Naturals

CONSTANTS User, Asset, Request, Grant, Call,
          Role,              \* role names
          RolePerms,         \* iam_role_permission: role -> set of rows
          InitRoles,         \* iam_user_role_binding at start: user -> roles
          RoleEdits,         \* the (user, role) bindings an administrator edits
          InitAttrs,         \* env and source of each asset at start
          EditAttrs,         \* the attribute values an asset edit may write
          DefaultDuration, MaxDuration,
          Alias,             \* the users whose id clients also spell otherwise
          GrantDurations,    \* duration_seconds values sent to createGrant
          RequestDurations,  \* duration_seconds values sent to createRequest
          MaxNow             \* bound on the clock

ASSUME DurationAssumption ==
  /\ DefaultDuration \in Nat \ {0}
  /\ MaxDuration \in Nat
  /\ GrantDurations \subseteq Nat
  /\ RequestDurations \subseteq Nat
  /\ MaxNow \in Nat

ASSUME RoleAssumption ==
  /\ RolePerms \in [Role -> SUBSET RolePermission]
  /\ InitRoles \in [User -> SUBSET Role]
  /\ RoleEdits \subseteq User \X Role
  /\ InitAttrs \in [Asset -> ResourceAttrs]
  /\ EditAttrs \subseteq ResourceAttrs
  /\ Alias \subseteq User

ASSUME NoneAssumption ==
  None \notin User \cup Asset \cup Request \cup Grant \cup ResourceAttrs

VARIABLES
  now,       \* wall clock, shared by the API server and the database
  roles,     \* iam_user_role_binding
  attrs,     \* cmdb_asset: env and source of each asset, None once deleted
  requests,  \* bastion_request
  grants,    \* bastion_grant
  calls,     \* the handlers in flight
  raced      \* history: calls whose caller's roles or whose asset changed
             \* since they began

vars == <<now, roles, attrs, requests, grants, calls, raced>>
db   == <<requests, grants>>
env  == <<now, roles, attrs>>

-----------------------------------------------------------------------------
(* Rows and calls.                                                          *)

RequestRow == [status: {"none", "pending", "approved", "rejected", "cancelled"},
               user: User \cup {None}, asset: Asset \cup {None}, duration: Nat,
               decidedBy: User \cup {None}, grant: Grant \cup {None}]

NoRequest == [status |-> "none", user |-> None, asset |-> None, duration |-> 0,
              decidedBy |-> None, grant |-> None]

GrantRow == [status: {"none", "live", "revoked"},
             user: User \cup {None}, asset: Asset \cup {None},
             grantedBy: User \cup {None}, expires: Nat, revokedAt: Nat,
             request: Request \cup {None},
             alias: BOOLEAN]     \* history: the holder was named otherwise

NoGrant == [status |-> "none", user |-> None, asset |-> None,
            grantedBy |-> None, expires |-> 0, revokedAt |-> 0,
            request |-> None, alias |-> FALSE]

(* "begun": identity read, coarse permission held.  "checked": the asset's  *)
(* scope admitted the caller.  "locked": inside ApproveRequest's            *)
(* transaction, holding the request row FOR UPDATE.                         *)
CallState == [pc: {"idle", "begun", "checked", "locked"},
              op: {"none", "createGrant", "revokeGrant", "createRequest",
                   "cancel", "approve", "reject"},
              user: User \cup {None}, id: Identity \cup {None},
              subject: User \cup {None}, asset: Asset \cup {None},
              request: Request \cup {None}, grant: Grant \cup {None},
              duration: Nat, expires: Nat,
              alias: BOOLEAN]    \* subject is not spelled as the database does

Idle == [pc |-> "idle", op |-> "none", user |-> None, id |-> None,
         subject |-> None, asset |-> None, request |-> None, grant |-> None,
         duration |-> 0, expires |-> 0, alias |-> FALSE]

TypeOK ==
  /\ now \in Nat
  /\ roles \in [User -> SUBSET Role]
  /\ attrs \in [Asset -> ResourceAttrs \cup {None}]
  /\ requests \in [Request -> RequestRow]
  /\ \A r \in Request : requests[r].status # "none" =>
       requests[r].user # None /\ requests[r].asset # None
  /\ grants \in [Grant -> GrantRow]
  /\ \A g \in Grant : grants[g].status # "none" =>
       None \notin {grants[g].user, grants[g].asset, grants[g].grantedBy}
  /\ calls \in [Call -> CallState]
  /\ raced \subseteq Call

Init ==
  /\ now = 0
  /\ roles = InitRoles
  /\ attrs = InitAttrs
  /\ requests = [r \in Request |-> NoRequest]
  /\ grants = [g \in Grant |-> NoGrant]
  /\ calls = [c \in Call |-> Idle]
  /\ raced = {}

-----------------------------------------------------------------------------
(* Helpers.                                                                 *)

RowsOf(u) == UNION {RolePerms[r] : r \in roles[u]}

CurrentIdentity(u) == IdentityForUser(RowsOf(u))

(* The asset row as the scope queries see it: None when soft deleted.       *)
AssetScopeAttrs(a) == attrs[a]

RequestAssetScopeAttrs(r) ==
  IF requests[r].status = "none" THEN None ELSE attrs[requests[r].asset]

(* Mutant: the decision alone, without the fail-closed case.                *)
EnforceGrantScopeOpen(id, assetAttrs) ==
  Authorize(id, "bastion.grant:write", assetAttrs).allowed

EnforceGrantScope(id, assetAttrs) ==
  AdmitsAsset(id, "bastion.grant:write", assetAttrs)

(* duration_seconds <= 0 means the default.                                 *)
EffectiveDuration(d) == IF d = 0 THEN DefaultDuration ELSE d

(* Mutant: the cap off by one.                                              *)
WithinCapLoose(d) == EffectiveDuration(d) <= MaxDuration + 1

WithinCap(d) == EffectiveDuration(d) <= MaxDuration

(* The text of a user id: whose id it is, and whether it is spelled as the  *)
(* database prints it, which is how the identity of a caller has it.        *)
TextOf(u) == [id |-> u, canonical |-> TRUE]
UserText  == {TextOf(u) : u \in User} \cup
             {[id |-> u, canonical |-> FALSE] : u \in Alias}

(* Mutant: no self check.                                                   *)
IsSelfNever(text, u) == FALSE

(* Strings are compared: another spelling of the caller's id is not "self". *)
IsSelf(text, u) == text = TextOf(u)

(* Mutant: the row is read without FOR UPDATE.                              *)
RowLockedNever(r) == FALSE

(* A row lock is held from SELECT ... FOR UPDATE to COMMIT or ROLLBACK.     *)
RowLocked(r) ==
  \E c \in Call : calls[c].pc = "locked" /\ calls[c].request = r

(* The call answers its client and is gone.                                 *)
Return(c) == /\ calls' = [calls EXCEPT ![c] = Idle]
             /\ raced' = raced \ {c}

Goto(c, call) == /\ calls' = [calls EXCEPT ![c] = call]
                 /\ UNCHANGED raced

(* AuthMiddleware and RequirePermission: the identity is read once, here.   *)
Begin(c, u, perm, call) ==
  LET id == CurrentIdentity(u)
  IN  /\ calls[c].pc = "idle"
      /\ RequirePermission(id, perm)
      /\ Goto(c, [call EXCEPT !.pc = "begun", !.user = u, !.id = id])
      /\ UNCHANGED <<env, db>>

AtStep(c, op, pc) == calls[c].op = op /\ calls[c].pc = pc

-----------------------------------------------------------------------------
(* createGrant: a direct grant by an approver.                              *)

(* user_id is the client's text; the INSERT casts it to uuid.               *)
BeginCreateGrant(c, u, text, a, d) ==
  /\ ~ IsSelf(text, u)                               \* ErrSelfGrantDenied
  /\ Begin(c, u, "bastion.grant:write",
           [Idle EXCEPT !.op = "createGrant", !.subject = text.id,
                        !.alias = ~ text.canonical,
                        !.asset = a, !.duration = d])

CheckCreateGrant(c) ==
  LET call == calls[c]
  IN  /\ AtStep(c, "createGrant", "begun")
      /\ IF /\ EnforceGrantScope(call.id, AssetScopeAttrs(call.asset))
            /\ WithinCap(call.duration)
         THEN Goto(c, [call EXCEPT !.pc = "checked",
                         !.expires = now + EffectiveDuration(call.duration)])
         ELSE Return(c)
      /\ UNCHANGED <<env, db>>

InsertGrant(c, g) ==
  LET call == calls[c]
  IN  /\ AtStep(c, "createGrant", "checked")
      /\ grants[g].status = "none"
      /\ grants' = [grants EXCEPT ![g] =
                      [status |-> "live", user |-> call.subject,
                       asset |-> call.asset, grantedBy |-> call.user,
                       expires |-> call.expires, revokedAt |-> 0,
                       request |-> None, alias |-> call.alias]]
      /\ Return(c)
      /\ UNCHANGED <<env, requests>>

-----------------------------------------------------------------------------
(* revokeGrant: coarse permission only, one conditional UPDATE.             *)

BeginRevokeGrant(c, u, g) ==
  Begin(c, u, "bastion.grant:write",
        [Idle EXCEPT !.op = "revokeGrant", !.grant = g])

(* Mutant: no revoked_at IS NULL.                                           *)
RevocableAgain(g) == grants[g].status # "none"

Revocable(g) == grants[g].status = "live"

RevokeGrant(c) ==
  LET g == calls[c].grant
  IN  /\ AtStep(c, "revokeGrant", "begun")
      /\ grants' = IF Revocable(g)
                   THEN [grants EXCEPT ![g].status = "revoked",
                                       ![g].revokedAt = now]
                   ELSE grants                       \* ErrGrantNotFound
      /\ Return(c)
      /\ UNCHANGED <<env, requests>>

-----------------------------------------------------------------------------
(* createRequest and cancelRequest: the requester's side.                   *)

BeginCreateRequest(c, u, a, d) ==
  /\ WithinCap(d)
  /\ Begin(c, u, "bastion.request:write",
           [Idle EXCEPT !.op = "createRequest", !.asset = a,
                        !.duration = EffectiveDuration(d)])

CreateRequest(c, r) ==
  LET call == calls[c]
  IN  /\ AtStep(c, "createRequest", "begun")
      /\ requests[r].status = "none"
      /\ requests' = [requests EXCEPT ![r] =
                        [NoRequest EXCEPT !.status = "pending",
                                          !.user = call.user,
                                          !.asset = call.asset,
                                          !.duration = call.duration]]
      /\ Return(c)
      /\ UNCHANGED <<env, grants>>

BeginCancelRequest(c, u, r) ==
  Begin(c, u, "bastion.request:write",
        [Idle EXCEPT !.op = "cancel", !.request = r])

(* The UPDATE waits for a row lock and then re-evaluates its WHERE clause.  *)
CancelRequest(c) ==
  LET r == calls[c].request
  IN  /\ AtStep(c, "cancel", "begun")
      /\ ~ RowLocked(r)
      /\ requests' = IF /\ requests[r].status = "pending"
                        /\ requests[r].user = calls[c].user
                     THEN [requests EXCEPT ![r].status = "cancelled"]
                     ELSE requests                   \* ErrRequestNotPending
      /\ Return(c)
      /\ UNCHANGED <<env, grants>>

-----------------------------------------------------------------------------
(* rejectRequest: coarse permission only, one conditional UPDATE.           *)

BeginRejectRequest(c, u, r) ==
  Begin(c, u, "bastion.grant:write",
        [Idle EXCEPT !.op = "reject", !.request = r])

RejectRequest(c) ==
  LET r == calls[c].request
  IN  /\ AtStep(c, "reject", "begun")
      /\ ~ RowLocked(r)
      /\ requests' = IF requests[r].status = "pending"
                     THEN [requests EXCEPT ![r].status = "rejected",
                                           ![r].decidedBy = calls[c].user]
                     ELSE requests                   \* ErrRequestNotPending
      /\ Return(c)
      /\ UNCHANGED <<env, grants>>

-----------------------------------------------------------------------------
(* approveRequest: scope check outside the transaction, then the            *)
(* transaction that locks the request, inserts the grant and links the two. *)

BeginApproveRequest(c, u, r) ==
  Begin(c, u, "bastion.grant:write",
        [Idle EXCEPT !.op = "approve", !.request = r])

CheckApproveRequest(c) ==
  LET call == calls[c]
  IN  /\ AtStep(c, "approve", "begun")
      /\ IF EnforceGrantScope(call.id, RequestAssetScopeAttrs(call.request))
         THEN Goto(c, [call EXCEPT !.pc = "checked"])
         ELSE Return(c)
      /\ UNCHANGED <<env, db>>

(* Mutant: the status of the locked row is not looked at.                   *)
ApprovableAnyStatus(r, u) == ~ IsSelf(TextOf(requests[r].user), u)

(* What ApproveRequest demands of the row it has just locked.  Both ids     *)
(* come from the database here.                                             *)
Approvable(r, u) ==
  requests[r].status = "pending" /\ ~ IsSelf(TextOf(requests[r].user), u)

LockRequest(c) ==
  LET call == calls[c]
      row  == requests[call.request]
  IN  /\ AtStep(c, "approve", "checked")
      /\ ~ RowLocked(call.request)
      /\ IF Approvable(call.request, call.user)
         THEN Goto(c, [call EXCEPT !.pc = "locked",
                                   !.expires = now + row.duration])
         ELSE Return(c)
      /\ UNCHANGED <<env, db>>

CommitApproval(c, g) ==
  LET call == calls[c]
      r    == call.request
      row  == requests[r]
  IN  /\ AtStep(c, "approve", "locked")
      /\ grants[g].status = "none"
      /\ grants' = [grants EXCEPT ![g] =
                      [status |-> "live", user |-> row.user,
                       asset |-> row.asset, grantedBy |-> call.user,
                       expires |-> call.expires, revokedAt |-> 0,
                       request |-> r, alias |-> FALSE]]
      /\ requests' = [requests EXCEPT ![r].status = "approved",
                                      ![r].decidedBy = call.user,
                                      ![r].grant = g]
      /\ Return(c)
      /\ UNCHANGED env

(* A lost client, a database error or a crashed server ends a call at any   *)
(* step; an open transaction is rolled back and its lock released.          *)
Abort(c) ==
  /\ calls[c].pc # "idle"
  /\ Return(c)
  /\ UNCHANGED <<env, db>>

-----------------------------------------------------------------------------
(* The surroundings: the clock, role bindings and the CMDB.                 *)

Tick ==
  /\ now < MaxNow
  /\ now' = now + 1
  /\ UNCHANGED <<roles, attrs, db, calls, raced>>

EditRoles(u, new) ==
  /\ roles[u] # new
  /\ roles' = [roles EXCEPT ![u] = new]
  /\ raced' = raced \cup {c \in Call : calls[c].user = u}
  /\ UNCHANGED <<now, attrs, db, calls>>

BindRoleToUser(u, r)     == EditRoles(u, roles[u] \cup {r})
UnbindRoleFromUser(u, r) == EditRoles(u, roles[u] \ {r})

TargetAsset(c) ==
  IF calls[c].request = None THEN calls[c].asset
                             ELSE requests[calls[c].request].asset

EditAsset(a, new) ==
  /\ attrs[a] # None
  /\ attrs[a] # new
  /\ attrs' = [attrs EXCEPT ![a] = new]
  /\ raced' = raced \cup {c \in Call : TargetAsset(c) = a}
  /\ UNCHANGED <<now, roles, db, calls>>

UpdateAsset(a, new) == EditAsset(a, new)
DeleteAsset(a)      == EditAsset(a, None)

-----------------------------------------------------------------------------
Serve(c) ==
  \/ \E u \in User, text \in UserText, a \in Asset, d \in GrantDurations :
       BeginCreateGrant(c, u, text, a, d)
  \/ \E u \in User, a \in Asset, d \in RequestDurations :
       BeginCreateRequest(c, u, a, d)
  \/ \E u \in User, g \in Grant : BeginRevokeGrant(c, u, g)
  \/ \E u \in User, r \in Request :
       \/ BeginCancelRequest(c, u, r)
       \/ BeginRejectRequest(c, u, r)
       \/ BeginApproveRequest(c, u, r)

Proceed(c) ==
  \/ CheckCreateGrant(c)
  \/ \E g \in Grant : InsertGrant(c, g) \/ CommitApproval(c, g)
  \/ RevokeGrant(c)
  \/ \E r \in Request : CreateRequest(c, r)
  \/ CancelRequest(c)
  \/ RejectRequest(c)
  \/ CheckApproveRequest(c)
  \/ LockRequest(c)

Environment ==
  \/ Tick
  \/ \E e \in RoleEdits : \/ BindRoleToUser(e[1], e[2])
                          \/ UnbindRoleFromUser(e[1], e[2])
  \/ \E a \in Asset : \/ \E new \in EditAttrs : UpdateAsset(a, new)
                      \/ DeleteAsset(a)

Next ==
  \/ \E c \in Call : Serve(c) \/ Proceed(c) \/ Abort(c)
  \/ Environment

Spec == Init /\ [][Next]_vars

-----------------------------------------------------------------------------
(* Properties.                                                              *)

Issued(g) == grants[g].status # "none"

(* The two-person rule (ErrSelfApprovalDenied, ErrSelfGrantDenied): over    *)
(* both ways of creating a grant, whatever raced with them, nobody holds a  *)
(* grant he issued himself - on request never, and directly only if he was  *)
(* named in another spelling of his id, which createGrant does not          *)
(* recognise.                                                               *)
TwoPersonRule ==
  \A g \in Grant : Issued(g) =>
    \/ grants[g].grantedBy # grants[g].user
    \/ grants[g].alias /\ grants[g].request = None

(* ApproveRequest's transaction: a request is approved exactly when one     *)
(* grant names it, the two rows point at each other and agree on requester, *)
(* asset and decider.  Concurrent approvals of one request, or an approval  *)
(* racing a rejection or a cancellation, never leave a second grant or a    *)
(* grant for a request that was not approved.                               *)
ApprovalLinkage ==
  /\ \A r \in Request :
       requests[r].status = "approved" =>
         LET g == requests[r].grant
         IN  g # None /\ Issued(g) /\ grants[g].request = r
  /\ \A g \in Grant :
       Issued(g) /\ grants[g].request # None =>
         LET r == requests[grants[g].request]
         IN  /\ r.status = "approved"
             /\ r.grant = g
             /\ r.user = grants[g].user
             /\ r.asset = grants[g].asset
             /\ r.decidedBy = grants[g].grantedBy

(* The cap on grant lifetimes (maxDurationSecs, and the default for a       *)
(* missing duration): no grant reaches further than MaxDuration into the    *)
(* future, and one that answers a request no further than was asked for.    *)
GrantLifetime ==
  \A g \in Grant : Issued(g) =>
    /\ grants[g].expires <= now + MaxDuration
    /\ grants[g].request # None =>
         grants[g].expires <= now + requests[grants[g].request].duration

(* Rows are history: a decided request never changes again (the             *)
(* status = 'pending' guards and the row lock), an issued grant only ever   *)
(* goes from live to revoked, keeping who, what, by whom and until when.    *)
HistoryStep ==
  /\ \A r \in Request :
       requests[r].status \in {"approved", "rejected", "cancelled"} =>
         requests'[r] = requests[r]
  /\ \A g \in Grant :
       /\ grants[g].status = "revoked" => grants'[g] = grants[g]
       /\ grants[g].status = "live" =>
            \/ grants'[g] = grants[g]
            \/ grants'[g] = [grants[g] EXCEPT !.status = "revoked",
                                              !.revokedAt = now]

(* No step of any handler rewrites history.                                 *)
HistoryFinal == [][HistoryStep]_vars

(* enforceGrantScope at both access-creating boundaries: when neither the   *)
(* approver's roles nor the asset changed while the call was in flight, the *)
(* grant that appears is one the policy (MayAct) lets the approver create   *)
(* at that moment, also when the asset is already deleted.                  *)
ScopeEnforced ==
  [][\A g \in Grant :
       ~ Issued(g) /\ grants'[g].status # "none" =>
         \E c \in Call :
           /\ calls[c].pc # "idle" /\ calls'[c] = Idle
           /\ c \in raced \/ MayAct(RowsOf(grants'[g].grantedBy),
                                   "bastion.grant:write",
                                   attrs[grants'[g].asset])]_vars

(* What a call in flight has established and nobody else can undo: its      *)
(* arguments are there, a grant it is about to insert is for somebody else, *)
(* or for one who was named otherwise, and within the cap, and a request it *)
(* has locked is its alone and still approvable.  The safety properties are *)
(* inductive only together with it.                                         *)
CallOK(call) ==
  /\ call.op # "none" => call.user # None
  /\ call.op = "createGrant" =>
       /\ call.subject # None /\ call.asset # None
       /\ call.subject # call.user \/ call.alias
       /\ call.pc = "checked" => call.expires <= now + MaxDuration
  /\ call.op = "createRequest" =>
       call.asset # None /\ call.duration <= MaxDuration
  /\ call.op = "revokeGrant" => call.grant # None
  /\ call.op \in {"cancel", "reject", "approve"} => call.request # None
  /\ call.pc = "locked" =>
       /\ call.op = "approve"
       /\ Approvable(call.request, call.user)
       /\ call.expires <= now + requests[call.request].duration

LocksExclusive ==
  \A c, d \in Call :
    /\ calls[c].pc = "locked" /\ calls[d].pc = "locked"
    /\ calls[c].request = calls[d].request
    => c = d

CallInv ==
  /\ \A c \in Call : CallOK(calls[c])
  /\ LocksExclusive
  /\ \A r \in Request : requests[r].duration <= MaxDuration

Inv == TypeOK /\ CallInv /\ TwoPersonRule /\ ApprovalLinkage /\ GrantLifetime

(* The refinement mapping: a request is open while pending, a grant is      *)
(* access on the authority of its granter.                                  *)
ClaimState(status) ==
  CASE status = "none"    -> "none"
    [] status = "pending" -> "open"
    [] OTHER              -> "closed"

AccessState(status) == IF status = "revoked" THEN "withdrawn" ELSE status

Jit == INSTANCE JitAccess WITH
  clock  <- now,
  claims <- [r \in Request |-> [state |-> ClaimState(requests[r].status),
                                user  |-> requests[r].user,
                                asset |-> requests[r].asset]],
  access <- [g \in Grant |-> [state |-> AccessState(grants[g].status),
                              user  |-> grants[g].user,
                              asset |-> grants[g].asset,
                              by    |-> grants[g].grantedBy,
                              until |-> grants[g].expires,
                              alias |-> grants[g].alias]]

(* The handlers and their transactions implement just-in-time access:       *)
(* every step of any handler is one abstract step or none.                  *)
ImplementsJit == Jit!Spec

(* Direct grants: nobody issues one to himself under the id he has in the   *)
(* database, and none reaches beyond the cap (createGrant of                *)
(* bastion/handler.go).                                                     *)
DirectGrantsSafe == TwoPersonRule /\ GrantLifetime

(* Direct grants: every step of createGrant and revokeGrant is within the   *)
(* scope of the caller, leaves the past of a grant alone, and is a step of  *)
(* JitAccess.                                                               *)
DirectStepsSafe == HistoryFinal /\ ScopeEnforced /\ ImplementsJit

=============================================================================

------------------------ MODULE BastionGrantsProofs ------------------------
(***************************************************************************)
(* Machine-checked facts about BastionGrants, for any number of users,      *)
(* assets, requests, grants and concurrent handlers, any roles and any      *)
(* length of time.                                                          *)
(***************************************************************************)
EXTENDS BastionGrants, TLAPS

-----------------------------------------------------------------------------
(* The evaluator against the policy it is meant to enforce, for every set   *)
(* of role rows.                                                            *)

(* What IdentityForUser collects for one permission.                        *)
LEMMA HoldingOf ==
  ASSUME NEW rows, NEW p \in Perm
  PROVE  LET mine == {row \in rows : row.perm = p}
             h    == IdentityForUser(rows)[p]
         IN  /\ h.held <=> mine # {}
             /\ h.unscoped <=> \E row \in mine : row.scope = {}
             /\ ~ h.unscoped => h.scopes = {row.scope : row \in mine}
BY DEF IdentityForUser

(* What IdentityForUser makes of role rows is an identity.                  *)
LEMMA IdentityForUserType ==
  ASSUME NEW rows \in SUBSET RolePermission
  PROVE  IdentityForUser(rows) \in Identity
<1>1. ASSUME NEW p \in Perm
      PROVE  IdentityForUser(rows)[p] \in Holding
  BY DEF IdentityForUser, Holding, RolePermission
<1>2. QED
  BY <1>1 DEF IdentityForUser, Identity

(* The special cases of Authorize (admin, unscoped holders, the general     *)
(* question, fail-closed on a missing resource) add up to the policy: a     *)
(* gate built from IdentityForUser and AdmitsAsset lets exactly those in    *)
(* whom some role row admits.  In particular no combination of roles ever   *)
(* narrows what one of them allows.                                         *)
THEOREM EvaluatorIsPolicy ==
  ASSUME NEW rows, NEW p \in Perm, NEW av
  PROVE  AdmitsAsset(IdentityForUser(rows), p, av) <=> MayAct(rows, p, av)
<1> DEFINE id == IdentityForUser(rows)
<1>1. "system:admin" \in Perm
  BY DEF Perm
<1>2. IsAdmin(id) <=> \E row \in rows : row.perm = "system:admin"
  BY <1>1, HoldingOf DEF IsAdmin
<1>3. /\ id[p].held <=> \E row \in rows : row.perm = p
      /\ id[p].unscoped <=> \E row \in rows : row.perm = p /\ row.scope = {}
      /\ ~ id[p].unscoped =>
           id[p].scopes = {row.scope : row \in {r \in rows : r.perm = p}}
  <2> DEFINE mine == {r \in rows : r.perm = p}
  <2>1. /\ id[p].held <=> mine # {}
        /\ id[p].unscoped <=> \E row \in mine : row.scope = {}
    BY HoldingOf
  <2>2. ~ id[p].unscoped => id[p].scopes = {row.scope : row \in mine}
    BY HoldingOf
  <2>3. /\ mine # {} <=> \E row \in rows : row.perm = p
        /\ (\E row \in mine : row.scope = {}) <=>
             \E row \in rows : row.perm = p /\ row.scope = {}
    OBVIOUS
  <2> HIDE DEF id
  <2> QED BY <2>1, <2>2, <2>3
<1> HIDE DEF id
<1>4. CASE IsAdmin(id)
  BY <1>2, <1>4 DEF AdmitsAsset, Authorize, MayAct, id
<1>5. CASE ~ IsAdmin(id) /\ (~ id[p].held \/ id[p].unscoped \/ av = None)
  BY <1>2, <1>3, <1>5 DEF AdmitsAsset, Authorize, MayAct, id
<1>6. CASE ~ IsAdmin(id) /\ id[p].held /\ ~ id[p].unscoped /\ av # None
  <2>1. AdmitsAsset(id, p, av) <=>
          \E scope \in id[p].scopes : Matches(scope, av)
    BY <1>6 DEF AdmitsAsset, Authorize
  <2>2. MayAct(rows, p, av) <=>
          \E row \in rows : row.perm = p /\ Matches(row.scope, av)
    BY <1>2, <1>3, <1>6 DEF MayAct
  <2>3. (\E scope \in id[p].scopes : Matches(scope, av)) <=>
          \E row \in rows : row.perm = p /\ Matches(row.scope, av)
    BY <1>3, <1>6
  <2> QED BY <2>1, <2>2, <2>3 DEF id
<1> QED BY <1>4, <1>5, <1>6

-----------------------------------------------------------------------------
(* The handlers.                                                            *)

(* The identity AuthMiddleware reads from the current bindings is one.      *)
LEMMA CurrentIdentityType ==
  ASSUME TypeOK, NEW u \in User
  PROVE  CurrentIdentity(u) \in Identity
<1>1. RowsOf(u) \subseteq RolePermission
  BY RoleAssumption DEF TypeOK, RowsOf
<1>2. QED
  BY <1>1, IdentityForUserType DEF CurrentIdentity

(* The record a call starts from, and every record the handlers make of it. *)
LEMMA IdleType == Idle \in CallState
BY NoneAssumption DEF Idle, CallState

(* A handler that starts: it is the only thing that changes.                *)
LEMMA BeginStep ==
  ASSUME TypeOK, NEW c \in Call, NEW u \in User, NEW perm,
         NEW call \in CallState, Begin(c, u, perm, call)
  PROVE  /\ calls' = [calls EXCEPT ![c] =
                        [call EXCEPT !.pc = "begun", !.user = u,
                                     !.id = CurrentIdentity(u)]]
         /\ [call EXCEPT !.pc = "begun", !.user = u,
                         !.id = CurrentIdentity(u)] \in CallState
         /\ calls[c].pc = "idle"
         /\ UNCHANGED <<now, roles, attrs, requests, grants, raced>>
<1>1. CurrentIdentity(u) \in Identity
  BY CurrentIdentityType
<1>2. [call EXCEPT !.pc = "begun", !.user = u, !.id = CurrentIdentity(u)]
        \in CallState
  BY <1>1 DEF CallState
<1>3. QED
  BY <1>2 DEF Begin, Goto, env, db

(* The record of a handler that has just begun, whatever the operation.     *)
BegunOK(call) ==
  /\ call \in CallState
  /\ call.pc = "begun" /\ call.user # None
  /\ call.id = CurrentIdentity(call.user)
  /\ call.op = "createGrant" =>
       /\ call.subject # None /\ call.asset # None
       /\ call.subject # call.user \/ call.alias
       /\ call.request = None
  /\ call.op = "createRequest" =>
       call.asset # None /\ call.duration <= MaxDuration
  /\ call.op = "revokeGrant" => call.grant # None
  /\ call.op \in {"cancel", "reject", "approve"} => call.request # None

(* Every way of starting a handler puts such a record in place of an idle   *)
(* call and touches nothing else.                                           *)
LEMMA ServeStep ==
  ASSUME TypeOK, NEW c \in Call, Serve(c)
  PROVE  /\ \E call : BegunOK(call) /\ calls' = [calls EXCEPT ![c] = call]
         /\ calls[c].pc = "idle"
         /\ UNCHANGED <<now, roles, attrs, requests, grants, raced>>
<1> DEFINE Begun(call, u) ==
      [call EXCEPT !.pc = "begun", !.user = u, !.id = CurrentIdentity(u)]
<1> USE NoneAssumption, DurationAssumption
<1>1. CASE \E u \in User, text \in UserText, a \in Asset, d \in GrantDurations :
             BeginCreateGrant(c, u, text, a, d)
  <2>1. PICK u \in User, text \in UserText, a \in Asset, d \in GrantDurations :
               BeginCreateGrant(c, u, text, a, d)
    BY <1>1
  <2>a. PICK subject \in User, alias \in BOOLEAN :
             text = [id |-> subject, canonical |-> ~alias]
    BY RoleAssumption DEF UserText, TextOf
  <2> DEFINE call == [Idle EXCEPT !.op = "createGrant", !.subject = subject,
                                  !.alias = alias,
                                  !.asset = a, !.duration = d]
  <2>b. text.id = subject /\ (~ text.canonical) = alias
    BY <2>a
  <2>2. call \in CallState /\ d \in Nat
    BY DEF CallState, Idle
  <2>c. subject # u \/ alias
    BY <2>1, <2>a DEF BeginCreateGrant, IsSelf, TextOf
  <2>3. Begin(c, u, "bastion.grant:write", call) /\ (subject # u \/ alias)
    BY <2>1, <2>b, <2>c DEF BeginCreateGrant
  <2>4. BegunOK(Begun(call, u))
    BY <2>2, <2>3, BeginStep DEF BegunOK, Idle
  <2>5. QED
    BY <2>2, <2>3, <2>4, BeginStep
<1>2. CASE \E u \in User, a \in Asset, d \in RequestDurations :
             BeginCreateRequest(c, u, a, d)
  <2>1. PICK u \in User, a \in Asset, d \in RequestDurations :
               BeginCreateRequest(c, u, a, d)
    BY <1>2
  <2> DEFINE call == [Idle EXCEPT !.op = "createRequest", !.asset = a,
                                  !.duration = EffectiveDuration(d)]
  <2>2. EffectiveDuration(d) \in Nat /\ EffectiveDuration(d) <= MaxDuration
    BY <2>1 DEF BeginCreateRequest, WithinCap, EffectiveDuration
  <2>3. call \in CallState
    BY <2>2 DEF CallState, Idle
  <2>4. Begin(c, u, "bastion.request:write", call)
    BY <2>1 DEF BeginCreateRequest
  <2>5. BegunOK(Begun(call, u))
    BY <2>2, <2>3, <2>4, BeginStep DEF BegunOK, Idle
  <2>6. QED
    BY <2>3, <2>4, <2>5, BeginStep
<1>3. CASE \E u \in User, g \in Grant : BeginRevokeGrant(c, u, g)
  <2>1. PICK u \in User, g \in Grant : BeginRevokeGrant(c, u, g)
    BY <1>3
  <2> DEFINE call == [Idle EXCEPT !.op = "revokeGrant", !.grant = g]
  <2>2. call \in CallState
    BY DEF CallState, Idle
  <2>3. Begin(c, u, "bastion.grant:write", call)
    BY <2>1 DEF BeginRevokeGrant
  <2>4. BegunOK(Begun(call, u))
    BY <2>2, <2>3, BeginStep DEF BegunOK, Idle
  <2>5. QED
    BY <2>2, <2>3, <2>4, BeginStep
<1>4. ASSUME NEW u \in User, NEW perm, NEW call \in CallState,
             call.op \in {"cancel", "reject", "approve"}, call.request # None,
             Begin(c, u, perm, call)
      PROVE  /\ \E begun : BegunOK(begun) /\ calls' = [calls EXCEPT ![c] = begun]
             /\ calls[c].pc = "idle"
             /\ UNCHANGED <<now, roles, attrs, requests, grants, raced>>
  <2>1. Begun(call, u) \in CallState
    BY <1>4, BeginStep
  <2>2. /\ Begun(call, u).pc = "begun" /\ Begun(call, u).user = u
        /\ Begun(call, u).op = call.op /\ Begun(call, u).request = call.request
        /\ Begun(call, u).id = CurrentIdentity(u)
    BY DEF CallState
  <2>3. BegunOK(Begun(call, u))
    <3> HIDE DEF Begun
    <3> QED BY <1>4, <2>1, <2>2 DEF BegunOK
  <2>4. QED
    BY <1>4, <2>3, BeginStep
<1>5. CASE \E u \in User, r \in Request :
             \/ BeginCancelRequest(c, u, r)
             \/ BeginRejectRequest(c, u, r)
             \/ BeginApproveRequest(c, u, r)
  <2>1. PICK u \in User, r \in Request :
               \/ BeginCancelRequest(c, u, r)
               \/ BeginRejectRequest(c, u, r)
               \/ BeginApproveRequest(c, u, r)
    BY <1>5
  <2>2. CASE BeginCancelRequest(c, u, r)
    <3> DEFINE call == [Idle EXCEPT !.op = "cancel", !.request = r]
    <3>1. call \in CallState /\ call.op = "cancel" /\ call.request # None
      BY DEF CallState, Idle
    <3>2. Begin(c, u, "bastion.request:write", call)
      BY <2>2 DEF BeginCancelRequest
    <3> HIDE DEF call
    <3>3. QED
      BY <1>4, <3>1, <3>2
  <2>3. CASE BeginRejectRequest(c, u, r)
    <3> DEFINE call == [Idle EXCEPT !.op = "reject", !.request = r]
    <3>1. call \in CallState /\ call.op = "reject" /\ call.request # None
      BY DEF CallState, Idle
    <3>2. Begin(c, u, "bastion.grant:write", call)
      BY <2>3 DEF BeginRejectRequest
    <3> HIDE DEF call
    <3>3. QED
      BY <1>4, <3>1, <3>2
  <2>4. CASE BeginApproveRequest(c, u, r)
    <3> DEFINE call == [Idle EXCEPT !.op = "approve", !.request = r]
    <3>1. call \in CallState /\ call.op = "approve" /\ call.request # None
      BY DEF CallState, Idle
    <3>2. Begin(c, u, "bastion.grant:write", call)
      BY <2>4 DEF BeginApproveRequest
    <3> HIDE DEF call
    <3>3. QED
      BY <1>4, <3>1, <3>2
  <2>5. QED
    BY <2>1, <2>2, <2>3, <2>4
<1>6. QED
  BY <1>1, <1>2, <1>3, <1>5 DEF Serve

(* A step that only moves one call on keeps the invariant when the call's   *)
(* new record is in order and takes no lock that is already held.           *)
LEMMA CallChange ==
  ASSUME Inv, NEW c \in Call, NEW call \in CallState, CallOK(call),
         call.pc = "locked" => ~ RowLocked(call.request),
         calls' = [calls EXCEPT ![c] = call], raced' \subseteq Call,
         UNCHANGED <<now, roles, attrs, requests, grants>>
  PROVE  Inv'
<1>1. \A call2 : CallOK(call2)' <=> CallOK(call2)
  BY DEF CallOK, Approvable
<1>2. TypeOK'
  BY DEF Inv, TypeOK
<1>3. \A d \in Call : CallOK(calls'[d])
  BY DEF Inv, TypeOK, CallInv
<1>4. LocksExclusive'
  BY DEF Inv, TypeOK, CallInv, LocksExclusive, RowLocked
<1>5. CallInv'
  BY <1>1, <1>3, <1>4 DEF Inv, CallInv
<1>6. TwoPersonRule' /\ ApprovalLinkage' /\ GrantLifetime'
  BY DEF Inv, TwoPersonRule, ApprovalLinkage, GrantLifetime, Issued
<1>7. QED
  BY <1>2, <1>5, <1>6 DEF Inv

(* A call that is not in flight has established nothing and owes nothing.   *)
LEMMA IdleOK == CallOK(Idle)
BY DEF CallOK, Idle

(* A handler that starts keeps the invariant: it holds no lock yet.         *)
LEMMA ServeInv ==
  ASSUME Inv, NEW c \in Call, Serve(c)
  PROVE  Inv'
<1>1. PICK call : BegunOK(call) /\ calls' = [calls EXCEPT ![c] = call]
  BY ServeStep DEF Inv
<1>2. CallOK(call)
  BY <1>1 DEF BegunOK, CallOK
<1>3. QED
  BY <1>1, <1>2, ServeStep, CallChange DEF Inv, BegunOK, TypeOK

(* A call that answers without writing keeps the invariant.                 *)
LEMMA ReturnInv ==
  ASSUME Inv, NEW c \in Call, Return(c), UNCHANGED <<env, db>>
  PROVE  Inv'
<1>1. raced' \subseteq Call
  BY DEF Return, Inv, TypeOK
<1>2. Idle.pc # "locked"
  BY DEF Idle
<1>3. QED
  BY <1>1, <1>2, IdleType, IdleOK, CallChange DEF Return, env, db

(* createGrant's scope and duration check: what it lets through expires     *)
(* within the cap.                                                          *)
LEMMA CheckCreateGrantInv ==
  ASSUME Inv, NEW c \in Call, CheckCreateGrant(c)
  PROVE  Inv'
<1> DEFINE call == [calls[c] EXCEPT !.pc = "checked",
                      !.expires = now + EffectiveDuration(calls[c].duration)]
<1>1. CASE Return(c)
  BY <1>1, ReturnInv DEF CheckCreateGrant
<1>2. CASE /\ Goto(c, call)
           /\ WithinCap(calls[c].duration)
  <2>1. /\ calls[c] \in CallState /\ CallOK(calls[c])
        /\ calls[c].op = "createGrant" /\ now \in Nat
    BY DEF CheckCreateGrant, AtStep, Inv, TypeOK, CallInv
  <2>2. /\ now + EffectiveDuration(calls[c].duration) \in Nat
        /\ now + EffectiveDuration(calls[c].duration) <= now + MaxDuration
    BY <1>2, <2>1, DurationAssumption DEF WithinCap, EffectiveDuration, CallState
  <2>3. /\ call \in CallState
        /\ call.op = "createGrant" /\ call.pc = "checked"
        /\ call.user = calls[c].user /\ call.subject = calls[c].subject
        /\ call.alias = calls[c].alias
        /\ call.asset = calls[c].asset
        /\ call.expires = now + EffectiveDuration(calls[c].duration)
    BY <2>1, <2>2 DEF CallState
  <2>4. calls' = [calls EXCEPT ![c] = call] /\ raced' = raced
    BY <1>2 DEF Goto
  <2> HIDE DEF call
  <2>5. CallOK(call)
    BY <2>1, <2>2, <2>3 DEF CallOK
  <2>6. QED
    BY <2>3, <2>4, <2>5, CallChange
    DEF CheckCreateGrant, env, db, Inv, TypeOK
<1>3. QED
  BY <1>1, <1>2 DEF CheckCreateGrant

(* approveRequest's scope check only moves its own call on.                 *)
LEMMA CheckApproveRequestInv ==
  ASSUME Inv, NEW c \in Call, CheckApproveRequest(c)
  PROVE  Inv'
<1> DEFINE call == [calls[c] EXCEPT !.pc = "checked"]
<1>1. CASE Return(c)
  BY <1>1, ReturnInv DEF CheckApproveRequest
<1>2. CASE Goto(c, call)
  <2>1. /\ calls[c] \in CallState /\ CallOK(calls[c])
        /\ calls[c].op = "approve"
    BY DEF CheckApproveRequest, AtStep, Inv, TypeOK, CallInv
  <2>2. /\ call \in CallState
        /\ call.op = "approve" /\ call.pc = "checked"
        /\ call.user = calls[c].user /\ call.request = calls[c].request
    BY <2>1 DEF CallState
  <2>3. calls' = [calls EXCEPT ![c] = call] /\ raced' = raced
    BY <1>2 DEF Goto
  <2> HIDE DEF call
  <2>4. CallOK(call)
    BY <2>1, <2>2 DEF CallOK
  <2>5. QED
    BY <2>2, <2>3, <2>4, CallChange
    DEF CheckApproveRequest, env, db, Inv, TypeOK
<1>3. QED
  BY <1>1, <1>2 DEF CheckApproveRequest

(* SELECT ... FOR UPDATE: the lock was free, and the locked row is          *)
(* approvable.                                                              *)
LEMMA LockRequestInv ==
  ASSUME Inv, NEW c \in Call, LockRequest(c)
  PROVE  Inv'
<1> DEFINE r    == calls[c].request
           call == [calls[c] EXCEPT !.pc = "locked",
                                    !.expires = now + requests[r].duration]
<1>1. CASE Return(c)
  BY <1>1, ReturnInv DEF LockRequest
<1>2. CASE Goto(c, call) /\ Approvable(r, calls[c].user)
  <2>1. /\ calls[c] \in CallState /\ CallOK(calls[c])
        /\ calls[c].op = "approve" /\ now \in Nat
        /\ ~ RowLocked(r)
    BY DEF LockRequest, AtStep, Inv, TypeOK, CallInv
  <2>2. r \in Request
    BY <2>1 DEF CallOK, CallState
  <2>3. requests[r].duration \in Nat /\ now + requests[r].duration \in Nat
    BY <2>1, <2>2 DEF Inv, TypeOK, RequestRow
  <2>4. /\ call \in CallState
        /\ call.op = "approve" /\ call.pc = "locked"
        /\ call.user = calls[c].user /\ call.request = r
        /\ call.expires = now + requests[r].duration
    BY <2>1, <2>3 DEF CallState
  <2>5. calls' = [calls EXCEPT ![c] = call] /\ raced' = raced
    BY <1>2 DEF Goto
  <2> HIDE DEF call
  <2>6. /\ Approvable(call.request, call.user)
        /\ call.expires <= now + requests[call.request].duration
    BY <1>2, <2>1, <2>3, <2>4
  <2>7. CallOK(call)
    BY <2>1, <2>4, <2>6 DEF CallOK
  <2>8. QED
    BY <2>1, <2>4, <2>5, <2>7, CallChange
    DEF LockRequest, env, db, Inv, TypeOK
<1>3. QED
  BY <1>1, <1>2 DEF LockRequest

(* A call that returns while its request row or grant row is written: the   *)
(* other calls keep their records, and no lock is gained.                   *)
LEMMA ReturnFacts ==
  ASSUME Inv, NEW c \in Call, Return(c)
  PROVE  /\ calls' \in [Call -> CallState] /\ raced' \subseteq Call
         /\ calls'[c] = Idle
         /\ \A d \in Call \ {c} : calls'[d] = calls[d]
         /\ \A d \in Call : calls'[d].pc = "locked" =>
              d # c /\ calls[d].pc = "locked"
         /\ LocksExclusive'
<1>1. /\ calls' \in [Call -> CallState] /\ raced' \subseteq Call
      /\ calls'[c] = Idle
      /\ \A d \in Call \ {c} : calls'[d] = calls[d]
  BY IdleType DEF Return, Inv, TypeOK
<1>2. \A d \in Call : calls'[d].pc = "locked" =>
        d # c /\ calls[d].pc = "locked"
  BY <1>1 DEF Idle
<1>3. LocksExclusive'
  BY <1>1, <1>2 DEF Inv, CallInv, LocksExclusive
<1>4. QED
  BY <1>1, <1>2, <1>3

(* The INSERT of createGrant: a grant for somebody else, within the cap,    *)
(* that answers no request.                                                 *)
LEMMA InsertGrantInv ==
  ASSUME Inv, NEW c \in Call, NEW g \in Grant, InsertGrant(c, g)
  PROVE  Inv'
<1> DEFINE row == [status |-> "live", user |-> calls[c].subject,
                   asset |-> calls[c].asset, grantedBy |-> calls[c].user,
                   expires |-> calls[c].expires, revokedAt |-> 0,
                   request |-> None, alias |-> calls[c].alias]
<1>1. /\ calls[c] \in CallState /\ CallOK(calls[c])
      /\ calls[c].op = "createGrant" /\ calls[c].pc = "checked"
      /\ grants[g].status = "none" /\ grants' = [grants EXCEPT ![g] = row]
      /\ Return(c) /\ UNCHANGED <<now, roles, attrs, requests>>
  BY DEF InsertGrant, AtStep, env, Inv, TypeOK, CallInv
<1>2. /\ row \in GrantRow /\ row.user # None /\ row.asset # None
      /\ row.grantedBy # None /\ (row.grantedBy # row.user \/ row.alias)
      /\ row.expires <= now + MaxDuration /\ row.request = None
      /\ row.status # "none"
  BY <1>1, NoneAssumption DEF CallOK, CallState, GrantRow
<1> HIDE DEF row
<1>3. TypeOK'
  BY <1>1, <1>2, ReturnFacts DEF Inv, TypeOK
<1>4. CallInv'
  <2>1. \A d \in Call : CallOK(calls'[d])
    BY <1>1, ReturnFacts, IdleOK DEF Inv, CallInv
  <2>2. \A call : CallOK(call)' <=> CallOK(call)
    BY <1>1 DEF CallOK, Approvable
  <2>3. QED
    BY <1>1, <2>1, <2>2, ReturnFacts DEF Inv, CallInv
<1>5. TwoPersonRule'
  BY <1>1, <1>2 DEF Inv, TypeOK, TwoPersonRule, Issued
<1>6. ApprovalLinkage'
  BY <1>1, <1>2 DEF Inv, TypeOK, ApprovalLinkage, Issued
<1>7. GrantLifetime'
  BY <1>1, <1>2 DEF Inv, TypeOK, GrantLifetime, Issued
<1>8. QED
  BY <1>3, <1>4, <1>5, <1>6, <1>7 DEF Inv

(* The UPDATE of revokeGrant changes neither whom a grant is for nor what   *)
(* it answers.                                                              *)
LEMMA RevokeGrantInv ==
  ASSUME Inv, NEW c \in Call, RevokeGrant(c)
  PROVE  Inv'
<1> DEFINE g == calls[c].grant
<1>1. /\ calls[c] \in CallState /\ CallOK(calls[c]) /\ now \in Nat
      /\ calls[c].op = "revokeGrant"
      /\ Return(c) /\ UNCHANGED <<now, roles, attrs, requests>>
  BY DEF RevokeGrant, AtStep, env, Inv, TypeOK, CallInv
<1>2. g \in Grant
  BY <1>1 DEF CallOK, CallState
<1>3. /\ grants' \in [Grant -> GrantRow]
      /\ \A h \in Grant :
           /\ grants'[h].status # "none" <=> grants[h].status # "none"
           /\ grants'[h].user = grants[h].user
           /\ grants'[h].asset = grants[h].asset
           /\ grants'[h].grantedBy = grants[h].grantedBy
           /\ grants'[h].expires = grants[h].expires
           /\ grants'[h].request = grants[h].request
           /\ grants'[h].alias = grants[h].alias
  <2>1. CASE ~ Revocable(g)
    BY <2>1 DEF RevokeGrant, Inv, TypeOK
  <2>2. CASE Revocable(g)
    <3>1. grants' = [grants EXCEPT ![g].status = "revoked", ![g].revokedAt = now]
      BY <2>2 DEF RevokeGrant
    <3>2. QED
      BY <1>1, <1>2, <2>2, <3>1 DEF Inv, TypeOK, GrantRow, Revocable
  <2>3. QED
    BY <2>1, <2>2
<1>4. TypeOK'
  BY <1>1, <1>3, ReturnFacts DEF Inv, TypeOK
<1>5. CallInv'
  <2>1. \A d \in Call : CallOK(calls'[d])
    BY <1>1, ReturnFacts, IdleOK DEF Inv, CallInv
  <2>2. \A call : CallOK(call)' <=> CallOK(call)
    BY <1>1 DEF CallOK, Approvable
  <2>3. QED
    BY <1>1, <2>1, <2>2, ReturnFacts DEF Inv, CallInv
<1>6. TwoPersonRule'
  BY <1>3 DEF Inv, TwoPersonRule, Issued
<1>7. ApprovalLinkage'
  BY <1>1, <1>3, NoneAssumption
  DEF Inv, TypeOK, ApprovalLinkage, Issued, RequestRow, GrantRow
<1>8. GrantLifetime'
  BY <1>1, <1>3 DEF Inv, GrantLifetime, Issued
<1>9. QED
  BY <1>4, <1>5, <1>6, <1>7, <1>8 DEF Inv

(* The INSERT of createRequest: a new row that no grant and no transaction  *)
(* refers to.                                                               *)
LEMMA CreateRequestInv ==
  ASSUME Inv, NEW c \in Call, NEW r \in Request, CreateRequest(c, r)
  PROVE  Inv'
<1> DEFINE row == [NoRequest EXCEPT !.status = "pending",
                     !.user = calls[c].user, !.asset = calls[c].asset,
                     !.duration = calls[c].duration]
<1>1. /\ calls[c] \in CallState /\ CallOK(calls[c])
      /\ calls[c].op = "createRequest"
      /\ requests[r].status = "none"
      /\ requests' = [requests EXCEPT ![r] = row]
      /\ Return(c) /\ UNCHANGED <<now, roles, attrs, grants>>
  BY DEF CreateRequest, AtStep, env, Inv, TypeOK, CallInv
<1>2. /\ row \in RequestRow /\ row.user # None /\ row.asset # None
      /\ row.status = "pending" /\ row.duration <= MaxDuration
  BY <1>1, NoneAssumption DEF CallOK, CallState, RequestRow, NoRequest
<1> HIDE DEF row
<1>3. TypeOK'
  BY <1>1, <1>2, ReturnFacts DEF Inv, TypeOK
<1>4. CallInv'
  <2>1. ASSUME NEW d \in Call
        PROVE  CallOK(calls[d])'
    <3>1. CallOK(calls'[d])
      BY <1>1, ReturnFacts, IdleOK DEF Inv, CallInv
    <3>2. calls'[d].pc = "locked" => calls'[d].request # r
      BY <1>1, <3>1 DEF CallOK, Approvable
    <3>3. calls'[d].pc = "locked" =>
            requests'[calls'[d].request] = requests[calls'[d].request]
      BY <1>1, <3>1, <3>2, ReturnFacts DEF CallOK, CallState, Inv, TypeOK
    <3>4. QED
      BY <1>1, <3>1, <3>3 DEF CallOK, Approvable
  <2>2. \A q \in Request : requests'[q].duration <= MaxDuration
    BY <1>1, <1>2 DEF Inv, TypeOK, CallInv
  <2>3. QED
    BY <2>1, <2>2, <1>1, ReturnFacts DEF CallInv
<1>5. TwoPersonRule'
  BY <1>1 DEF Inv, TwoPersonRule, Issued
<1>6. \A g \in Grant : Issued(g) /\ grants[g].request # None =>
        /\ grants[g].request \in Request
        /\ requests[grants[g].request].status = "approved"
        /\ requests'[grants[g].request] = requests[grants[g].request]
  BY <1>1 DEF Inv, TypeOK, ApprovalLinkage, GrantRow
<1>7. ApprovalLinkage'
  <2>1. \A q \in Request : requests'[q].status = "approved" =>
          requests[q].status = "approved" /\ requests'[q] = requests[q]
    BY <1>1, <1>2 DEF Inv, TypeOK
  <2>2. QED
    BY <1>1, <1>6, <2>1 DEF Inv, ApprovalLinkage, Issued
<1>8. GrantLifetime'
  BY <1>1, <1>6 DEF Inv, GrantLifetime, Issued
<1>9. QED
  BY <1>3, <1>4, <1>5, <1>7, <1>8 DEF Inv

(* What a rejection and a cancellation do to the request table: at most     *)
(* they close the one pending request r.                                    *)
ClosesUnlocked(r) ==
  /\ requests' \in [Request -> RequestRow]
  /\ \A q \in Request :
       /\ requests'[q].user = requests[q].user
       /\ requests'[q].asset = requests[q].asset
       /\ requests'[q].duration = requests[q].duration
       /\ requests'[q].status # "none" <=> requests[q].status # "none"
       /\ requests'[q].status = "approved" => requests'[q] = requests[q]
       /\ requests[q].status = "approved" => requests'[q] = requests[q]
       /\ q # r => requests'[q] = requests[q]

(* Closing a pending row that no transaction has locked disturbs no         *)
(* approval.                                                                *)
LEMMA CloseRequestInv ==
  ASSUME Inv, NEW c \in Call, NEW r \in Request, ~ RowLocked(r),
         Return(c), ClosesUnlocked(r), UNCHANGED <<now, roles, attrs, grants>>
  PROVE  Inv'
<1>1. TypeOK'
  BY ReturnFacts DEF Inv, TypeOK, ClosesUnlocked
<1>2. CallInv'
  <2>1. ASSUME NEW d \in Call
        PROVE  CallOK(calls[d])'
    <3>1. CallOK(calls'[d])
      BY ReturnFacts, IdleOK DEF Inv, CallInv
    <3>2. calls'[d].pc = "locked" => calls'[d].request # r
      BY ReturnFacts DEF RowLocked
    <3>3. calls'[d].pc = "locked" =>
            requests'[calls'[d].request] = requests[calls'[d].request]
      BY <3>1, <3>2, ReturnFacts
      DEF CallOK, CallState, ClosesUnlocked
    <3>4. QED
      BY <3>1, <3>3 DEF CallOK, Approvable
  <2>2. QED
    BY <2>1, ReturnFacts DEF Inv, CallInv, ClosesUnlocked
<1>3. TwoPersonRule'
  BY DEF Inv, TwoPersonRule, Issued
<1>4. \A g \in Grant : Issued(g) /\ grants[g].request # None =>
        /\ grants[g].request \in Request
        /\ requests'[grants[g].request] = requests[grants[g].request]
  BY DEF Inv, TypeOK, ApprovalLinkage, GrantRow, ClosesUnlocked
<1>5. ApprovalLinkage'
  BY <1>4 DEF Inv, ApprovalLinkage, Issued, ClosesUnlocked
<1>6. GrantLifetime'
  BY <1>4 DEF Inv, GrantLifetime, Issued
<1>7. QED
  BY <1>1, <1>2, <1>3, <1>5, <1>6 DEF Inv

(* The UPDATE of cancelRequest closes a pending, unlocked row or none.      *)
LEMMA CancelRequestInv ==
  ASSUME Inv, NEW c \in Call, CancelRequest(c)
  PROVE  Inv'
<1>1. /\ calls[c] \in CallState /\ CallOK(calls[c])
      /\ calls[c].op = "cancel" /\ ~ RowLocked(calls[c].request)
      /\ Return(c) /\ UNCHANGED <<now, roles, attrs, grants>>
  BY DEF CancelRequest, AtStep, env, Inv, TypeOK, CallInv
<1>2. calls[c].request \in Request /\ calls[c].user \in User
  BY <1>1 DEF CallOK, CallState
<1>3. ClosesUnlocked(calls[c].request)
  BY <1>1, <1>2 DEF CancelRequest, ClosesUnlocked, Inv, TypeOK, RequestRow
<1>4. QED
  BY <1>1, <1>2, <1>3, CloseRequestInv

(* The UPDATE of rejectRequest closes a pending, unlocked row or none.      *)
LEMMA RejectRequestInv ==
  ASSUME Inv, NEW c \in Call, RejectRequest(c)
  PROVE  Inv'
<1>1. /\ calls[c] \in CallState /\ CallOK(calls[c])
      /\ calls[c].op = "reject" /\ ~ RowLocked(calls[c].request)
      /\ Return(c) /\ UNCHANGED <<now, roles, attrs, grants>>
  BY DEF RejectRequest, AtStep, env, Inv, TypeOK, CallInv
<1>2. calls[c].request \in Request /\ calls[c].user \in User
  BY <1>1 DEF CallOK, CallState
<1>3. ClosesUnlocked(calls[c].request)
  BY <1>1, <1>2 DEF RejectRequest, ClosesUnlocked, Inv, TypeOK, RequestRow
<1>4. QED
  BY <1>1, <1>2, <1>3, CloseRequestInv

(* The grant and the approved request appear together.  Every other lock is *)
(* on another row, so no other transaction is disturbed.                    *)
LEMMA CommitApprovalInv ==
  ASSUME Inv, NEW c \in Call, NEW g \in Grant, CommitApproval(c, g)
  PROVE  Inv'
<1> DEFINE r   == calls[c].request
           row == [status |-> "live", user |-> requests[r].user,
                   asset |-> requests[r].asset, grantedBy |-> calls[c].user,
                   expires |-> calls[c].expires, revokedAt |-> 0,
                   request |-> r, alias |-> FALSE]
           req == [requests[r] EXCEPT !.status = "approved",
                                      !.decidedBy = calls[c].user,
                                      !.grant = g]
<1>1. /\ calls[c] \in CallState /\ CallOK(calls[c])
      /\ calls[c].op = "approve" /\ calls[c].pc = "locked"
      /\ grants[g].status = "none" /\ grants' = [grants EXCEPT ![g] = row]
      /\ Return(c) /\ UNCHANGED <<now, roles, attrs>>
  BY DEF CommitApproval, AtStep, env, Inv, TypeOK, CallInv
<1>2. /\ r \in Request /\ calls[c].user \in User
      /\ requests[r] \in RequestRow /\ requests[r].status = "pending"
      /\ requests[r].user # None /\ requests[r].asset # None
      /\ requests[r].user # calls[c].user
      /\ requests[r].duration <= MaxDuration
      /\ calls[c].expires <= now + requests[r].duration
      /\ now \in Nat /\ calls[c].expires \in Nat
  BY <1>1 DEF CallOK, CallState, Approvable, IsSelf, TextOf, Inv, TypeOK, CallInv
<1>3. requests' = [requests EXCEPT ![r] = req]
  BY <1>2 DEF CommitApproval, Inv, TypeOK
<1>4. /\ req \in RequestRow /\ req.status = "approved"
      /\ req.decidedBy = calls[c].user /\ req.grant = g
      /\ req.user = requests[r].user /\ req.asset = requests[r].asset
      /\ req.duration = requests[r].duration
  BY <1>2 DEF RequestRow
<1>5. row.expires <= now + MaxDuration
  BY <1>2, DurationAssumption DEF RequestRow
<1>6. /\ row \in GrantRow /\ row.user = requests[r].user
      /\ row.asset = requests[r].asset /\ row.grantedBy = calls[c].user
      /\ row.expires = calls[c].expires /\ row.request = r
      /\ row.status # "none"
  BY <1>2, NoneAssumption DEF GrantRow, RequestRow
<1> HIDE DEF row, req
<1>7. TypeOK'
  <2>1. requests' \in [Request -> RequestRow] /\ grants' \in [Grant -> GrantRow]
    BY <1>1, <1>3, <1>4, <1>6 DEF Inv, TypeOK
  <2>2. \A q \in Request : requests'[q].status # "none" =>
          requests'[q].user # None /\ requests'[q].asset # None
    BY <1>2, <1>3, <1>4 DEF Inv, TypeOK
  <2>3. \A h \in Grant : grants'[h].status # "none" =>
          None \notin {grants'[h].user, grants'[h].asset, grants'[h].grantedBy}
    BY <1>1, <1>2, <1>6, NoneAssumption DEF Inv, TypeOK
  <2>4. QED
    BY <1>1, <2>1, <2>2, <2>3, ReturnFacts DEF Inv, TypeOK
<1>8. CallInv'
  <2>1. ASSUME NEW d \in Call
        PROVE  CallOK(calls[d])'
    <3>1. CallOK(calls'[d])
      BY <1>1, ReturnFacts, IdleOK DEF Inv, CallInv
    <3>2. calls'[d].pc = "locked" => calls'[d].request # r
      BY <1>1, ReturnFacts DEF Inv, CallInv, LocksExclusive
    <3>3. calls'[d].pc = "locked" =>
            requests'[calls'[d].request] = requests[calls'[d].request]
      BY <1>1, <1>3, <3>1, <3>2, ReturnFacts DEF CallOK, CallState, Inv, TypeOK
    <3>4. QED
      BY <1>1, <3>1, <3>3 DEF CallOK, Approvable
  <2>2. \A q \in Request : requests'[q].duration <= MaxDuration
    BY <1>2, <1>3, <1>4 DEF Inv, TypeOK, CallInv
  <2>3. QED
    BY <2>1, <2>2, <1>1, ReturnFacts DEF CallInv
<1>9. TwoPersonRule'
  BY <1>1, <1>2, <1>6 DEF Inv, TypeOK, TwoPersonRule, Issued
<1>10. \A h \in Grant \ {g} : Issued(h) /\ grants[h].request # None =>
         /\ grants[h].request \in Request /\ grants[h].request # r
         /\ requests'[grants[h].request] = requests[grants[h].request]
  BY <1>2, <1>3 DEF Inv, TypeOK, ApprovalLinkage, GrantRow
<1>11. ApprovalLinkage'
  <2>1. ASSUME NEW q \in Request, requests'[q].status = "approved"
        PROVE  /\ requests'[q].grant \in Grant
               /\ grants'[requests'[q].grant].status # "none"
               /\ grants'[requests'[q].grant].request = q
    <3>1. CASE q = r
      BY <1>1, <1>3, <1>4, <1>6, <3>1 DEF Inv, TypeOK
    <3>2. CASE q # r
      <4>1. requests'[q] = requests[q] /\ requests[q] \in RequestRow
        BY <1>3, <3>2 DEF Inv, TypeOK
      <4>2. requests[q].grant \in Grant /\ Issued(requests[q].grant)
            /\ grants[requests[q].grant].request = q
        BY <2>1, <4>1 DEF Inv, ApprovalLinkage, RequestRow
      <4>3. QED
        BY <1>1, <4>1, <4>2 DEF Issued, Inv, TypeOK
    <3>3. QED
      BY <3>1, <3>2
  <2>2. ASSUME NEW h \in Grant, grants'[h].status # "none",
               grants'[h].request # None
        PROVE  /\ requests'[grants'[h].request].status = "approved"
               /\ requests'[grants'[h].request].grant = h
               /\ requests'[grants'[h].request].user = grants'[h].user
               /\ requests'[grants'[h].request].asset = grants'[h].asset
               /\ requests'[grants'[h].request].decidedBy = grants'[h].grantedBy
    <3>1. CASE h = g
      BY <1>1, <1>2, <1>3, <1>4, <1>6, <3>1 DEF Inv, TypeOK
    <3>2. CASE h # g
      BY <1>1, <1>10, <2>2, <3>2 DEF Inv, TypeOK, ApprovalLinkage, Issued
    <3>3. QED
      BY <3>1, <3>2
  <2>3. QED
    BY <2>1, <2>2, NoneAssumption DEF ApprovalLinkage, Issued
<1>12. GrantLifetime'
  <2>1. ASSUME NEW h \in Grant, grants'[h].status # "none"
        PROVE  /\ grants'[h].expires <= now + MaxDuration
               /\ grants'[h].request # None =>
                    grants'[h].expires <=
                      now + requests'[grants'[h].request].duration
    <3>1. CASE h = g
      BY <1>1, <1>2, <1>3, <1>4, <1>5, <1>6, <3>1 DEF Inv, TypeOK
    <3>2. CASE h # g
      BY <1>1, <1>10, <2>1, <3>2 DEF Inv, TypeOK, GrantLifetime, Issued
    <3>3. QED
      BY <3>1, <3>2
  <2>2. QED
    BY <1>1, <2>1 DEF GrantLifetime, Issued
<1>13. QED
  BY <1>7, <1>8, <1>9, <1>11, <1>12 DEF Inv

(* The surroundings write no request, no grant and no call; the clock never *)
(* runs backwards.                                                          *)
LEMMA EnvironmentStep ==
  ASSUME TypeOK, Environment
  PROVE  /\ UNCHANGED <<requests, grants, calls>>
         /\ now' \in Nat /\ now <= now'
         /\ roles' \in [User -> SUBSET Role]
         /\ attrs' \in [Asset -> ResourceAttrs \cup {None}]
         /\ raced' \subseteq Call
<1>1. CASE Tick
  BY <1>1 DEF Tick, TypeOK, db
<1>2. ASSUME NEW u \in User, NEW new \in SUBSET Role, EditRoles(u, new)
      PROVE  /\ UNCHANGED <<requests, grants, calls, now, attrs>>
             /\ roles' \in [User -> SUBSET Role] /\ raced' \subseteq Call
  BY <1>2 DEF EditRoles, TypeOK, db
<1>3. ASSUME NEW e \in RoleEdits,
             BindRoleToUser(e[1], e[2]) \/ UnbindRoleFromUser(e[1], e[2])
      PROVE  /\ UNCHANGED <<requests, grants, calls, now, attrs>>
             /\ roles' \in [User -> SUBSET Role] /\ raced' \subseteq Call
  <2>1. e[1] \in User /\ e[2] \in Role
    BY RoleAssumption
  <2>2. /\ roles[e[1]] \cup {e[2]} \in SUBSET Role
        /\ roles[e[1]] \ {e[2]} \in SUBSET Role
    BY <2>1 DEF TypeOK
  <2>3. QED
    BY <1>2, <1>3, <2>1, <2>2 DEF BindRoleToUser, UnbindRoleFromUser
<1>4. ASSUME NEW a \in Asset, NEW new \in ResourceAttrs \cup {None},
             EditAsset(a, new)
      PROVE  /\ UNCHANGED <<requests, grants, calls, now, roles>>
             /\ attrs' \in [Asset -> ResourceAttrs \cup {None}]
             /\ raced' \subseteq Call
  BY <1>4 DEF EditAsset, TypeOK, db
<1>5. ASSUME NEW a \in Asset,
             (\E new \in EditAttrs : UpdateAsset(a, new)) \/ DeleteAsset(a)
      PROVE  /\ UNCHANGED <<requests, grants, calls, now, roles>>
             /\ attrs' \in [Asset -> ResourceAttrs \cup {None}]
             /\ raced' \subseteq Call
  BY <1>4, <1>5, RoleAssumption DEF UpdateAsset, DeleteAsset
<1>6. QED
  BY <1>1, <1>3, <1>5 DEF Environment, TypeOK

(* The clock, role edits and asset edits keep the invariant.                *)
LEMMA EnvironmentInv ==
  ASSUME Inv, Environment
  PROVE  Inv'
<1>1. /\ UNCHANGED <<requests, grants, calls>>
      /\ now \in Nat /\ now' \in Nat /\ now <= now' /\ MaxDuration \in Nat
  BY EnvironmentStep, DurationAssumption DEF Inv, TypeOK
<1>2. TypeOK'
  BY EnvironmentStep DEF Inv, TypeOK
<1>3. CallInv'
  <2>1. ASSUME NEW d \in Call
        PROVE  CallOK(calls[d])'
    <3>1. CallOK(calls[d]) /\ calls[d] \in CallState
      BY DEF Inv, CallInv, TypeOK
    <3>2. calls[d].expires \in Nat
      BY <3>1 DEF CallState
    <3>3. calls[d].pc = "locked" => requests[calls[d].request].duration \in Nat
      BY <3>1 DEF CallOK, CallState, Inv, TypeOK, RequestRow
    <3>4. QED
      BY <1>1, <3>1, <3>2, <3>3 DEF CallOK, Approvable
  <2>2. QED
    BY <1>1, <2>1 DEF Inv, CallInv, LocksExclusive
<1>4. TwoPersonRule' /\ ApprovalLinkage'
  BY <1>1 DEF Inv, TwoPersonRule, ApprovalLinkage, Issued
<1>5. GrantLifetime'
  <2>1. ASSUME NEW g \in Grant, Issued(g)
        PROVE  /\ grants[g].expires <= now' + MaxDuration
               /\ grants[g].request # None =>
                    grants[g].expires <=
                      now' + requests[grants[g].request].duration
    <3>1. grants[g].expires \in Nat
      BY DEF Inv, TypeOK, GrantRow
    <3>2. grants[g].request # None =>
            requests[grants[g].request].duration \in Nat
      BY DEF Inv, TypeOK, GrantRow, RequestRow
    <3>3. QED
      BY <1>1, <2>1, <3>1, <3>2 DEF Inv, GrantLifetime
  <2>2. QED
    BY <1>1, <2>1 DEF GrantLifetime, Issued
<1>6. QED
  BY <1>2, <1>3, <1>4, <1>5 DEF Inv

(* The empty tables satisfy the invariant.                                  *)
LEMMA InitInv == Init => Inv
<1> SUFFICES ASSUME Init PROVE Inv
  OBVIOUS
<1> USE NoneAssumption, DurationAssumption, RoleAssumption
<1>1. TypeOK
  BY IdleType
  DEF Init, TypeOK, NoRequest, NoGrant, RequestRow, GrantRow
<1>2. CallInv
  <2>1. \A c \in Call : calls[c] = Idle /\ calls[c].pc # "locked"
    BY DEF Init, Idle
  <2>2. \A r \in Request : requests[r].duration = 0
    BY DEF Init, NoRequest
  <2>3. QED
    BY <2>1, <2>2, IdleOK DEF CallInv, LocksExclusive
<1>3. TwoPersonRule /\ ApprovalLinkage /\ GrantLifetime
  BY DEF Init, TwoPersonRule, ApprovalLinkage, GrantLifetime, Issued,
         NoRequest, NoGrant
<1>4. QED
  BY <1>1, <1>2, <1>3 DEF Inv

(* Every step of every handler, and of the surroundings, keeps Inv.         *)
LEMMA NextInv == Inv /\ [Next]_vars => Inv'
<1> SUFFICES ASSUME Inv, [Next]_vars PROVE Inv'
  OBVIOUS
<1>1. ASSUME NEW c \in Call, Proceed(c)
      PROVE  Inv'
  BY <1>1, CheckCreateGrantInv, InsertGrantInv, RevokeGrantInv,
     CreateRequestInv, CancelRequestInv, RejectRequestInv,
     CheckApproveRequestInv, LockRequestInv, CommitApprovalInv DEF Proceed
<1>2. ASSUME NEW c \in Call, Abort(c)
      PROVE  Inv'
  BY <1>2, ReturnInv DEF Abort
<1>3. CASE UNCHANGED vars
  <2>1. \A call : CallOK(call)' <=> CallOK(call)
    BY <1>3 DEF vars, CallOK, Approvable
  <2>2. CallInv'
    BY <1>3, <2>1 DEF vars, Inv, CallInv, LocksExclusive
  <2>3. QED
    BY <1>3, <2>2 DEF vars, Inv, TypeOK, TwoPersonRule, ApprovalLinkage,
                      GrantLifetime, Issued
<1>4. QED
  BY <1>1, <1>2, <1>3, ServeInv, EnvironmentInv DEF Next

(* Inv is an invariant of the handlers, the database and their              *)
(* surroundings: the inductive invariant behind every theorem below.        *)
THEOREM Invariance == Spec => []Inv
<1>1. QED
  BY InitInv, NextInv, PTL DEF Spec

(* The tables and the calls in flight always have their types; in           *)
(* particular an approval never writes a grant with a NULL user, asset or   *)
(* granter, since the request it locked exists.                             *)
THEOREM TypeCorrect == Spec => []TypeOK
<1>1. Inv => TypeOK
  BY DEF Inv
<1>2. QED
  BY <1>1, Invariance, PTL

(* The two-person rule of createGrant and ApproveRequest: on request always, *)
(* directly unless the holder was named in another spelling of his id.      *)
THEOREM TwoPersons == Spec => []TwoPersonRule
<1>1. Inv => TwoPersonRule
  BY DEF Inv
<1>2. QED
  BY <1>1, Invariance, PTL

(* ApproveRequest's transaction: approved requests and the grants that      *)
(* answer them correspond one to one.                                       *)
THEOREM ApprovalsLinked == Spec => []ApprovalLinkage
<1>1. Inv => ApprovalLinkage
  BY DEF Inv
<1>2. QED
  BY <1>1, Invariance, PTL

(* The cap on the lifetime of grants, also of those that wait in a handler. *)
THEOREM LifetimesBounded == Spec => []GrantLifetime
<1>1. Inv => GrantLifetime
  BY DEF Inv
<1>2. QED
  BY <1>1, Invariance, PTL

-----------------------------------------------------------------------------
(* What the steps do to the two tables.                                     *)

(* Cancelling or rejecting changes the status of one pending request, or    *)
(* nothing.                                                                 *)
LEMMA CloseStep ==
  ASSUME Inv, NEW c \in Call, CancelRequest(c) \/ RejectRequest(c)
  PROVE  /\ UNCHANGED <<now, grants>>
         /\ \/ UNCHANGED requests
            \/ \E r \in Request, by \in User \cup {None},
                  s \in {"cancelled", "rejected"} :
                 /\ requests[r].status = "pending"
                 /\ requests' = [requests EXCEPT ![r] =
                      [requests[r] EXCEPT !.status = s, !.decidedBy = by]]
<1>1. CASE CancelRequest(c)
  <2>1. calls[c].request \in Request
    BY <1>1 DEF CancelRequest, AtStep, Inv, TypeOK, CallInv, CallOK, CallState
  <2> DEFINE r == calls[c].request
  <2>2. UNCHANGED <<now, grants>>
    BY <1>1 DEF CancelRequest, env
  <2>3. CASE UNCHANGED requests
    BY <2>2, <2>3
  <2>4. CASE /\ requests[r].status = "pending"
             /\ requests' = [requests EXCEPT ![r].status = "cancelled"]
    <3>1. requests[r] \in RequestRow
      BY <2>1 DEF Inv, TypeOK
    <3>2. [requests[r] EXCEPT !.status = "cancelled"] =
          [requests[r] EXCEPT !.status = "cancelled",
                              !.decidedBy = requests[r].decidedBy]
      BY <3>1 DEF RequestRow
    <3>3. requests' = [requests EXCEPT ![r] =
            [requests[r] EXCEPT !.status = "cancelled",
                                !.decidedBy = requests[r].decidedBy]]
      BY <2>1, <2>4, <3>2
    <3>4. requests[r].decidedBy \in User \cup {None}
      BY <3>1 DEF RequestRow
    <3>5. QED
      BY <2>1, <2>2, <2>4, <3>3, <3>4
  <2>5. QED
    BY <1>1, <2>3, <2>4 DEF CancelRequest
<1>2. CASE RejectRequest(c)
  <2>1. calls[c].request \in Request /\ calls[c].user \in User
    BY <1>2 DEF RejectRequest, AtStep, Inv, TypeOK, CallInv, CallOK, CallState
  <2> DEFINE r == calls[c].request
  <2>2. UNCHANGED <<now, grants>>
    BY <1>2 DEF RejectRequest, env
  <2>3. CASE UNCHANGED requests
    BY <2>2, <2>3
  <2>4. CASE /\ requests[r].status = "pending"
             /\ requests' = [requests EXCEPT ![r].status = "rejected",
                                             ![r].decidedBy = calls[c].user]
    <3>1. requests' = [requests EXCEPT ![r] =
            [requests[r] EXCEPT !.status = "rejected",
                                !.decidedBy = calls[c].user]]
      BY <2>1, <2>4 DEF Inv, TypeOK
    <3>2. QED
      BY <2>1, <2>2, <2>4, <3>1
  <2>5. QED
    BY <1>2, <2>3, <2>4 DEF RejectRequest
<1>3. QED
  BY <1>1, <1>2

(* Revoking changes the status of one live grant, or nothing.               *)
LEMMA RevokeStep ==
  ASSUME Inv, NEW c \in Call, RevokeGrant(c)
  PROVE  /\ UNCHANGED <<now, requests>>
         /\ \/ UNCHANGED grants
            \/ \E g \in Grant :
                 /\ grants[g].status = "live"
                 /\ grants' = [grants EXCEPT ![g] =
                      [grants[g] EXCEPT !.status = "revoked",
                                        !.revokedAt = now]]
<1>1. calls[c].grant \in Grant
  BY DEF RevokeGrant, AtStep, Inv, TypeOK, CallInv, CallOK, CallState
<1>2. UNCHANGED <<now, requests>>
  BY DEF RevokeGrant, env
<1>3. CASE ~ Revocable(calls[c].grant)
  BY <1>2, <1>3 DEF RevokeGrant
<1>4. CASE Revocable(calls[c].grant)
  <2>1. grants' = [grants EXCEPT ![calls[c].grant] =
                     [grants[calls[c].grant] EXCEPT !.status = "revoked",
                                                    !.revokedAt = now]]
    BY <1>1, <1>4 DEF RevokeGrant, Inv, TypeOK
  <2>2. QED
    BY <1>1, <1>2, <1>4, <2>1 DEF Revocable
<1>5. QED
  BY <1>3, <1>4

(* Committing an approval turns a pending request and a free grant id into  *)
(* a pair.                                                                  *)
LEMMA CommitStep ==
  ASSUME Inv, NEW c \in Call, NEW g \in Grant, CommitApproval(c, g)
  PROVE  \E r \in Request, by \in User, until \in 0..(now + MaxDuration) :
           /\ requests[r].status = "pending" /\ grants[g].status = "none"
           /\ requests[r].user # by
           /\ requests' = [requests EXCEPT ![r] =
                [requests[r] EXCEPT !.status = "approved", !.decidedBy = by,
                                    !.grant = g]]
           /\ grants' = [grants EXCEPT ![g] =
                [status |-> "live", user |-> requests[r].user,
                 asset |-> requests[r].asset, grantedBy |-> by,
                 expires |-> until, revokedAt |-> 0, request |-> r,
                 alias |-> FALSE]]
           /\ UNCHANGED now
<1> DEFINE r == calls[c].request
<1>1. /\ calls[c] \in CallState /\ CallOK(calls[c])
      /\ calls[c].op = "approve" /\ calls[c].pc = "locked"
      /\ grants[g].status = "none" /\ UNCHANGED now
  BY DEF CommitApproval, AtStep, env, Inv, TypeOK, CallInv
<1>2. /\ r \in Request /\ calls[c].user \in User
      /\ requests[r] \in RequestRow /\ requests[r].status = "pending"
      /\ requests[r].user # calls[c].user
      /\ requests[r].duration <= MaxDuration
      /\ calls[c].expires <= now + requests[r].duration
      /\ now \in Nat /\ calls[c].expires \in Nat
  BY <1>1 DEF CallOK, CallState, Approvable, IsSelf, TextOf, Inv, TypeOK, CallInv
<1>3. calls[c].expires \in 0..(now + MaxDuration)
  BY <1>2, DurationAssumption DEF RequestRow
<1>4. requests' = [requests EXCEPT ![r] =
        [requests[r] EXCEPT !.status = "approved",
                            !.decidedBy = calls[c].user, !.grant = g]]
  BY <1>2 DEF CommitApproval, Inv, TypeOK
<1>5. QED
  BY <1>1, <1>2, <1>3, <1>4 DEF CommitApproval

(* The handlers' reads, checks and locks write neither table.               *)
LEMMA QuietStep ==
  ASSUME Inv, NEW c \in Call,
         \/ Serve(c) \/ Abort(c) \/ CheckCreateGrant(c)
         \/ CheckApproveRequest(c) \/ LockRequest(c)
  PROVE  UNCHANGED <<now, requests, grants>>
<1>1. CASE Serve(c)
  BY <1>1, ServeStep DEF Inv
<1>2. CASE \/ Abort(c) \/ CheckCreateGrant(c) \/ CheckApproveRequest(c)
           \/ LockRequest(c)
  BY <1>2
  DEF Abort, CheckCreateGrant, CheckApproveRequest, LockRequest, env, db
<1>3. QED
  BY <1>1, <1>2

(* No step from a state of the invariant rewrites history.                  *)
LEMMA HistoryLemma == Inv /\ [Next]_vars => [HistoryStep]_vars
<1> SUFFICES ASSUME Inv, Next PROVE HistoryStep
  OBVIOUS
<1>1. CASE UNCHANGED <<requests, grants>>
  BY <1>1 DEF HistoryStep
<1>2. ASSUME NEW c \in Call, NEW g \in Grant, InsertGrant(c, g)
      PROVE  HistoryStep
  BY <1>2 DEF InsertGrant, HistoryStep, Inv, TypeOK
<1>3. ASSUME NEW c \in Call, NEW r \in Request, CreateRequest(c, r)
      PROVE  HistoryStep
  BY <1>3 DEF CreateRequest, HistoryStep, Inv, TypeOK
<1>4. ASSUME NEW c \in Call, CancelRequest(c) \/ RejectRequest(c)
      PROVE  HistoryStep
  BY <1>4, CloseStep DEF HistoryStep, Inv, TypeOK
<1>5. ASSUME NEW c \in Call, RevokeGrant(c)
      PROVE  HistoryStep
  BY <1>5, RevokeStep DEF HistoryStep, Inv, TypeOK
<1>6. ASSUME NEW c \in Call, NEW g \in Grant, CommitApproval(c, g)
      PROVE  HistoryStep
  <2>1. \E r \in Request :
           /\ requests[r].status = "pending" /\ grants[g].status = "none"
           /\ \E x, y : requests' = [requests EXCEPT ![r] = x] /\ grants' = [grants EXCEPT ![g] = y]
    <3>1. PICK r \in Request, by \in User, until \in 0..(now + MaxDuration) :
             /\ requests[r].status = "pending" /\ grants[g].status = "none"
             /\ requests[r].user # by
             /\ requests' = [requests EXCEPT ![r] =
                  [requests[r] EXCEPT !.status = "approved", !.decidedBy = by,
                                      !.grant = g]]
             /\ grants' = [grants EXCEPT ![g] =
                  [status |-> "live", user |-> requests[r].user,
                   asset |-> requests[r].asset, grantedBy |-> by,
                   expires |-> until, revokedAt |-> 0, request |-> r,
                 alias |-> FALSE]]
             /\ UNCHANGED now
      BY <1>6, CommitStep, Zenon
    <3> QED BY <3>1
  <2>2. PICK r \in Request :
           /\ requests[r].status = "pending" /\ grants[g].status = "none"
           /\ \E x, y : requests' = [requests EXCEPT ![r] = x] /\ grants' = [grants EXCEPT ![g] = y]
    BY <2>1
  <2>3. /\ \A q \in Request \ {r} : requests'[q] = requests[q]
        /\ \A f \in Grant \ {g} : grants'[f] = grants[f]
    BY <1>6, <2>2 DEF Inv, TypeOK
  <2> QED BY <2>2, <2>3 DEF HistoryStep
<1>7. Environment => UNCHANGED <<requests, grants>>
  BY EnvironmentStep DEF Inv
<1>8. QED
  BY <1>1, <1>2, <1>3, <1>4, <1>5, <1>6, <1>7, QuietStep DEF Next, Proceed

(* Decided requests and revoked grants never change again.                  *)
THEOREM HistoryIsFinal == Spec => HistoryFinal
<1>1. QED
  BY Invariance, HistoryLemma, PTL DEF Spec, HistoryFinal

-----------------------------------------------------------------------------
(* The scope of the approver.                                               *)

(* The asset a call is about, as the scope query of its handler sees it.    *)
TargetAttrs(call) ==
  IF call.op = "createGrant" THEN AssetScopeAttrs(call.asset)
                             ELSE RequestAssetScopeAttrs(call.request)

(* A call that nothing raced still carries its caller's identity and, once  *)
(* past the scope check, is within the policy.                              *)
InScope(call) ==
  /\ call.id = CurrentIdentity(call.user)
  /\ call.op \in {"createGrant", "approve"} /\ call.pc \in {"checked", "locked"} =>
       MayAct(RowsOf(call.user), "bastion.grant:write", TargetAttrs(call))

CallsInScope ==
  \A c \in Call : /\ calls[c].op = "createGrant" => calls[c].request = None
                  /\ calls[c].pc # "idle" /\ c \notin raced => InScope(calls[c])

(* The check of both boundaries, with the caller's own identity, decides as *)
(* the policy does.                                                         *)
LEMMA ScopeIsPolicy ==
  ASSUME NEW u, NEW a
  PROVE  EnforceGrantScope(CurrentIdentity(u), a) <=>
           MayAct(RowsOf(u), "bastion.grant:write", a)
<1>1. "bastion.grant:write" \in Perm
  BY DEF Perm
<1>2. \A rows : AdmitsAsset(IdentityForUser(rows), "bastion.grant:write", a) <=>
                  MayAct(rows, "bastion.grant:write", a)
  BY <1>1, EvaluatorIsPolicy
<1>3. QED
  BY <1>2 DEF EnforceGrantScope, CurrentIdentity

(* Who may act on what cannot be resolved may act on everything.            *)
LEMMA MayActUnresolved ==
  ASSUME NEW rows, NEW p, NEW a, MayAct(rows, p, None)
  PROVE  MayAct(rows, p, a)
BY DEF MayAct

(* A step of the call c: the others stay within the policy when the asset   *)
(* of a request stays, or appears for one that did not exist.               *)
LEMMA ScopeKept ==
  ASSUME Inv, CallsInScope, NEW c \in Call, UNCHANGED <<roles, attrs>>,
         \A d \in Call \ {c} : calls'[d] = calls[d] /\ (d \in raced => d \in raced'),
         calls'[c].op = "createGrant" => calls'[c].request = None,
         calls'[c].pc # "idle" /\ c \notin raced' => InScope(calls[c])',
         \A r \in Request : RequestAssetScopeAttrs(r) \in
                              {None, RequestAssetScopeAttrs(r)'}
  PROVE  CallsInScope'
<1>1. ASSUME NEW d \in Call \ {c}, calls'[d].pc # "idle", d \notin raced'
      PROVE  InScope(calls[d])'
  <2>1. InScope(calls[d]) /\ calls'[d] = calls[d]
    BY <1>1 DEF CallsInScope
  <2>2. RowsOf(calls[d].user)' = RowsOf(calls[d].user)
    BY <2>1 DEF RowsOf
  <2>3. calls[d].id' = CurrentIdentity(calls[d].user)'
    BY <2>1, <2>2 DEF InScope, CurrentIdentity
  <2>4. calls[d].op = "createGrant" => TargetAttrs(calls[d])' = TargetAttrs(calls[d])
    BY <2>1 DEF TargetAttrs, AssetScopeAttrs
  <2>5. calls[d].op = "approve" =>
          TargetAttrs(calls[d]) \in {None, TargetAttrs(calls[d])'}
    <3>1. calls[d].op = "approve" => calls[d].request \in Request
      BY DEF Inv, TypeOK, CallInv, CallOK, CallState
    <3>2. PICK r : r = calls[d].request
      OBVIOUS
    <3>3. calls[d].op = "approve" =>
            /\ TargetAttrs(calls[d]) = RequestAssetScopeAttrs(r)
            /\ TargetAttrs(calls[d])' = RequestAssetScopeAttrs(r)'
      BY <2>1, <3>2 DEF TargetAttrs, RequestAssetScopeAttrs
    <3>4. QED
      BY <3>1, <3>2, <3>3
  <2>6. QED
    BY <2>1, <2>2, <2>3, <2>4, <2>5, MayActUnresolved DEF InScope
<1>2. QED
  BY <1>1 DEF CallsInScope

(* What the handlers' writes do to the asset a request is for.              *)
LEMMA RequestAssetKept ==
  ASSUME Inv, NEW c \in Call, Serve(c) \/ Proceed(c) \/ Abort(c)
  PROVE  /\ UNCHANGED <<roles, attrs>>
         /\ \A r \in Request : RequestAssetScopeAttrs(r) \in
                                 {None, RequestAssetScopeAttrs(r)'}
<1>1. UNCHANGED <<roles, attrs>>
  BY ServeStep DEF Inv, Proceed, Abort, CheckCreateGrant, InsertGrant,
     CommitApproval, RevokeGrant, CreateRequest, CancelRequest, RejectRequest,
     CheckApproveRequest, LockRequest, env
<1>2. ASSUME NEW r \in Request, requests[r].status # "none"
      PROVE  requests'[r].status # "none" /\ requests'[r].asset = requests[r].asset
  <2>1. CASE UNCHANGED requests
    BY <1>2, <2>1
  <2>2. ASSUME NEW q \in Request, CreateRequest(c, q)
        PROVE  requests'[r] = requests[r]
    BY <1>2, <2>2 DEF CreateRequest, Inv, TypeOK
  <2>3. CASE CancelRequest(c) \/ RejectRequest(c)
    <3>1. ASSUME NEW q \in Request, NEW by, NEW s \in {"cancelled", "rejected"},
                 requests' = [requests EXCEPT ![q] =
                   [requests[q] EXCEPT !.status = s, !.decidedBy = by]]
          PROVE  requests'[r].status # "none" /\ requests'[r].asset = requests[r].asset
      <4>1. requests \in [Request -> RequestRow]
        BY DEF Inv, TypeOK
      <4>2. CASE q = r
        BY <3>1, <4>1, <4>2 DEF RequestRow
      <4>3. CASE q # r
        BY <1>2, <3>1, <4>1, <4>3
      <4>4. QED
        BY <4>2, <4>3
    <3>2. QED
      BY <2>1, <2>3, <3>1, CloseStep
  <2>4. ASSUME NEW g \in Grant, CommitApproval(c, g)
        PROVE  requests'[r].status # "none" /\ requests'[r].asset = requests[r].asset
    <3>1. calls[c].request \in Request
      BY <2>4 DEF CommitApproval, AtStep, Inv, TypeOK, CallInv, CallOK, CallState
    <3>2. QED
      BY <1>2, <2>4, <3>1 DEF CommitApproval, Inv, TypeOK, RequestRow
  <2>5. QED
    BY <1>2, <2>1, <2>2, <2>3, <2>4, ServeStep
    DEF Inv, Proceed, Abort, CheckCreateGrant, InsertGrant, RevokeGrant,
        CheckApproveRequest, LockRequest, db
<1>3. QED
  BY <1>1, <1>2 DEF RequestAssetScopeAttrs

(* The call that answers leaves the others as they are.                     *)
LEMMA ReturnScope ==
  ASSUME Inv, CallsInScope, NEW c \in Call, Return(c), UNCHANGED <<roles, attrs>>,
         \A r \in Request : RequestAssetScopeAttrs(r) \in
                              {None, RequestAssetScopeAttrs(r)'}
  PROVE  CallsInScope'
<1>1. /\ calls'[c].op = "none" /\ calls'[c].pc = "idle"
      /\ \A d \in Call \ {c} : calls'[d] = calls[d] /\ (d \in raced => d \in raced')
  BY DEF Return, Inv, TypeOK, Idle
<1>2. QED
  BY <1>1, ScopeKept

(* A call that begins carries its caller's identity.                        *)
LEMMA ServeScope ==
  ASSUME Inv, CallsInScope, NEW c \in Call, Serve(c)
  PROVE  CallsInScope'
<1>1. PICK call : BegunOK(call) /\ calls' = [calls EXCEPT ![c] = call]
  BY ServeStep DEF Inv
<1>2. /\ calls'[c] = call
      /\ \A d \in Call \ {c} : calls'[d] = calls[d]
      /\ UNCHANGED <<raced, roles, attrs>>
  BY <1>1, ServeStep DEF Inv, TypeOK
<1>3. RowsOf(calls[c].user)' = RowsOf(call.user)
  BY <1>2 DEF RowsOf
<1>4. InScope(calls[c])'
  BY <1>1, <1>2, <1>3 DEF InScope, BegunOK, CurrentIdentity
<1>5. QED
  BY <1>1, <1>2, <1>4, RequestAssetKept, ScopeKept DEF BegunOK

(* A call that moves on past the check, or with it behind.                  *)
LEMMA AdvanceScope ==
  ASSUME Inv, CallsInScope, NEW c \in Call, NEW call, Goto(c, call),
         UNCHANGED <<roles, attrs, requests>>,
         call.op = "createGrant" => call.request = None,
         c \notin raced => InScope(call)
  PROVE  CallsInScope'
<1>1. /\ calls'[c] = call
      /\ \A d \in Call \ {c} : calls'[d] = calls[d]
      /\ UNCHANGED raced
  BY DEF Goto, Inv, TypeOK
<1>2. c \notin raced => InScope(calls[c])'
  BY <1>1 DEF InScope, CurrentIdentity, RowsOf, TargetAttrs, AssetScopeAttrs,
              RequestAssetScopeAttrs
<1>3. \A r \in Request : RequestAssetScopeAttrs(r)' = RequestAssetScopeAttrs(r)
  BY DEF RequestAssetScopeAttrs
<1>4. QED
  BY <1>1, <1>2, <1>3, ScopeKept

(* createGrant's check.                                                     *)
LEMMA CheckCreateGrantScope ==
  ASSUME Inv, CallsInScope, NEW c \in Call, CheckCreateGrant(c)
  PROVE  CallsInScope'
<1> DEFINE call == [calls[c] EXCEPT !.pc = "checked",
                      !.expires = now + EffectiveDuration(calls[c].duration)]
<1>1. /\ calls[c] \in CallState /\ calls[c].op = "createGrant"
      /\ calls[c].pc = "begun" /\ UNCHANGED <<roles, attrs, requests>>
      /\ calls[c].request = None
      /\ c \notin raced => InScope(calls[c])
  BY DEF CheckCreateGrant, AtStep, Inv, TypeOK, CallsInScope, env, db
<1>2. CASE Return(c)
  BY <1>1, <1>2, ReturnScope DEF RequestAssetScopeAttrs
<1>3. CASE /\ Goto(c, call)
           /\ EnforceGrantScope(calls[c].id, AssetScopeAttrs(calls[c].asset))
  <2>1. /\ call.op = "createGrant" /\ call.request = None
        /\ call.user = calls[c].user /\ call.id = calls[c].id
        /\ call.asset = calls[c].asset
    BY <1>1 DEF CallState
  <2> HIDE DEF call
  <2>2. ASSUME c \notin raced PROVE InScope(call)
    <3>1. calls[c].id = CurrentIdentity(calls[c].user)
      BY <1>1, <2>2 DEF InScope
    <3>2. MayAct(RowsOf(calls[c].user), "bastion.grant:write",
                 AssetScopeAttrs(calls[c].asset))
      BY <1>3, <3>1, ScopeIsPolicy
    <3>3. QED
      BY <2>1, <3>1, <3>2 DEF InScope, TargetAttrs
  <2>3. QED
    BY <1>1, <1>3, <2>1, <2>2, AdvanceScope
<1>4. QED
  BY <1>2, <1>3 DEF CheckCreateGrant

(* approveRequest's check.                                                  *)
LEMMA CheckApproveRequestScope ==
  ASSUME Inv, CallsInScope, NEW c \in Call, CheckApproveRequest(c)
  PROVE  CallsInScope'
<1> DEFINE call == [calls[c] EXCEPT !.pc = "checked"]
<1>1. /\ calls[c] \in CallState /\ calls[c].op = "approve"
      /\ calls[c].pc = "begun" /\ UNCHANGED <<roles, attrs, requests>>
      /\ c \notin raced => InScope(calls[c])
  BY DEF CheckApproveRequest, AtStep, Inv, TypeOK, CallsInScope, env, db
<1>2. CASE Return(c)
  BY <1>1, <1>2, ReturnScope DEF RequestAssetScopeAttrs
<1>3. CASE /\ Goto(c, call)
           /\ EnforceGrantScope(calls[c].id, RequestAssetScopeAttrs(calls[c].request))
  <2>1. /\ call.op = "approve" /\ call.request = calls[c].request
        /\ call.user = calls[c].user /\ call.id = calls[c].id
    BY <1>1 DEF CallState
  <2> HIDE DEF call
  <2>2. ASSUME c \notin raced PROVE InScope(call)
    <3>1. calls[c].id = CurrentIdentity(calls[c].user)
      BY <1>1, <2>2 DEF InScope
    <3>2. MayAct(RowsOf(calls[c].user), "bastion.grant:write",
                 RequestAssetScopeAttrs(calls[c].request))
      BY <1>3, <3>1, ScopeIsPolicy
    <3>3. QED
      BY <2>1, <3>1, <3>2 DEF InScope, TargetAttrs
  <2>3. QED
    BY <1>1, <1>3, <2>1, <2>2, AdvanceScope
<1>4. QED
  BY <1>2, <1>3 DEF CheckApproveRequest

(* The lock does not change what the call is about.                         *)
LEMMA LockRequestScope ==
  ASSUME Inv, CallsInScope, NEW c \in Call, LockRequest(c)
  PROVE  CallsInScope'
<1> DEFINE call == [calls[c] EXCEPT !.pc = "locked",
                      !.expires = now + requests[calls[c].request].duration]
<1>1. /\ calls[c] \in CallState /\ calls[c].op = "approve"
      /\ calls[c].pc = "checked" /\ UNCHANGED <<roles, attrs, requests>>
      /\ c \notin raced => InScope(calls[c])
  BY DEF LockRequest, AtStep, Inv, TypeOK, CallsInScope, env, db
<1>2. CASE Return(c)
  BY <1>1, <1>2, ReturnScope DEF RequestAssetScopeAttrs
<1>3. CASE Goto(c, call)
  <2>1. /\ call.op = "approve" /\ call.request = calls[c].request
        /\ call.user = calls[c].user /\ call.id = calls[c].id
    BY <1>1 DEF CallState
  <2> HIDE DEF call
  <2>2. c \notin raced => InScope(call)
    BY <1>1, <2>1 DEF InScope, TargetAttrs
  <2>3. QED
    BY <1>1, <1>3, <2>1, <2>2, AdvanceScope
<1>4. QED
  BY <1>2, <1>3 DEF LockRequest

(* The surroundings mark every call they concern.                           *)
LEMMA EnvironmentScope ==
  ASSUME Inv, CallsInScope, Environment
  PROVE  CallsInScope'
<1>1. UNCHANGED <<requests, grants, calls>>
  BY EnvironmentStep DEF Inv
<1>2. ASSUME UNCHANGED <<roles, attrs>>, raced \subseteq raced'
      PROVE  CallsInScope'
  BY <1>1, <1>2 DEF CallsInScope, InScope, CurrentIdentity, RowsOf, TargetAttrs,
                    AssetScopeAttrs, RequestAssetScopeAttrs
<1>3. ASSUME NEW u \in User, NEW new, EditRoles(u, new)
      PROVE  CallsInScope'
  <2>1. ASSUME NEW d \in Call, calls[d].pc # "idle", d \notin raced'
        PROVE  InScope(calls[d])'
    <3>1. calls[d].user # u /\ InScope(calls[d])
      BY <1>3, <2>1 DEF EditRoles, CallsInScope
    <3>2. UNCHANGED attrs /\ roles'[calls[d].user] = roles[calls[d].user]
      BY <1>3, <3>1 DEF EditRoles, Inv, TypeOK
    <3>3. RowsOf(calls[d].user)' = RowsOf(calls[d].user)
      BY <1>1, <3>2 DEF RowsOf
    <3>4. QED
      BY <1>1, <3>1, <3>2, <3>3 DEF InScope, CurrentIdentity, TargetAttrs,
                                    AssetScopeAttrs, RequestAssetScopeAttrs
  <2>2. QED
    BY <1>1, <2>1 DEF CallsInScope
<1>4. ASSUME NEW a \in Asset, NEW new, EditAsset(a, new)
      PROVE  CallsInScope'
  <2>1. ASSUME NEW d \in Call, calls[d].pc # "idle", d \notin raced'
        PROVE  InScope(calls[d])'
    <3>1. TargetAsset(d) # a /\ InScope(calls[d])
      BY <1>4, <2>1 DEF EditAsset, CallsInScope
    <3>2. UNCHANGED roles /\ \A b \in Asset \ {a} : attrs'[b] = attrs[b]
      BY <1>4 DEF EditAsset, Inv, TypeOK
    <3>3. RowsOf(calls[d].user)' = RowsOf(calls[d].user)
      BY <1>1, <3>2 DEF RowsOf
    <3>4. CASE calls[d].op = "createGrant"
      <4>1. calls[d].asset \in Asset /\ calls[d].asset # a
        BY <3>1, <3>4 DEF TargetAsset, CallsInScope, Inv, TypeOK, CallInv,
                          CallOK, CallState
      <4>2. TargetAttrs(calls[d])' = TargetAttrs(calls[d])
        BY <1>1, <3>2, <3>4, <4>1 DEF TargetAttrs, AssetScopeAttrs
      <4>3. QED
        BY <1>1, <3>1, <3>3, <4>2 DEF InScope, CurrentIdentity
    <3>5. CASE calls[d].op = "approve"
      <4>1. calls[d].request \in Request /\ calls[d].request # None
        BY <3>5, NoneAssumption DEF Inv, TypeOK, CallInv, CallOK, CallState
      <4>2. requests[calls[d].request].status # "none" =>
              /\ requests[calls[d].request].asset \in Asset
              /\ requests[calls[d].request].asset # a
        BY <3>1, <4>1 DEF TargetAsset, Inv, TypeOK, RequestRow
      <4>3. TargetAttrs(calls[d])' = TargetAttrs(calls[d])
        BY <1>1, <3>2, <3>5, <4>2 DEF TargetAttrs, RequestAssetScopeAttrs
      <4>4. QED
        BY <1>1, <3>1, <3>3, <4>3 DEF InScope, CurrentIdentity
    <3>6. CASE calls[d].op \notin {"createGrant", "approve"}
      BY <1>1, <3>1, <3>3, <3>6 DEF InScope, CurrentIdentity
    <3>7. QED
      BY <3>4, <3>5, <3>6
  <2>2. QED
    BY <1>1, <2>1 DEF CallsInScope
<1>5. CASE Tick
  BY <1>2, <1>5 DEF Tick
<1>6. ASSUME NEW e \in RoleEdits,
             BindRoleToUser(e[1], e[2]) \/ UnbindRoleFromUser(e[1], e[2])
      PROVE  CallsInScope'
  <2>1. e[1] \in User
    BY RoleAssumption
  <2>2. QED
    BY <1>3, <1>6, <2>1 DEF BindRoleToUser, UnbindRoleFromUser
<1>7. QED
  BY <1>4, <1>5, <1>6 DEF Environment, UpdateAsset, DeleteAsset

(* Every step keeps the calls in scope.                                     *)
LEMMA ScopeNext == Inv /\ CallsInScope /\ [Next]_vars => CallsInScope'
<1> SUFFICES ASSUME Inv, CallsInScope, [Next]_vars PROVE CallsInScope'
  OBVIOUS
<1>1. ASSUME NEW c \in Call, Proceed(c) \/ Abort(c) PROVE CallsInScope'
  <2>1. CASE Return(c)
    BY <1>1, <2>1, RequestAssetKept, ReturnScope
  <2>2. CASE CheckCreateGrant(c) \/ CheckApproveRequest(c) \/ LockRequest(c)
    BY <2>2, CheckCreateGrantScope, CheckApproveRequestScope, LockRequestScope
  <2>3. QED
    BY <1>1, <2>1, <2>2 DEF Proceed, Abort, InsertGrant, CommitApproval,
       RevokeGrant, CreateRequest, CancelRequest, RejectRequest
<1>2. CASE UNCHANGED vars
  BY <1>2 DEF vars, CallsInScope, InScope, CurrentIdentity, RowsOf, TargetAttrs,
              AssetScopeAttrs, RequestAssetScopeAttrs
<1>3. QED
  BY <1>1, <1>2, ServeScope, EnvironmentScope DEF Next

(* The step formula of ScopeEnforced.                                       *)
ScopeStep ==
  \A g \in Grant :
    ~ Issued(g) /\ grants'[g].status # "none" =>
      \E c \in Call :
        /\ calls[c].pc # "idle" /\ calls'[c] = Idle
        /\ c \in raced \/ MayAct(RowsOf(grants'[g].grantedBy),
                                "bastion.grant:write",
                                attrs[grants'[g].asset])

(* Grants appear in two places, both behind the check.                      *)
LEMMA ScopeLemma == Inv /\ CallsInScope /\ [Next]_vars => [ScopeStep]_vars
<1> SUFFICES ASSUME Inv, CallsInScope, Next PROVE ScopeStep
  OBVIOUS
<1>1. CASE UNCHANGED grants
  BY <1>1 DEF ScopeStep, Issued
<1>2. ASSUME NEW c \in Call, NEW g \in Grant, InsertGrant(c, g)
      PROVE  ScopeStep
  <2>1. /\ calls[c].op = "createGrant" /\ calls[c].pc = "checked"
        /\ calls'[c] = Idle
        /\ \A h \in Grant \ {g} : grants'[h] = grants[h]
        /\ grants'[g].grantedBy = calls[c].user /\ grants'[g].asset = calls[c].asset
    BY <1>2 DEF InsertGrant, AtStep, Return, Inv, TypeOK
  <2>2. c \notin raced => MayAct(RowsOf(calls[c].user), "bastion.grant:write",
                                 attrs[calls[c].asset])
    BY <2>1 DEF CallsInScope, InScope, TargetAttrs, AssetScopeAttrs
  <2>3. QED
    BY <2>1, <2>2 DEF ScopeStep, Issued
<1>3. ASSUME NEW c \in Call, NEW g \in Grant, CommitApproval(c, g)
      PROVE  ScopeStep
  <2> DEFINE r == calls[c].request
  <2>1. /\ calls[c].op = "approve" /\ calls[c].pc = "locked"
        /\ calls'[c] = Idle
        /\ \A h \in Grant \ {g} : grants'[h] = grants[h]
        /\ grants'[g].grantedBy = calls[c].user
        /\ grants'[g].asset = requests[r].asset
    BY <1>3 DEF CommitApproval, AtStep, Return, Inv, TypeOK
  <2>2. requests[r].status = "pending"
    BY <2>1 DEF Inv, CallInv, CallOK, Approvable
  <2>3. c \notin raced => MayAct(RowsOf(calls[c].user), "bastion.grant:write",
                                 attrs[requests[r].asset])
    BY <2>1, <2>2 DEF CallsInScope, InScope, TargetAttrs, RequestAssetScopeAttrs
  <2>4. QED
    BY <2>1, <2>3 DEF ScopeStep, Issued
<1>4. ASSUME NEW c \in Call, RevokeGrant(c)
      PROVE  ScopeStep
  <2>1. \A g \in Grant : grants[g].status = "none" => grants'[g].status = "none"
    BY <1>4, RevokeStep DEF Inv, TypeOK
  <2>2. QED
    BY <2>1 DEF ScopeStep, Issued
<1>5. Environment => UNCHANGED grants
  BY EnvironmentStep DEF Inv
<1>6. ASSUME NEW c \in Call, CancelRequest(c) \/ RejectRequest(c)
      PROVE  UNCHANGED grants
  BY <1>6, CloseStep
<1>7. ASSUME NEW c \in Call, NEW r \in Request, CreateRequest(c, r)
      PROVE  UNCHANGED grants
  BY <1>7 DEF CreateRequest
<1>8. QED
  BY <1>1, <1>2, <1>3, <1>4, <1>5, <1>6, <1>7, QuietStep DEF Next, Proceed

(* At both access-creating boundaries, and whatever happens between the     *)
(* check and the insert: a grant whose call nothing raced is one the policy *)
(* lets its granter create.                                                 *)
THEOREM ScopeIsEnforced == Spec => ScopeEnforced
<1>1. Init => CallsInScope
  BY DEF Init, CallsInScope, Idle
<1>2. Inv /\ CallsInScope /\ [Next]_vars =>
        [\A g \in Grant :
           ~ Issued(g) /\ grants'[g].status # "none" =>
             \E c \in Call :
               /\ calls[c].pc # "idle" /\ calls'[c] = Idle
               /\ c \in raced \/ MayAct(RowsOf(grants'[g].grantedBy),
                                       "bastion.grant:write",
                                       attrs[grants'[g].asset])]_vars
  BY ScopeLemma DEF ScopeStep
<1>3. QED
  BY <1>1, <1>2, Invariance, ScopeNext, PTL DEF Spec, ScopeEnforced

-----------------------------------------------------------------------------
(* The refinement, step by step.                                            *)

Claims == [r \in Request |-> [state |-> ClaimState(requests[r].status),
                              user  |-> requests[r].user,
                              asset |-> requests[r].asset]]
Access == [g \in Grant |-> [state |-> AccessState(grants[g].status),
                            user  |-> grants[g].user,
                            asset |-> grants[g].asset,
                            by    |-> grants[g].grantedBy,
                            until |-> grants[g].expires,
                            alias |-> grants[g].alias]]

(* Empty tables are the initial state of the abstract service.              *)
LEMMA JitInit == Init => Jit!Init
BY DEF Init, Jit!Init, Jit!NoClaim, Jit!NoAccess, ClaimState, AccessState,
       NoRequest, NoGrant

(* Cancelling and rejecting are Drop, or invisible.                         *)
LEMMA CloseRefines ==
  ASSUME Inv, NEW c \in Call, CancelRequest(c) \/ RejectRequest(c)
  PROVE  [Jit!Next]_Jit!vars
<1>1. CASE UNCHANGED requests
  BY <1>1, CloseStep DEF Jit!vars
<1>2. ASSUME NEW r \in Request, NEW by \in User \cup {None},
             NEW s \in {"cancelled", "rejected"},
             requests[r].status = "pending",
             requests' = [requests EXCEPT ![r] =
               [requests[r] EXCEPT !.status = s, !.decidedBy = by]]
      PROVE  Jit!Next
  <2>1. Claims[r].state = "open"
    BY <1>2 DEF Claims, ClaimState
  <2>2. Claims' = [Claims EXCEPT ![r].state = "closed"]
    <3>1. requests \in [Request -> RequestRow]
      BY DEF Inv, TypeOK
    <3>2. /\ requests'[r].status = s
          /\ requests'[r].user = requests[r].user
          /\ requests'[r].asset = requests[r].asset
      BY <1>2, <3>1 DEF RequestRow
    <3>3. \A q \in Request : q # r => requests'[q] = requests[q]
      BY <1>2, <3>1
    <3>4. ClaimState(s) = "closed"
      BY DEF ClaimState
    <3>5. Claims'[r] = [Claims[r] EXCEPT !.state = "closed"]
      BY <3>2, <3>4 DEF Claims
    <3>6. \A q \in Request : q # r => Claims'[q] = Claims[q]
      BY <3>3 DEF Claims
    <3>7. QED
      BY <3>5, <3>6 DEF Claims
  <2>3. Jit!Drop(r)
    BY <2>1, <2>2, CloseStep DEF Jit!Drop, Claims
  <2>4. QED
    BY <2>3 DEF Jit!Next
<1>3. QED
  BY <1>1, <1>2, CloseStep

(* Revoking is Withdraw, or invisible.                                      *)
LEMMA RevokeRefines ==
  ASSUME Inv, NEW c \in Call, RevokeGrant(c)
  PROVE  [Jit!Next]_Jit!vars
<1>1. CASE UNCHANGED grants
  BY <1>1, RevokeStep DEF Jit!vars
<1>2. ASSUME NEW g \in Grant, grants[g].status = "live",
             grants' = [grants EXCEPT ![g] =
               [grants[g] EXCEPT !.status = "revoked", !.revokedAt = now]]
      PROVE  Jit!Next
  <2>1. Access[g].state = "live"
    BY <1>2 DEF Access, AccessState
  <2>2. Access' = [Access EXCEPT ![g].state = "withdrawn"]
    <3>1. grants \in [Grant -> GrantRow]
      BY DEF Inv, TypeOK
    <3>2. /\ grants'[g].status = "revoked"
          /\ grants'[g].user = grants[g].user
          /\ grants'[g].asset = grants[g].asset
          /\ grants'[g].grantedBy = grants[g].grantedBy
          /\ grants'[g].expires = grants[g].expires
          /\ grants'[g].alias = grants[g].alias
      BY <1>2, <3>1 DEF GrantRow
    <3>3. \A h \in Grant : h # g => grants'[h] = grants[h]
      BY <1>2, <3>1
    <3>4. Access'[g] = [Access[g] EXCEPT !.state = "withdrawn"]
      BY <3>2 DEF Access, AccessState
    <3>5. \A h \in Grant : h # g => Access'[h] = Access[h]
      BY <3>3 DEF Access
    <3>6. QED
      BY <3>4, <3>5 DEF Access
  <2>3. Jit!Withdraw(g)
    BY <2>1, <2>2, RevokeStep DEF Jit!Withdraw, Access
  <2>4. QED
    BY <2>3 DEF Jit!Next
<1>3. QED
  BY <1>1, <1>2, RevokeStep

(* Creating a request is File.                                              *)
LEMMA CreateRequestRefines ==
  ASSUME Inv, NEW c \in Call, NEW r \in Request, CreateRequest(c, r)
  PROVE  Jit!Next
<1>1. /\ calls[c] \in CallState /\ CallOK(calls[c])
      /\ calls[c].op = "createRequest" /\ UNCHANGED <<now, grants>>
      /\ requests[r].status = "none"
  BY DEF CreateRequest, AtStep, env, Inv, TypeOK, CallInv
<1>2. PICK u \in User, a \in Asset : u = calls[c].user /\ a = calls[c].asset
  BY <1>1 DEF CallOK, CallState
<1>3. Claims[r].state = "none"
  BY <1>1 DEF Claims, ClaimState
<1>4. Claims' = [Claims EXCEPT ![r] =
                   [state |-> "open", user |-> u, asset |-> a]]
  BY <1>2
  DEF CreateRequest, Claims, ClaimState, NoRequest, Inv, TypeOK, RequestRow
<1>5. Jit!File(r, u, a)
  BY <1>1, <1>3, <1>4 DEF Jit!File, Claims
<1>6. QED
  BY <1>5 DEF Jit!Next

(* A direct grant is ConferDirectly: the caller checked both of its         *)
(* conditions.                                                              *)
LEMMA InsertGrantRefines ==
  ASSUME Inv, NEW c \in Call, NEW g \in Grant, InsertGrant(c, g)
  PROVE  Jit!Next
<1>1. /\ calls[c] \in CallState /\ CallOK(calls[c]) /\ now \in Nat
      /\ calls[c].op = "createGrant" /\ calls[c].pc = "checked"
      /\ UNCHANGED <<now, requests>> /\ grants[g].status = "none"
  BY DEF InsertGrant, AtStep, env, Inv, TypeOK, CallInv
<1>2. /\ calls[c].user \in User /\ calls[c].subject \in User
      /\ calls[c].asset \in Asset /\ calls[c].alias \in BOOLEAN
      /\ calls[c].user # calls[c].subject \/ calls[c].alias
      /\ calls[c].expires \in Nat /\ calls[c].expires <= now + MaxDuration
  BY <1>1 DEF CallOK, CallState
<1>3. calls[c].expires \in 0..(now + MaxDuration)
  BY <1>1, <1>2, DurationAssumption
<1>4. Access[g].state = "none"
  BY <1>1 DEF Access, AccessState
<1>5. Access' = [Access EXCEPT ![g] = [state |-> "live",
                                       user  |-> calls[c].subject,
                                       asset |-> calls[c].asset,
                                       by    |-> calls[c].user,
                                       until |-> calls[c].expires,
                                       alias |-> calls[c].alias]]
  BY DEF InsertGrant, Access, AccessState, Inv, TypeOK, GrantRow
<1>6. Jit!ConferDirectly(g, calls[c].user, calls[c].subject, calls[c].alias,
                         calls[c].asset, calls[c].expires)
  BY <1>1, <1>2, <1>4, <1>5 DEF Jit!ConferDirectly, Jit!Confer, Access
<1>7. QED
  BY <1>2, <1>3, <1>6 DEF Jit!Next

(* The approval transaction is Answer, in one step.                         *)
LEMMA CommitApprovalRefines ==
  ASSUME Inv, NEW c \in Call, NEW g \in Grant, CommitApproval(c, g)
  PROVE  Jit!Next
<1>1. PICK r \in Request, by \in User, until \in 0..(now + MaxDuration) :
           /\ requests[r].status = "pending" /\ grants[g].status = "none"
           /\ requests[r].user # by
           /\ requests' = [requests EXCEPT ![r] =
                [requests[r] EXCEPT !.status = "approved", !.decidedBy = by,
                                    !.grant = g]]
           /\ grants' = [grants EXCEPT ![g] =
                [status |-> "live", user |-> requests[r].user,
                 asset |-> requests[r].asset, grantedBy |-> by,
                 expires |-> until, revokedAt |-> 0, request |-> r,
                 alias |-> FALSE]]
           /\ UNCHANGED now
  BY CommitStep
<1>2. /\ Claims[r].state = "open" /\ Access[g].state = "none"
      /\ Claims[r].user = requests[r].user
      /\ Claims[r].asset = requests[r].asset
  BY <1>1 DEF Claims, Access, ClaimState, AccessState
<1>3. Claims' = [Claims EXCEPT ![r].state = "closed"]
  <2> DEFINE req == [requests[r] EXCEPT !.status = "approved",
                                        !.decidedBy = by, !.grant = g]
  <2>1. /\ req.status = "approved" /\ req.user = requests[r].user
        /\ req.asset = requests[r].asset
    BY DEF Inv, TypeOK, RequestRow
  <2>2. requests' = [requests EXCEPT ![r] = req]
    BY <1>1
  <2> HIDE DEF req
  <2>3. QED
    BY <2>1, <2>2 DEF Claims, ClaimState, Inv, TypeOK
<1>4. Access' = [Access EXCEPT ![g] = [state |-> "live",
                                       user  |-> Claims[r].user,
                                       asset |-> Claims[r].asset,
                                       by    |-> by,
                                       until |-> until,
                                       alias |-> FALSE]]
  BY <1>1, <1>2 DEF Access, AccessState, Inv, TypeOK, GrantRow
<1>5. by # Claims[r].user /\ until <= now + MaxDuration /\ now' = now
  BY <1>1, <1>2
<1>6. Jit!Answer(r, g, by, until)
  BY <1>2, <1>3, <1>4, <1>5 DEF Jit!Answer, Jit!Confer, Claims, Access
<1>7. QED
  BY <1>6 DEF Jit!Next

(* The clock is Advance; edits of roles and assets are invisible.           *)
LEMMA EnvironmentRefines ==
  ASSUME Inv, Environment
  PROVE  [Jit!Next]_Jit!vars
<1>1. UNCHANGED <<requests, grants>>
  BY EnvironmentStep DEF Inv
<1>2. CASE now' = now
  BY <1>1, <1>2 DEF Jit!vars
<1>3. CASE now' = now + 1
  BY <1>1, <1>3 DEF Jit!Advance, Jit!Next
<1>4. QED
  BY <1>2, <1>3 DEF Environment, Tick, BindRoleToUser, UnbindRoleFromUser,
                    EditRoles, UpdateAsset, DeleteAsset, EditAsset

(* Every step is a step of the abstract service, or invisible.              *)
LEMMA JitNext == Inv /\ [Next]_vars => [Jit!Next]_Jit!vars
<1> SUFFICES ASSUME Inv, [Next]_vars PROVE [Jit!Next]_Jit!vars
  OBVIOUS
<1>1. CASE UNCHANGED vars
  BY <1>1 DEF vars, Jit!vars
<1>2. CASE UNCHANGED <<now, requests, grants>>
  BY <1>2 DEF Jit!vars
<1>3. QED
  BY <1>1, <1>2, QuietStep, CloseRefines, RevokeRefines, CreateRequestRefines,
     InsertGrantRefines, CommitApprovalRefines, EnvironmentRefines
  DEF Next, Proceed

(* The detailed handlers implement the abstract service: each of their      *)
(* steps is one step of just-in-time access or invisible to it.             *)
THEOREM Refinement == Spec => ImplementsJit
<1>1. QED
  BY JitInit, Invariance, JitNext, PTL DEF Spec, ImplementsJit, Jit!Spec

(* Direct grants: the two-person rule, aliases apart, and the cap together. *)
THEOREM DirectGrants == Spec => []DirectGrantsSafe
<1>1. Inv => DirectGrantsSafe
  BY DEF Inv, DirectGrantsSafe
<1>2. QED
  BY <1>1, Invariance, PTL

(* Every step is within the scope of the caller, leaves history alone and   *)
(* is a step of JitAccess.                                                  *)
THEOREM DirectSteps == Spec => DirectStepsSafe
BY HistoryIsFinal, ScopeIsEnforced, Refinement, PTL DEF DirectStepsSafe

=============================================================================

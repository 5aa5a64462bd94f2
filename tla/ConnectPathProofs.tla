------------------------- MODULE ConnectPathProofs -------------------------
(***************************************************************************)
(* The invariants of ConnectPath, for any number of users, assets, grants,  *)
(* ticket requests, tickets and sessions, any roles and any length of time. *)
(***************************************************************************)
EXTENDS ConnectPath, FiniteSetTheorems, TLAPS

-----------------------------------------------------------------------------
(* The inductive invariant.                                                 *)

Access == [state: {"none", "live", "withdrawn"}, user: User \cup {None},
           asset: Asset \cup {None}, by: User \cup {None}, until: Nat,
           alias: BOOLEAN]

(* The history variable ends tells the end of a live grant.                 *)
AccessOK ==
  /\ access \in [Grant -> Access]
  /\ \A g \in Grant : access[g].state = "live" => ends[g] = access[g].until

(* A grant for this user and asset that was active when the request came in.*)
Backed(adm) ==
  \E g \in Grant : /\ access[g].state # "none"
                   /\ access[g].user = adm.user
                   /\ access[g].asset = adm.asset
                   /\ ends[g] >= adm.began

(* An admission that is under way or was turned into a ticket.              *)
AdmissionOK(adm) ==
  /\ adm.user \in User /\ adm.asset \in Asset /\ adm.began <= now
  /\ adm.by = "grant" => Backed(adm)

(* The identity a request carries is still its caller's, unless the request *)
(* raced with an edit.                                                      *)
GateOK(gate) ==
  gate.pc # "idle" =>
    /\ AdmissionOK(gate.adm)
    /\ gate.pc \in {"begun", "scoped"} => gate.adm.by = "none"
    /\ ~ gate.adm.raced => gate.id = CurrentIdentity(gate.adm.user)

(* AdmittedInScope, for one request.                                        *)
InScope(gate) ==
  /\ gate.pc = "admitted" /\ gate.adm.by \in {"admin", "role"}
  /\ ~ gate.adm.raced
  => MayAct(RowsOf(gate.adm.user), "bastion.session:connect",
            attrs[gate.adm.asset])

GatesOK == \A c \in Gate : GateOK(gates[c]) /\ InScope(gates[c])

TicketsOK ==
  \A t \in Token : tickets[t].state # "none" => AdmissionOK(tickets[t].adm)

(* A session has used up its ticket, which was for this asset and in time.  *)
SessionOK(session) ==
  session.pc # "idle" =>
    /\ session.token \in Token
    /\ tickets[session.token].state = "gone"
    /\ tickets[session.token].adm.asset = session.asset
    /\ session.start <= tickets[session.token].issued + TTL

SessionsOK == \A s \in Session : SessionOK(sessions[s])

TerminalsOf(u) == {s \in Session : /\ sessions[s].pc = "running"
                                   /\ sessions[s].proto = "terminal"
                                   /\ Holder(s) = u}

SlotsOK ==
  \A u \in User : /\ IsFiniteSet(TerminalsOf(u))
                  /\ slots[u] = Cardinality(TerminalsOf(u))
                  /\ slots[u] <= MaxSessions

Inv ==
  /\ TypeOK
  /\ AccessOK
  /\ GatesOK
  /\ TicketsOK
  /\ SessionsOK
  /\ SingleUse
  /\ SlotsOK

-----------------------------------------------------------------------------
(* Identities.                                                              *)

(* What IdentityForUser collects for one permission.                        *)
LEMMA HoldingOf ==
  ASSUME NEW rows, NEW p \in Perm
  PROVE  LET mine == {row \in rows : row.perm = p}
             h    == IdentityForUser(rows)[p]
         IN  /\ h.held <=> mine # {}
             /\ h.unscoped <=> \E row \in mine : row.scope = {}
             /\ ~ h.unscoped => h.scopes = {row.scope : row \in mine}
BY DEF IdentityForUser

(* What IdentityForUser makes of role rows is an identity.                  *)
LEMMA IdentityForUserType ==
  ASSUME NEW rows \in SUBSET RolePermission
  PROVE  IdentityForUser(rows) \in Identity
<1>1. ASSUME NEW p \in Perm
      PROVE  IdentityForUser(rows)[p] \in Holding
  BY DEF IdentityForUser, Holding, RolePermission
<1>2. QED
  BY <1>1 DEF IdentityForUser, Identity

(* The evaluator is the policy: the theorem of BastionGrantsProofs, which a *)
(* module about other variables cannot extend.                              *)
LEMMA EvaluatorIsPolicy ==
  ASSUME NEW rows, NEW p \in Perm, NEW av
  PROVE  AdmitsAsset(IdentityForUser(rows), p, av) <=> MayAct(rows, p, av)
<1> DEFINE id == IdentityForUser(rows)
<1>1. "system:admin" \in Perm
  BY DEF Perm
<1>2. IsAdmin(id) <=> \E row \in rows : row.perm = "system:admin"
  BY <1>1, HoldingOf DEF IsAdmin
<1>3. /\ id[p].held <=> \E row \in rows : row.perm = p
      /\ id[p].unscoped <=> \E row \in rows : row.perm = p /\ row.scope = {}
      /\ ~ id[p].unscoped =>
           id[p].scopes = {row.scope : row \in {r \in rows : r.perm = p}}
  <2> DEFINE mine == {r \in rows : r.perm = p}
  <2>1. /\ id[p].held <=> mine # {}
        /\ id[p].unscoped <=> \E row \in mine : row.scope = {}
    BY HoldingOf
  <2>2. ~ id[p].unscoped => id[p].scopes = {row.scope : row \in mine}
    BY HoldingOf
  <2>3. /\ mine # {} <=> \E row \in rows : row.perm = p
        /\ (\E row \in mine : row.scope = {}) <=>
             \E row \in rows : row.perm = p /\ row.scope = {}
    OBVIOUS
  <2> HIDE DEF id
  <2> QED BY <2>1, <2>2, <2>3
<1> HIDE DEF id
<1>4. CASE IsAdmin(id)
  BY <1>2, <1>4 DEF AdmitsAsset, Authorize, MayAct, id
<1>5. CASE ~ IsAdmin(id) /\ (~ id[p].held \/ id[p].unscoped \/ av = None)
  BY <1>2, <1>3, <1>5 DEF AdmitsAsset, Authorize, MayAct, id
<1>6. CASE ~ IsAdmin(id) /\ id[p].held /\ ~ id[p].unscoped /\ av # None
  <2>1. AdmitsAsset(id, p, av) <=>
          \E scope \in id[p].scopes : Matches(scope, av)
    BY <1>6 DEF AdmitsAsset, Authorize
  <2>2. MayAct(rows, p, av) <=>
          \E row \in rows : row.perm = p /\ Matches(row.scope, av)
    BY <1>2, <1>3, <1>6 DEF MayAct
  <2>3. (\E scope \in id[p].scopes : Matches(scope, av)) <=>
          \E row \in rows : row.perm = p /\ Matches(row.scope, av)
    BY <1>3, <1>6
  <2> QED BY <2>1, <2>2, <2>3 DEF id
<1> QED BY <1>4, <1>5, <1>6

(* The identity AuthMiddleware reads from the current bindings is one.      *)
LEMMA CurrentIdentityType ==
  ASSUME TypeOK, NEW u \in User
  PROVE  CurrentIdentity(u) \in Identity
<1>1. RowsOf(u) \subseteq RolePermission
  BY ConnectAssumption DEF TypeOK, RowsOf
<1>2. QED
  BY <1>1, IdentityForUserType DEF CurrentIdentity

(* Branch 2 of the middleware, with an identity that is still the caller's, *)
(* decides as the policy does; branch 1 never exceeds it.                   *)
LEMMA RoleAdmitsIsPolicy ==
  ASSUME NEW u, NEW a
  PROVE  /\ RoleAdmits(CurrentIdentity(u), a) <=>
              MayAct(RowsOf(u), "bastion.session:connect", a)
         /\ IsAdmin(CurrentIdentity(u)) =>
              MayAct(RowsOf(u), "bastion.session:connect", a)
<1> DEFINE rows == RowsOf(u)
<1>1. "bastion.session:connect" \in Perm
  BY DEF Perm
<1>2. AdmitsAsset(IdentityForUser(rows), "bastion.session:connect", a) <=>
        MayAct(rows, "bastion.session:connect", a)
  BY <1>1, EvaluatorIsPolicy
<1>3. IsAdmin(IdentityForUser(rows)) =>
        AdmitsAsset(IdentityForUser(rows), "bastion.session:connect", a)
  BY DEF AdmitsAsset, Authorize
<1>4. QED
  BY <1>2, <1>3 DEF RoleAdmits, CurrentIdentity

-----------------------------------------------------------------------------
(* The initial state.                                                       *)

(* The records everything starts from.                                      *)
LEMMA NeutralTypes ==
  /\ NoAdmission \in Admission /\ IdleGate \in GateState
  /\ NoTicket \in Ticket /\ NoSession \in SessionState
BY DEF NoAdmission, Admission, IdleGate, GateState, NoTicket, Ticket,
       NoSession, SessionState

(* An empty server satisfies the invariant.                                 *)
LEMMA InitInv == Init => Inv
<1> SUFFICES ASSUME Init PROVE Inv
  OBVIOUS
<1>1. TypeOK
  BY ConnectAssumption, NeutralTypes DEF Init, TypeOK
<1>2. AccessOK
  BY DEF Init, AccessOK, Access, Jit!NoAccess
<1>3. GatesOK /\ TicketsOK
  BY DEF Init, GatesOK, GateOK, InScope, IdleGate, TicketsOK, NoTicket
<1>4. SessionsOK /\ SingleUse
  BY DEF Init, SessionsOK, SessionOK, SingleUse, Started, NoSession
<1>5. SlotsOK
  <2>1. \A u \in User : TerminalsOf(u) = {}
    BY DEF Init, TerminalsOf, NoSession
  <2>2. \A u \in User : slots[u] = 0
    BY DEF Init
  <2>3. \A u \in User : /\ IsFiniteSet(TerminalsOf(u))
                         /\ Cardinality(TerminalsOf(u)) = 0
    BY <2>1, FS_EmptySet
  <2>4. 0 <= MaxSessions
    BY ConnectAssumption
  <2>5. QED
    BY <2>2, <2>3, <2>4 DEF SlotsOK
<1>6. QED
  BY <1>1, <1>2, <1>3, <1>4, <1>5 DEF Inv

-----------------------------------------------------------------------------
(* The middleware.                                                          *)

(* A request that moves on changes nothing but itself.                      *)
LEMMA GateStep ==
  ASSUME Inv, NEW c \in Gate, NEW gate \in GateState,
         GateOK(gate), InScope(gate), SetGate(c, gate),
         UNCHANGED <<policy, tickets, slots, sessions>>
  PROVE  Inv'
<1> USE DEF policy
<1>1. TypeOK'
  BY DEF Inv, TypeOK, SetGate
<1>2. AccessOK'
  BY DEF Inv, AccessOK
<1>3. GatesOK'
  <2>1. \A d \in Gate : gates'[d] = IF d = c THEN gate ELSE gates[d]
    BY DEF Inv, TypeOK, SetGate
  <2>2. \A d \in Gate : GateOK(gates'[d]) /\ InScope(gates'[d])
    BY <2>1 DEF Inv, GatesOK
  <2>3. QED
    BY <2>2 DEF GatesOK, GateOK, InScope, AdmissionOK, Backed, CurrentIdentity,
                RowsOf
<1>4. TicketsOK'
  BY DEF Inv, TicketsOK, AdmissionOK, Backed
<1>5. SessionsOK' /\ SingleUse'
  BY DEF Inv, SessionsOK, SessionOK, SingleUse, Started
<1>6. SlotsOK'
  BY DEF Inv, SlotsOK, TerminalsOf, Holder
<1>7. QED
  BY <1>1, <1>2, <1>3, <1>4, <1>5, <1>6 DEF Inv

(* A request comes in.                                                      *)
LEMMA BeginTicketInv ==
  ASSUME Inv, NEW c \in Gate, NEW u \in User, NEW a \in Asset,
         BeginTicket(c, u, a)
  PROVE  Inv'
<1> DEFINE id   == CurrentIdentity(u)
           adm  == [user |-> u, asset |-> a,
                    by |-> IF IsAdmin(id) THEN "admin" ELSE "none",
                    began |-> now, raced |-> FALSE]
           gate == [pc |-> IF IsAdmin(id) THEN "admitted" ELSE "begun",
                    adm |-> adm, id |-> id]
<1>1. id \in Identity
  BY CurrentIdentityType DEF Inv
<1>2. now \in Nat
  BY DEF Inv, TypeOK
<1>3. gate \in GateState
  <2> HIDE DEF id
  <2> QED BY <1>1, <1>2 DEF GateState, Admission
<1>4. GateOK(gate)
  <2>1. AdmissionOK(adm)
    BY <1>2 DEF AdmissionOK
  <2>2. QED
    BY <2>1 DEF GateOK
<1>5. InScope(gate)
  BY RoleAdmitsIsPolicy DEF InScope
<1>6. SetGate(c, gate) /\ UNCHANGED <<policy, tickets, slots, sessions>>
  BY DEF BeginTicket
<1>7. QED
  <2> HIDE DEF gate
  <2> QED BY <1>3, <1>4, <1>5, <1>6, GateStep

(* The verdict of the roles.                                                *)
LEMMA CheckRoleInv ==
  ASSUME Inv, NEW c \in Gate, CheckRole(c)
  PROVE  Inv'
<1> DEFINE gate == gates[c]
           ok   == RoleAdmits(gate.id, attrs[gate.adm.asset])
           next == IF ok THEN [gate EXCEPT !.pc = "admitted", !.adm.by = "role"]
                         ELSE [gate EXCEPT !.pc = "scoped"]
<1>1. gate \in GateState /\ gate.pc = "begun"
  BY DEF Inv, TypeOK, CheckRole
<1>2. GateOK(gate)
  BY DEF Inv, GatesOK
<1>3. next \in GateState
  BY <1>1 DEF GateState, Admission
<1>4. next.adm.user = gate.adm.user /\ next.adm.asset = gate.adm.asset
      /\ next.adm.began = gate.adm.began /\ next.adm.raced = gate.adm.raced
      /\ next.id = gate.id
      /\ next.pc = (IF ok THEN "admitted" ELSE "scoped")
      /\ next.adm.by = (IF ok THEN "role" ELSE gate.adm.by)
  BY <1>1 DEF GateState, Admission
<1>5. GateOK(next)
  <2> HIDE DEF next, gate
  <2> QED BY <1>1, <1>2, <1>4 DEF GateOK, AdmissionOK
<1>6. InScope(next)
  <2>1. SUFFICES ASSUME ok, ~ gate.adm.raced
                 PROVE  MayAct(RowsOf(gate.adm.user), "bastion.session:connect",
                               attrs[gate.adm.asset])
    BY <1>1, <1>2, <1>4 DEF InScope, GateOK
  <2>2. gate.id = CurrentIdentity(gate.adm.user)
    BY <1>1, <1>2, <2>1 DEF GateOK
  <2>3. QED
    BY <2>1, <2>2, RoleAdmitsIsPolicy
<1>7. SetGate(c, next) /\ UNCHANGED <<policy, tickets, slots, sessions>>
  BY DEF CheckRole
<1>8. QED
  <2> HIDE DEF next
  <2> QED BY <1>3, <1>5, <1>6, <1>7, GateStep

(* The idle request is in order.                                            *)
LEMMA IdleGateOK == GateOK(IdleGate) /\ InScope(IdleGate)
BY DEF GateOK, InScope, IdleGate

(* The verdict of the grants: one that is active now was when the request   *)
(* came in, for it ends in the future.                                      *)
LEMMA CheckGrantInv ==
  ASSUME Inv, NEW c \in Gate, CheckGrant(c)
  PROVE  Inv'
<1> DEFINE gate == gates[c]
           next == [gate EXCEPT !.pc = "admitted", !.adm.by = "grant"]
<1>1. gate \in GateState /\ gate.pc = "scoped"
  BY DEF Inv, TypeOK, CheckGrant
<1>2. GateOK(gate)
  BY DEF Inv, GatesOK
<1>3. CASE FindActiveGrant(gate.adm.user, gate.adm.asset) # {}
  <2>1. next \in GateState
    BY <1>1 DEF GateState, Admission
  <2>2. next.adm.user = gate.adm.user /\ next.adm.asset = gate.adm.asset
        /\ next.adm.began = gate.adm.began /\ next.adm.raced = gate.adm.raced
        /\ next.id = gate.id /\ next.pc = "admitted" /\ next.adm.by = "grant"
    BY <1>1 DEF GateState, Admission
  <2>3. PICK g \in Grant : g \in FindActiveGrant(gate.adm.user, gate.adm.asset)
    BY <1>3 DEF FindActiveGrant
  <2>4. access[g].state = "live" /\ access[g].until > now
        /\ access[g].user = gate.adm.user /\ access[g].asset = gate.adm.asset
    BY <2>3 DEF FindActiveGrant
  <2>5. ends[g] = access[g].until /\ ends[g] \in Nat /\ now \in Nat
    BY <2>4 DEF Inv, AccessOK, TypeOK
  <2>6. gate.adm.began <= now /\ gate.adm.began \in Nat
    BY <1>1, <1>2 DEF GateOK, AdmissionOK, GateState, Admission
  <2>7. Backed(next.adm)
    <3> HIDE DEF next
    <3> QED BY <2>2, <2>4, <2>5, <2>6 DEF Backed
  <2>8. GateOK(next)
    <3> HIDE DEF next, gate
    <3> QED BY <1>1, <1>2, <2>2, <2>7 DEF GateOK, AdmissionOK
  <2>9. InScope(next)
    <3> HIDE DEF next
    <3> QED BY <2>2 DEF InScope
  <2>10. SetGate(c, next) /\ UNCHANGED <<policy, tickets, slots, sessions>>
    BY <1>3 DEF CheckGrant
  <2>11. QED
    <3> HIDE DEF next
    <3> QED BY <2>1, <2>8, <2>9, <2>10, GateStep
<1>4. CASE FindActiveGrant(gate.adm.user, gate.adm.asset) = {}
  BY <1>4, NeutralTypes, IdleGateOK, GateStep DEF CheckGrant
<1>5. QED
  BY <1>3, <1>4

(* The request is given up.                                                 *)
LEMMA AbortGateInv ==
  ASSUME Inv, NEW c \in Gate, AbortGate(c)
  PROVE  Inv'
BY NeutralTypes, IdleGateOK, GateStep DEF AbortGate

-----------------------------------------------------------------------------
(* Tickets and sessions.                                                    *)

(* A used ticket stays what it was, so sessions are not concerned when the  *)
(* others change.                                                           *)
LEMMA SessionsKept ==
  ASSUME Inv, UNCHANGED <<slots, sessions>>,
         \A t \in Token : tickets[t].state = "gone" => tickets'[t] = tickets[t]
  PROVE  SessionsOK' /\ SingleUse' /\ SlotsOK'
<1>1. SessionsOK'
  BY DEF Inv, SessionsOK, SessionOK
<1>2. SingleUse'
  BY DEF Inv, SingleUse, Started
<1>3. ASSUME NEW u \in User PROVE TerminalsOf(u)' = TerminalsOf(u)
  <2>1. \A s \in Session : sessions[s].pc = "running" => Holder(s)' = Holder(s)
    BY DEF Inv, SessionsOK, SessionOK, Holder
  <2>2. QED
    BY <2>1 DEF TerminalsOf
<1>4. SlotsOK'
  BY <1>3 DEF Inv, SlotsOK
<1>5. QED
  BY <1>1, <1>2, <1>4

(* An admitted request is turned into a ticket.                             *)
LEMMA IssueTicketInv ==
  ASSUME Inv, NEW c \in Gate, NEW t \in Token, IssueTicket(c, t)
  PROVE  Inv'
<1> USE DEF policy
<1> DEFINE ticket == [state |-> "live", adm |-> gates[c].adm, issued |-> now]
<1>1. gates[c] \in GateState /\ gates[c].pc = "admitted" /\ now \in Nat
  BY DEF Inv, TypeOK, IssueTicket
<1>2. ticket \in Ticket
  BY <1>1 DEF Ticket, GateState
<1>3. tickets' = [tickets EXCEPT ![t] = ticket] /\ tickets[t].state = "none"
      /\ SetGate(c, IdleGate) /\ UNCHANGED <<policy, slots, sessions>>
  BY DEF IssueTicket
<1>4. \A r \in Token : tickets'[r] = IF r = t THEN ticket ELSE tickets[r]
  BY <1>3 DEF Inv, TypeOK
<1>5. TypeOK'
  BY <1>2, <1>3, NeutralTypes DEF Inv, TypeOK, SetGate
<1>6. AccessOK'
  BY <1>3 DEF Inv, AccessOK
<1>7. GatesOK'
  <2>1. \A d \in Gate : gates'[d] = IF d = c THEN IdleGate ELSE gates[d]
    BY <1>3 DEF Inv, TypeOK, SetGate
  <2>2. \A d \in Gate : GateOK(gates'[d]) /\ InScope(gates'[d])
    BY <2>1, IdleGateOK DEF Inv, GatesOK
  <2>3. QED
    BY <1>3, <2>2 DEF GatesOK, GateOK, InScope, AdmissionOK, Backed,
                      CurrentIdentity, RowsOf
<1>8. TicketsOK'
  <2>1. AdmissionOK(gates[c].adm)
    BY <1>1 DEF Inv, GatesOK, GateOK
  <2>2. \A r \in Token : tickets'[r].state # "none" =>
                           AdmissionOK(tickets'[r].adm)
    BY <1>4, <2>1 DEF Inv, TicketsOK
  <2>3. QED
    BY <1>3, <2>2 DEF TicketsOK, AdmissionOK, Backed
<1>9. SessionsOK' /\ SingleUse' /\ SlotsOK'
  <2>1. \A r \in Token : tickets[r].state = "gone" => tickets'[r] = tickets[r]
    BY <1>3, <1>4
  <2>2. QED
    BY <1>3, <2>1, SessionsKept
<1>10. QED
  BY <1>5, <1>6, <1>7, <1>8, <1>9 DEF Inv

(* Tickets end; nothing else changes but the sessions.                      *)
LEMMA TicketsEndStep ==
  ASSUME Inv, UNCHANGED policy, UNCHANGED gates,
         tickets' \in [Token -> Ticket],
         \A t \in Token : \/ tickets'[t] = tickets[t]
                          \/ /\ tickets[t].state = "live"
                             /\ tickets'[t] = [tickets[t] EXCEPT !.state = "gone"]
  PROVE  AccessOK' /\ GatesOK' /\ TicketsOK'
<1> USE DEF policy
<1>1. AccessOK' /\ GatesOK'
  BY DEF Inv, AccessOK, GatesOK, GateOK, InScope, AdmissionOK, Backed,
         CurrentIdentity, RowsOf
<1>2. \A t \in Token : /\ tickets'[t].adm = tickets[t].adm
                       /\ tickets'[t].state # "none" => tickets[t].state # "none"
  BY DEF Inv, TypeOK, Ticket
<1>3. TicketsOK'
  BY <1>2 DEF Inv, TicketsOK, AdmissionOK, Backed
<1>4. QED
  BY <1>1, <1>3

(* ConsumeTicket: whoever already has a session used another ticket.        *)
LEMMA ConsumeTicketInv ==
  ASSUME Inv, NEW s \in Session, NEW t \in Token, NEW a \in Asset,
         NEW proto \in {"terminal", "bridge"}, ConsumeTicket(s, t, a, proto)
  PROVE  Inv'
<1> DEFINE used == [tickets[t] EXCEPT !.state = "gone"]
           new  == [pc |-> "consumed", proto |-> proto, asset |-> a,
                    token |-> t, start |-> now]
<1>1. tickets[t] \in Ticket /\ tickets[t].state = "live" /\ now \in Nat
      /\ sessions[s].pc = "idle"
  BY DEF Inv, TypeOK, ConsumeTicket
<1>2. used \in Ticket /\ used.adm = tickets[t].adm /\ used.state = "gone"
      /\ used.issued = tickets[t].issued
  BY <1>1 DEF Ticket
<1>3. tickets' = [tickets EXCEPT ![t] = used] /\ UNCHANGED <<policy, gates, slots>>
  BY <1>1 DEF Ticket, ConsumeTicket, Take, Inv, TypeOK
<1>4. \A r \in Token : tickets'[r] = IF r = t THEN used ELSE tickets[r]
  BY <1>3 DEF Inv, TypeOK
<1> HIDE DEF used
<1>5. tickets' \in [Token -> Ticket]
  BY <1>2, <1>3 DEF Inv, TypeOK
<1>6. AccessOK' /\ GatesOK' /\ TicketsOK'
  BY <1>1, <1>3, <1>4, <1>5, TicketsEndStep DEF used
<1>7. \A r \in Session : Started(r) => /\ sessions[r].token # t
                                       /\ sessions[r].token \in Token
  BY <1>1 DEF Inv, SessionsOK, SessionOK, Started
<1>8. \/ sessions' = sessions
      \/ /\ sessions' = [sessions EXCEPT ![s] = new]
         /\ tickets[t].adm.asset = a /\ now <= tickets[t].issued + TTL
  <2>1. tickets[t].issued + TTL \in Nat
    BY <1>1, ConnectAssumption DEF Ticket
  <2>2. QED
    BY <1>1, <2>1 DEF ConsumeTicket, Expired, TicketMatches
<1>9. CASE sessions' = sessions
  <2>1. TypeOK'
    BY <1>3, <1>5, <1>9 DEF Inv, TypeOK, policy
  <2>2. SessionsOK' /\ SingleUse' /\ SlotsOK'
    BY <1>1, <1>3, <1>4, <1>9, SessionsKept
  <2>3. QED
    BY <1>6, <2>1, <2>2 DEF Inv
<1>10. CASE /\ sessions' = [sessions EXCEPT ![s] = new]
            /\ tickets[t].adm.asset = a /\ now <= tickets[t].issued + TTL
  <2>1. new \in SessionState
    BY <1>1 DEF SessionState
  <2>2. \A r \in Session : sessions'[r] = IF r = s THEN new ELSE sessions[r]
    BY <1>10 DEF Inv, TypeOK
  <2>3. TypeOK'
    BY <1>3, <1>5, <1>10, <2>1 DEF Inv, TypeOK, policy
  <2>4. SessionsOK'
    <3>1. SessionOK(sessions[s])'
      BY <1>2, <1>4, <1>10, <2>2 DEF SessionOK
    <3>2. ASSUME NEW r \in Session, r # s PROVE SessionOK(sessions[r])'
      BY <1>4, <1>7, <2>2, <3>2 DEF Inv, SessionsOK, SessionOK, Started
    <3>3. QED
      BY <3>1, <3>2 DEF SessionsOK
  <2>5. SingleUse'
    BY <1>7, <2>2 DEF Inv, SingleUse, Started
  <2>6. SlotsOK'
    <3>1. ASSUME NEW u \in User PROVE TerminalsOf(u)' = TerminalsOf(u)
      <4>1. \A r \in Session : sessions[r].pc = "running" =>
                                 Holder(r)' = Holder(r)
        BY <1>1, <1>4, <1>7, <2>2 DEF Holder, Started
      <4>2. \A r \in Session : /\ sessions'[r].pc = "running" <=>
                                    sessions[r].pc = "running"
                               /\ sessions[r].pc = "running" =>
                                    sessions'[r] = sessions[r]
        BY <1>1, <2>2
      <4>3. QED
        BY <4>1, <4>2 DEF TerminalsOf
    <3>2. QED
      BY <1>3, <3>1 DEF Inv, SlotsOK
  <2>7. QED
    BY <1>6, <2>3, <2>4, <2>5, <2>6 DEF Inv
<1>11. QED
  BY <1>8, <1>9, <1>10

(* The gc drops tickets that have expired.                                  *)
LEMMA GCInv ==
  ASSUME Inv, GC
  PROVE  Inv'
<1>1. UNCHANGED <<policy, gates, slots, sessions>>
  BY DEF GC
<1>2. \A t \in Token : \/ tickets'[t] = tickets[t]
                       \/ /\ tickets[t].state = "live"
                          /\ tickets'[t] = [tickets[t] EXCEPT !.state = "gone"]
  BY DEF GC
<1>3. tickets' \in [Token -> Ticket]
  BY DEF GC, Inv, TypeOK, Ticket
<1>4. TypeOK'
  BY <1>1, <1>3 DEF Inv, TypeOK, policy
<1>5. AccessOK' /\ GatesOK' /\ TicketsOK'
  BY <1>1, <1>2, <1>3, TicketsEndStep
<1>6. SessionsOK' /\ SingleUse' /\ SlotsOK'
  BY <1>1, <1>2, SessionsKept
<1>7. QED
  BY <1>4, <1>5, <1>6 DEF Inv

(* A session that moves on, started before and after.                       *)
LEMMA MoveStep ==
  ASSUME Inv, NEW s \in Session, NEW pc \in {"running", "closed"},
         SetPc(s, pc), sessions[s].pc # "idle", UNCHANGED <<policy, gates, tickets>>
  PROVE  /\ sessions' \in [Session -> SessionState]
         /\ AccessOK' /\ GatesOK' /\ TicketsOK' /\ SessionsOK' /\ SingleUse'
         /\ \A r \in Session : /\ Holder(r)' = Holder(r)
                               /\ sessions'[r].proto = sessions[r].proto
                               /\ sessions'[r].pc = IF r = s THEN pc
                                                    ELSE sessions[r].pc
<1> USE DEF policy
<1>1. \A r \in Session : /\ sessions'[r].proto = sessions[r].proto
                         /\ sessions'[r].asset = sessions[r].asset
                         /\ sessions'[r].token = sessions[r].token
                         /\ sessions'[r].start = sessions[r].start
                         /\ sessions'[r].pc = IF r = s THEN pc ELSE sessions[r].pc
  BY DEF Inv, TypeOK, SetPc, SessionState
<1>2. sessions' \in [Session -> SessionState]
  BY DEF Inv, TypeOK, SetPc, SessionState
<1>3. AccessOK' /\ GatesOK' /\ TicketsOK'
  BY DEF Inv, AccessOK, GatesOK, GateOK, InScope, AdmissionOK, Backed,
         CurrentIdentity, RowsOf, TicketsOK
<1>4. SessionsOK' /\ SingleUse'
  BY <1>1 DEF Inv, SessionsOK, SessionOK, SingleUse, Started
<1>5. \A r \in Session : Holder(r)' = Holder(r)
  BY <1>1 DEF Holder
<1>6. QED
  BY <1>1, <1>2, <1>3, <1>4, <1>5

(* The user of a started session.                                           *)
LEMMA HolderType ==
  ASSUME Inv, NEW s \in Session, Started(s)
  PROVE  Holder(s) \in User
BY DEF Inv, SessionsOK, SessionOK, Started, Holder, TicketsOK, AdmissionOK

(* AcquireSession counts the new terminal, or refuses it.                   *)
LEMMA OpenTerminalInv ==
  ASSUME Inv, NEW s \in Session, OpenTerminal(s)
  PROVE  Inv'
<1>1. sessions[s].pc = "consumed" /\ sessions[s].proto = "terminal"
      /\ UNCHANGED <<policy, gates, tickets>>
  BY DEF OpenTerminal
<1>2. PICK h \in User : h = Holder(s)
  BY <1>1, HolderType DEF Started
<1>3. /\ slots \in [User -> Nat]
      /\ \A u \in User : /\ IsFiniteSet(TerminalsOf(u))
                         /\ slots[u] = Cardinality(TerminalsOf(u))
                         /\ slots[u] <= MaxSessions
  BY DEF Inv, TypeOK, SlotsOK
<1>4. CASE HasSlot(h)
  <2>1. slots' = [slots EXCEPT ![h] = @ + 1] /\ SetPc(s, "running")
    BY <1>2, <1>4 DEF OpenTerminal
  <2>2. /\ sessions' \in [Session -> SessionState]
        /\ AccessOK' /\ GatesOK' /\ TicketsOK' /\ SessionsOK' /\ SingleUse'
        /\ \A r \in Session : /\ Holder(r)' = Holder(r)
                              /\ sessions'[r].proto = sessions[r].proto
                              /\ sessions'[r].pc = IF r = s THEN "running"
                                                   ELSE sessions[r].pc
    BY <1>1, <2>1, MoveStep
  <2>3. TypeOK'
    BY <1>1, <1>2, <2>1, <2>2 DEF Inv, TypeOK, policy
  <2>4. s \notin TerminalsOf(h) /\ TerminalsOf(h)' = TerminalsOf(h) \cup {s}
    BY <1>1, <1>2, <2>2 DEF TerminalsOf
  <2>5. \A u \in User \ {h} : TerminalsOf(u)' = TerminalsOf(u)
    BY <1>1, <1>2, <2>2 DEF TerminalsOf
  <2>6. /\ IsFiniteSet(TerminalsOf(h)')
        /\ Cardinality(TerminalsOf(h)') = Cardinality(TerminalsOf(h)) + 1
    BY <1>2, <1>3, <2>4, FS_AddElement
  <2>7. /\ slots'[h] = slots[h] + 1
        /\ \A u \in User \ {h} : slots'[u] = slots[u]
    BY <1>2, <1>3, <2>1
  <2>8. slots[h] + 1 <= MaxSessions
    BY <1>2, <1>3, <1>4, ConnectAssumption DEF HasSlot
  <2>9. /\ IsFiniteSet(TerminalsOf(h)')
        /\ slots'[h] = Cardinality(TerminalsOf(h)')
        /\ slots'[h] <= MaxSessions
    BY <1>2, <1>3, <2>6, <2>7, <2>8
  <2>10. \A u \in User \ {h} : /\ IsFiniteSet(TerminalsOf(u)')
                               /\ slots'[u] = Cardinality(TerminalsOf(u)')
                               /\ slots'[u] <= MaxSessions
    BY <1>3, <2>5, <2>7
  <2>11. SlotsOK'
    BY <2>9, <2>10 DEF SlotsOK
  <2>12. QED
    BY <2>2, <2>3, <2>11 DEF Inv
<1>5. CASE ~ HasSlot(h)
  <2>1. SetPc(s, "closed") /\ UNCHANGED slots
    BY <1>2, <1>5 DEF OpenTerminal
  <2>2. /\ sessions' \in [Session -> SessionState]
        /\ AccessOK' /\ GatesOK' /\ TicketsOK' /\ SessionsOK' /\ SingleUse'
        /\ \A r \in Session : /\ Holder(r)' = Holder(r)
                              /\ sessions'[r].proto = sessions[r].proto
                              /\ sessions'[r].pc = IF r = s THEN "closed"
                                                   ELSE sessions[r].pc
    BY <1>1, <2>1, MoveStep
  <2>3. TypeOK'
    BY <1>1, <2>1, <2>2 DEF Inv, TypeOK, policy
  <2>4. \A u \in User : TerminalsOf(u)' = TerminalsOf(u)
    BY <1>1, <1>2, <2>2 DEF TerminalsOf
  <2>5. SlotsOK'
    BY <1>3, <2>1, <2>4 DEF SlotsOK
  <2>6. QED
    BY <2>2, <2>3, <2>5 DEF Inv
<1>6. QED
  BY <1>4, <1>5

(* Bridges are not counted.                                                 *)
LEMMA OpenBridgeInv ==
  ASSUME Inv, NEW s \in Session, NEW ok \in BOOLEAN, OpenBridge(s, ok)
  PROVE  Inv'
<1> DEFINE pc == IF ok THEN "running" ELSE "closed"
<1>1. sessions[s].pc = "consumed" /\ sessions[s].proto = "bridge"
      /\ SetPc(s, pc) /\ UNCHANGED <<policy, gates, tickets, slots>>
  BY DEF OpenBridge
<1>2. pc \in {"running", "closed"}
  OBVIOUS
<1> HIDE DEF pc
<1>3. /\ sessions' \in [Session -> SessionState]
      /\ AccessOK' /\ GatesOK' /\ TicketsOK' /\ SessionsOK' /\ SingleUse'
      /\ \A r \in Session : /\ Holder(r)' = Holder(r)
                            /\ sessions'[r].proto = sessions[r].proto
                            /\ sessions'[r].pc = IF r = s THEN pc
                                                 ELSE sessions[r].pc
  BY <1>1, <1>2, MoveStep
<1>4. TypeOK'
  BY <1>1, <1>3 DEF Inv, TypeOK, policy
<1>5. \A u \in User : TerminalsOf(u)' = TerminalsOf(u)
  BY <1>1, <1>3 DEF TerminalsOf
<1>6. SlotsOK'
  BY <1>1, <1>5 DEF Inv, SlotsOK
<1>7. QED
  BY <1>3, <1>4, <1>6 DEF Inv

(* The deferred release gives back exactly the slot that was taken.         *)
LEMMA CloseSessionInv ==
  ASSUME Inv, NEW s \in Session, CloseSession(s)
  PROVE  Inv'
<1>1. sessions[s].pc = "running" /\ SetPc(s, "closed") /\ Release(s)
      /\ UNCHANGED <<policy, gates, tickets>>
  BY DEF CloseSession
<1>2. PICK h \in User : h = Holder(s)
  BY <1>1, HolderType DEF Started
<1>3. /\ slots \in [User -> Nat]
      /\ \A u \in User : /\ IsFiniteSet(TerminalsOf(u))
                         /\ slots[u] = Cardinality(TerminalsOf(u))
                         /\ slots[u] <= MaxSessions
  BY DEF Inv, TypeOK, SlotsOK
<1>4. /\ sessions' \in [Session -> SessionState]
      /\ AccessOK' /\ GatesOK' /\ TicketsOK' /\ SessionsOK' /\ SingleUse'
      /\ \A r \in Session : /\ Holder(r)' = Holder(r)
                            /\ sessions'[r].proto = sessions[r].proto
                            /\ sessions'[r].pc = IF r = s THEN "closed"
                                                 ELSE sessions[r].pc
  BY <1>1, MoveStep
<1>5. CASE sessions[s].proto = "terminal"
  <2>1. s \in TerminalsOf(h) /\ TerminalsOf(h)' = TerminalsOf(h) \ {s}
    BY <1>1, <1>2, <1>4, <1>5 DEF TerminalsOf
  <2>2. \A u \in User \ {h} : TerminalsOf(u)' = TerminalsOf(u)
    BY <1>1, <1>2, <1>4, <1>5 DEF TerminalsOf
  <2>3. slots[h] > 0
    BY <1>2, <1>3, <2>1, FS_EmptySet
  <2>4. slots' = [slots EXCEPT ![h] = @ - 1]
    BY <1>1, <1>2, <1>5, <2>3 DEF Release
  <2>5. /\ IsFiniteSet(TerminalsOf(h)')
        /\ Cardinality(TerminalsOf(h)') = Cardinality(TerminalsOf(h)) - 1
    BY <1>2, <1>3, <2>1, FS_RemoveElement
  <2>6. /\ slots'[h] = slots[h] - 1
        /\ \A u \in User \ {h} : slots'[u] = slots[u]
    BY <1>2, <1>3, <2>4
  <2>7. slots' \in [User -> Nat]
    BY <1>2, <1>3, <2>3, <2>4
  <2>8. TypeOK'
    BY <1>1, <1>4, <2>7 DEF Inv, TypeOK, policy
  <2>9. slots[h] - 1 <= MaxSessions
    BY <1>2, <1>3, ConnectAssumption
  <2>10. /\ IsFiniteSet(TerminalsOf(h)')
         /\ slots'[h] = Cardinality(TerminalsOf(h)')
         /\ slots'[h] <= MaxSessions
    BY <1>2, <1>3, <2>5, <2>6, <2>9
  <2>11. \A u \in User \ {h} : /\ IsFiniteSet(TerminalsOf(u)')
                               /\ slots'[u] = Cardinality(TerminalsOf(u)')
                               /\ slots'[u] <= MaxSessions
    BY <1>3, <2>2, <2>6
  <2>12. SlotsOK'
    BY <2>10, <2>11 DEF SlotsOK
  <2>13. QED
    BY <1>4, <2>8, <2>12 DEF Inv
<1>6. CASE sessions[s].proto # "terminal"
  <2>1. UNCHANGED slots
    BY <1>1, <1>6 DEF Release
  <2>2. TypeOK'
    BY <1>1, <1>4, <2>1 DEF Inv, TypeOK, policy
  <2>3. \A u \in User : TerminalsOf(u)' = TerminalsOf(u)
    BY <1>4, <1>6 DEF TerminalsOf
  <2>4. SlotsOK'
    BY <1>3, <2>1, <2>3 DEF SlotsOK
  <2>5. QED
    BY <1>4, <2>2, <2>4 DEF Inv
<1>7. QED
  BY <1>5, <1>6

(* A restart empties the memory: no slot is taken and no terminal is open.  *)
LEMMA RestartInv ==
  ASSUME Inv, Restart
  PROVE  Inv'
<1> USE DEF policy
<1>1. \A t \in Token : /\ tickets'[t].adm = tickets[t].adm
                       /\ tickets'[t].issued = tickets[t].issued
                       /\ tickets'[t].state # "none" => tickets[t].state # "none"
                       /\ tickets[t].state = "gone" => tickets'[t].state = "gone"
  BY DEF Restart, Inv, TypeOK, Ticket
<1>2. \A s \in Session : /\ sessions'[s].asset = sessions[s].asset
                         /\ sessions'[s].token = sessions[s].token
                         /\ sessions'[s].start = sessions[s].start
                         /\ sessions'[s].pc \in {"idle", "closed"}
                         /\ sessions'[s].pc = "idle" <=> sessions[s].pc = "idle"
  BY DEF Restart, Inv, TypeOK, SessionState
<1>3. TypeOK'
  <2>1. tickets' \in [Token -> Ticket]
    BY DEF Restart, Inv, TypeOK, Ticket
  <2>2. sessions' \in [Session -> SessionState]
    BY DEF Restart, Inv, TypeOK, SessionState
  <2>3. slots' \in [User -> Nat] /\ gates' \in [Gate -> GateState]
    BY NeutralTypes DEF Restart
  <2>4. QED
    BY <2>1, <2>2, <2>3 DEF Restart, Inv, TypeOK
<1>4. AccessOK'
  BY DEF Restart, Inv, AccessOK
<1>5. GatesOK'
  BY DEF Restart, GatesOK, GateOK, InScope, IdleGate
<1>6. TicketsOK'
  BY <1>1 DEF Restart, Inv, TicketsOK, AdmissionOK, Backed
<1>7. SessionsOK'
  BY <1>1, <1>2 DEF Inv, SessionsOK, SessionOK
<1>8. SingleUse'
  BY <1>2 DEF Inv, SingleUse, Started
<1>9. SlotsOK'
  <2>1. \A u \in User : TerminalsOf(u)' = {}
    BY <1>2 DEF TerminalsOf
  <2>2. \A u \in User : /\ IsFiniteSet(TerminalsOf(u)')
                        /\ Cardinality(TerminalsOf(u)') = 0
    BY <2>1, FS_EmptySet
  <2>3. \A u \in User : slots'[u] = 0
    BY DEF Restart
  <2>4. 0 <= MaxSessions
    BY ConnectAssumption
  <2>5. QED
    BY <2>2, <2>3, <2>4 DEF SlotsOK
<1>10. QED
  BY <1>3, <1>4, <1>5, <1>6, <1>7, <1>8, <1>9 DEF Inv

-----------------------------------------------------------------------------
(* The surroundings.                                                        *)

(* What the surroundings do leaves tickets and sessions in order, if no     *)
(* admission loses its backing.                                             *)
LEMMA SurroundingsStep ==
  ASSUME Inv, TypeOK', AccessOK', GatesOK', now' >= now,
         \A adm \in Admission : Backed(adm) /\ adm.began <= now => Backed(adm)',
         UNCHANGED <<tickets, slots, sessions>>
  PROVE  Inv'
<1>1. TicketsOK'
  <2> SUFFICES ASSUME NEW t \in Token, tickets[t].state # "none"
               PROVE  AdmissionOK(tickets[t].adm)'
    BY DEF TicketsOK
  <2>1. AdmissionOK(tickets[t].adm)
    BY DEF Inv, TicketsOK
  <2>2. tickets[t].adm \in Admission /\ tickets[t].adm.began \in Nat
        /\ now \in Nat /\ now' \in Nat
    BY DEF Inv, TypeOK, Ticket, Admission
  <2>3. Backed(tickets[t].adm) /\ tickets[t].adm.began <= now =>
          Backed(tickets[t].adm)'
    <3>1. PICK adm \in Admission : adm = tickets[t].adm
      BY <2>2
    <3>2. Backed(adm) /\ adm.began <= now => Backed(adm)'
      OBVIOUS
    <3>3. QED
      BY <3>1, <3>2 DEF Backed
  <2>4. QED
    BY <2>1, <2>2, <2>3 DEF AdmissionOK
<1>2. SessionsOK' /\ SingleUse'
  BY DEF Inv, SessionsOK, SessionOK, SingleUse, Started
<1>3. SlotsOK'
  BY DEF Inv, SlotsOK, TerminalsOf, Holder
<1>4. QED
  BY <1>1, <1>2, <1>3 DEF Inv

(* The same, when roles, assets and requests stay as they are.              *)
LEMMA GrantStep ==
  ASSUME Inv, TypeOK', AccessOK', now' >= now,
         \A adm \in Admission : Backed(adm) /\ adm.began <= now => Backed(adm)',
         UNCHANGED <<roles, attrs, memory>>
  PROVE  Inv'
<1> USE DEF memory
<1>1. ASSUME NEW c \in Gate PROVE GateOK(gates[c])'
  <2> SUFFICES ASSUME gates[c].pc # "idle" PROVE GateOK(gates[c])'
    BY DEF GateOK
  <2>1. GateOK(gates[c])
    BY DEF Inv, GatesOK
  <2>2. gates[c].adm \in Admission /\ gates[c].adm.began \in Nat
        /\ now \in Nat /\ now' \in Nat
    BY DEF Inv, TypeOK, GateState, Admission
  <2>3. Backed(gates[c].adm) /\ gates[c].adm.began <= now =>
          Backed(gates[c].adm)'
    <3>1. PICK adm \in Admission : adm = gates[c].adm
      BY <2>2
    <3>2. Backed(adm) /\ adm.began <= now => Backed(adm)'
      OBVIOUS
    <3>3. QED
      BY <3>1, <3>2 DEF Backed
  <2>4. AdmissionOK(gates[c].adm)'
    BY <2>1, <2>2, <2>3 DEF GateOK, AdmissionOK
  <2>5. QED
    BY <2>1, <2>4 DEF GateOK, CurrentIdentity, RowsOf
<1>2. ASSUME NEW c \in Gate PROVE InScope(gates[c])'
  BY DEF Inv, GatesOK, InScope, RowsOf
<1>3. GatesOK'
  BY <1>1, <1>2 DEF GatesOK
<1>4. QED
  BY <1>3, SurroundingsStep

(* Time passes.                                                             *)
LEMMA TickInv ==
  ASSUME Inv, Tick
  PROVE  Inv'
<1> USE DEF Tick, Jit!Advance
<1>1. now \in Nat /\ now' = now + 1
  BY DEF Inv, TypeOK
<1>2. TypeOK'
  BY <1>1 DEF Inv, TypeOK, memory
<1>3. AccessOK'
  BY DEF Inv, AccessOK
<1>4. QED
  BY <1>1, <1>2, <1>3, GrantStep DEF Backed

(* A new grant takes nothing from the others.                               *)
LEMMA ConferInv ==
  ASSUME Inv, NEW g \in Grant, NEW by \in User, NEW u \in User, NEW a \in Asset,
         NEW until \in now..(now + MaxDuration), Confer(g, by, u, a, until)
  PROVE  Inv'
<1> DEFINE new == [state |-> "live", user |-> u, asset |-> a, by |-> by,
                   until |-> until, alias |-> (by = u)]
<1>1. now \in Nat /\ until \in Nat
  BY ConnectAssumption DEF Inv, TypeOK
<1>2. new \in Access
  BY <1>1 DEF Access
<1>3. access[g].state = "none" /\ access' = [access EXCEPT ![g] = new]
      /\ ends' = [ends EXCEPT ![g] = until] /\ UNCHANGED <<now, roles, attrs, memory>>
  BY DEF Confer, Jit!ConferDirectly, Jit!Confer
<1>4. \A h \in Grant : /\ access'[h] = IF h = g THEN new ELSE access[h]
                       /\ ends'[h] = IF h = g THEN until ELSE ends[h]
  BY <1>3 DEF Inv, TypeOK, AccessOK
<1>5. TypeOK'
  BY <1>1, <1>3 DEF Inv, TypeOK, memory
<1>6. AccessOK'
  <2>1. access' \in [Grant -> Access]
    BY <1>2, <1>3 DEF Inv, AccessOK
  <2>2. QED
    BY <1>4, <2>1 DEF Inv, AccessOK
<1>7. \A adm \in Admission : Backed(adm) => Backed(adm)'
  BY <1>3, <1>4 DEF Backed
<1>8. QED
  BY <1>1, <1>3, <1>5, <1>6, <1>7, GrantStep

(* A revoked grant still backs what came in while it was active.            *)
LEMMA WithdrawInv ==
  ASSUME Inv, NEW g \in Grant, Withdraw(g)
  PROVE  Inv'
<1>1. now \in Nat /\ access[g] \in Access /\ ends[g] \in Nat
  BY DEF Inv, TypeOK, AccessOK
<1>2. /\ access' = [access EXCEPT ![g].state = "withdrawn"]
      /\ access[g].state = "live"
      /\ ends' = [ends EXCEPT ![g] = IF now < ends[g] THEN now ELSE ends[g]]
      /\ UNCHANGED <<now, roles, attrs, memory>>
  BY DEF Withdraw, Jit!Withdraw
<1>3. \A h \in Grant :
        /\ access'[h].user = access[h].user /\ access'[h].asset = access[h].asset
        /\ access'[h].until = access[h].until
        /\ access'[h].state = IF h = g THEN "withdrawn" ELSE access[h].state
        /\ ends'[h] = IF h = g /\ now < ends[h] THEN now ELSE ends[h]
  BY <1>2 DEF Inv, TypeOK, AccessOK, Access
<1>4. TypeOK'
  BY <1>1, <1>2 DEF Inv, TypeOK, memory
<1>5. AccessOK'
  <2>1. access' \in [Grant -> Access]
    BY <1>2 DEF Inv, AccessOK, Access
  <2>2. QED
    BY <1>3, <2>1 DEF Inv, AccessOK
<1>6. \A adm \in Admission : Backed(adm) /\ adm.began <= now => Backed(adm)'
  BY <1>3 DEF Backed
<1>7. QED
  BY <1>1, <1>2, <1>4, <1>5, <1>6, GrantStep

(* Requests of the edited user, or for the edited asset, are marked; the    *)
(* others see the same roles and the same asset.                            *)
LEMMA MarkedGate ==
  ASSUME Inv, NEW c \in Gate, UNCHANGED <<now, access, ends>>,
         \/ gates'[c] = [gates[c] EXCEPT !.adm.raced = TRUE]
         \/ /\ gates'[c] = gates[c]
            /\ gates[c].pc # "idle" =>
                 /\ roles'[gates[c].adm.user] = roles[gates[c].adm.user]
                 /\ attrs'[gates[c].adm.asset] = attrs[gates[c].adm.asset]
  PROVE  /\ gates'[c] \in GateState
         /\ GateOK(gates[c])' /\ InScope(gates[c])'
<1>1. gates[c] \in GateState
  BY DEF Inv, TypeOK
<1>2. GateOK(gates[c]) /\ InScope(gates[c])
  BY DEF Inv, GatesOK
<1>3. CASE gates'[c] = [gates[c] EXCEPT !.adm.raced = TRUE]
  <2>1. /\ gates'[c] \in GateState /\ gates'[c].adm.raced
        /\ gates'[c].pc = gates[c].pc /\ gates'[c].adm.user = gates[c].adm.user
        /\ gates'[c].adm.asset = gates[c].adm.asset
        /\ gates'[c].adm.by = gates[c].adm.by
        /\ gates'[c].adm.began = gates[c].adm.began
    <3>1. PICK adm : adm = [gates[c].adm EXCEPT !.raced = TRUE]
      OBVIOUS
    <3>2. /\ adm \in Admission /\ adm.raced
          /\ adm.user = gates[c].adm.user /\ adm.asset = gates[c].adm.asset
          /\ adm.by = gates[c].adm.by /\ adm.began = gates[c].adm.began
      <4>1. gates[c].adm \in Admission
        BY <1>1 DEF GateState
      <4> QED
        BY <3>1, <4>1 DEF Admission
    <3>3. gates'[c] = [gates[c] EXCEPT !.adm = adm]
      BY <1>3, <3>1
    <3>4. gates'[c] \in GateState /\ gates'[c].adm = adm /\ gates'[c].pc = gates[c].pc
      BY <1>1, <3>2, <3>3 DEF GateState
    <3> QED
      BY <3>2, <3>4
  <2>2. QED
    BY <1>2, <2>1 DEF GateOK, InScope, AdmissionOK, Backed
<1>4. CASE /\ gates'[c] = gates[c]
           /\ gates[c].pc # "idle" =>
                /\ roles'[gates[c].adm.user] = roles[gates[c].adm.user]
                /\ attrs'[gates[c].adm.asset] = attrs[gates[c].adm.asset]
  <2>1. gates[c].pc # "idle" =>
          RowsOf(gates[c].adm.user)' = RowsOf(gates[c].adm.user)
    BY <1>4 DEF RowsOf
  <2>2. QED
    BY <1>1, <1>2, <1>4, <2>1 DEF GateOK, InScope, AdmissionOK, Backed,
                                  CurrentIdentity
<1>5. QED
  BY <1>3, <1>4

(* A role is bound or unbound.                                              *)
LEMMA EditRoleInv ==
  ASSUME Inv, NEW u \in User, NEW r \in Role, NEW bind \in BOOLEAN,
         EditRole(u, r, bind)
  PROVE  Inv'
<1>1. UNCHANGED <<now, access, attrs, ends, tickets, slots, sessions>>
  BY DEF EditRole
<1>2. roles' \in [User -> SUBSET Role]
      /\ \A v \in User \ {u} : roles'[v] = roles[v]
  BY DEF EditRole, Inv, TypeOK
<1>3. \A c \in Gate : /\ gates'[c] \in GateState
                      /\ GateOK(gates[c])' /\ InScope(gates[c])'
  <2> SUFFICES ASSUME NEW c \in Gate
               PROVE  /\ gates'[c] \in GateState
                      /\ GateOK(gates[c])' /\ InScope(gates[c])'
    OBVIOUS
  <2>1. gates[c].pc # "idle" => gates[c].adm.user \in User
    BY DEF Inv, GatesOK, GateOK, AdmissionOK
  <2>2. \/ gates'[c] = [gates[c] EXCEPT !.adm.raced = TRUE]
        \/ /\ gates'[c] = gates[c]
           /\ gates[c].pc # "idle" => gates[c].adm.user # u
    BY DEF EditRole, MarkRaced
  <2>3. QED
    BY <1>1, <1>2, <2>1, <2>2, MarkedGate
<1>4. gates' \in [Gate -> GateState]
  <2>1. gates' = [c \in Gate |-> gates'[c]]
    BY DEF EditRole, MarkRaced
  <2>2. QED
    BY <1>3, <2>1
<1>5. TypeOK' /\ AccessOK' /\ GatesOK'
  BY <1>1, <1>2, <1>3, <1>4 DEF Inv, TypeOK, AccessOK, GatesOK
<1>6. now' >= now
  BY <1>1 DEF Inv, TypeOK
<1>7. QED
  BY <1>1, <1>5, <1>6, SurroundingsStep DEF Backed

(* An asset is edited or deleted.                                           *)
LEMMA EditAssetInv ==
  ASSUME Inv, NEW a \in Asset, NEW new \in AssetEdits, EditAsset(a, new)
  PROVE  Inv'
<1>1. UNCHANGED <<now, access, roles, ends, tickets, slots, sessions>>
  BY DEF EditAsset
<1>2. attrs' \in [Asset -> ResourceAttrs \cup {None}]
      /\ \A b \in Asset \ {a} : attrs'[b] = attrs[b]
  BY ConnectAssumption DEF EditAsset, Inv, TypeOK
<1>3. \A c \in Gate : /\ gates'[c] \in GateState
                      /\ GateOK(gates[c])' /\ InScope(gates[c])'
  <2> SUFFICES ASSUME NEW c \in Gate
               PROVE  /\ gates'[c] \in GateState
                      /\ GateOK(gates[c])' /\ InScope(gates[c])'
    OBVIOUS
  <2>1. gates[c].pc # "idle" => gates[c].adm.asset \in Asset
    BY DEF Inv, GatesOK, GateOK, AdmissionOK
  <2>2. \/ gates'[c] = [gates[c] EXCEPT !.adm.raced = TRUE]
        \/ /\ gates'[c] = gates[c]
           /\ gates[c].pc # "idle" => gates[c].adm.asset # a
    BY DEF EditAsset, MarkRaced
  <2>3. QED
    BY <1>1, <1>2, <2>1, <2>2, MarkedGate
<1>4. gates' \in [Gate -> GateState]
  <2>1. gates' = [c \in Gate |-> gates'[c]]
    BY DEF EditAsset, MarkRaced
  <2>2. QED
    BY <1>3, <2>1
<1>5. TypeOK' /\ AccessOK' /\ GatesOK'
  BY <1>1, <1>2, <1>3, <1>4 DEF Inv, TypeOK, AccessOK, GatesOK
<1>6. now' >= now
  BY <1>1 DEF Inv, TypeOK
<1>7. QED
  BY <1>1, <1>5, <1>6, SurroundingsStep DEF Backed

-----------------------------------------------------------------------------
(* The theorems.                                                            *)

(* Every step, of a request, a session, the gc or the surroundings, keeps   *)
(* the invariant.                                                           *)
LEMMA NextInv == Inv /\ [Next]_vars => Inv'
<1> SUFFICES ASSUME Inv, [Next]_vars PROVE Inv'
  OBVIOUS
<1>1. ASSUME NEW c \in Gate, Request(c) PROVE Inv'
  BY <1>1, BeginTicketInv, CheckRoleInv, CheckGrantInv, IssueTicketInv,
     AbortGateInv DEF Request
<1>2. ASSUME NEW s \in Session, Serve(s) PROVE Inv'
  BY <1>2, ConsumeTicketInv, OpenTerminalInv, OpenBridgeInv, CloseSessionInv
     DEF Serve
<1>3. ASSUME Environment PROVE Inv'
  <2>1. ASSUME NEW e \in RoleEdits, NEW bind \in BOOLEAN,
               EditRole(e[1], e[2], bind)
        PROVE  Inv'
    <3>1. e[1] \in User /\ e[2] \in Role
      BY ConnectAssumption
    <3>2. QED
      BY <2>1, <3>1, EditRoleInv
  <2>2. QED
    BY <1>3, <2>1, TickInv, WithdrawInv, ConferInv, EditAssetInv DEF Environment
<1>4. CASE UNCHANGED vars
  <2>1. UNCHANGED <<policy, tickets, slots, sessions, gates>>
    BY <1>4 DEF vars, policy
  <2>2. AccessOK' /\ GatesOK' /\ TicketsOK'
    BY <2>1, TicketsEndStep DEF Inv, TypeOK
  <2>3. SessionsOK' /\ SingleUse' /\ SlotsOK'
    BY <2>1, SessionsKept
  <2>4. TypeOK'
    BY <2>1 DEF Inv, TypeOK, policy
  <2>5. QED
    BY <2>2, <2>3, <2>4 DEF Inv
<1>5. QED
  BY <1>1, <1>2, <1>3, <1>4, GCInv, RestartInv DEF Next

(* The invariant of the connect path.                                       *)
THEOREM Invariance == Spec => []Inv
BY InitInv, NextInv, PTL DEF Spec

(* Every variable keeps its type.                                           *)
THEOREM TypeCorrect == Spec => []TypeOK
<1>1. Inv => TypeOK
  BY DEF Inv
<1>2. QED
  BY <1>1, Invariance, PTL

(* One ticket opens at most one connection, however many consume it at      *)
(* once, whatever the gc does meanwhile and across restarts.                *)
THEOREM TicketsUsedOnce == Spec => []SingleUse
<1>1. Inv => SingleUse
  BY DEF Inv
<1>2. QED
  BY <1>1, Invariance, PTL

(* A session is on the ticket's asset, started within the ticket's lifetime *)
(* and, when a grant let it in, that grant was this user's, for this asset, *)
(* and active when the request came in.                                     *)
THEOREM SessionsAreJustified == Spec => []SessionJustified
<1>1. Inv => SessionJustified
  <2> SUFFICES ASSUME Inv, NEW s \in Session, Started(s)
               PROVE  LET ticket == tickets[sessions[s].token]
                          adm    == ticket.adm
                      IN  /\ adm.asset = sessions[s].asset
                          /\ sessions[s].start <= ticket.issued + TTL
                          /\ adm.by = "grant" => Backed(adm)
    BY DEF SessionJustified, Backed
  <2>1. SessionOK(sessions[s])
    BY DEF Inv, SessionsOK
  <2>2. AdmissionOK(tickets[sessions[s].token].adm)
    BY <2>1 DEF Inv, TicketsOK, SessionOK, Started
  <2>3. QED
    BY <2>1, <2>2 DEF SessionOK, Started, AdmissionOK
<1>2. QED
  BY <1>1, Invariance, PTL

(* A request admitted by role or as administrator, and not raced by an edit,*)
(* is one the policy admits.                                                *)
THEOREM AdmissionsInScope == Spec => []AdmittedInScope
<1>1. Inv => AdmittedInScope
  BY DEF Inv, GatesOK, InScope, AdmittedInScope
<1>2. QED
  BY <1>1, Invariance, PTL

(* The slot counter is the number of open terminals, and within the cap.    *)
THEOREM SlotsAreExact == Spec => []SlotsExact
<1>1. Inv => SlotsExact
  BY DEF Inv, SlotsOK, SlotsExact, TerminalsOf
<1>2. QED
  BY <1>1, Invariance, PTL

(* The resolver and the middleware, built from the same evaluator with      *)
(* different special cases, agree about every asset that exists.            *)
THEOREM ResolverAgrees == Spec => []ResolverAgreesOnLiveAssets
<1>1. ResolverAgreesOnLiveAssets
  BY DEF ResolverAgreesOnLiveAssets, ResolveCapability, SessionAuthorized,
         RoleAdmits, AdmitsAsset, Authorize, FindActiveGrant, ActiveGrantFor
<1>2. QED
  BY <1>1, PTL

=============================================================================

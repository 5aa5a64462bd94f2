---------------------------- MODULE ConnectPath ----------------------------
(***************************************************************************)
(* From "connect" in the browser to a running session: the ticket routes    *)
(* behind RequireSessionAuthorization (internal/bastion/middleware.go), the *)
(* TicketService (internal/connectivity) and the first half of ServeWS      *)
(* (terminal, guacproxy and dbproxy), up to a session that runs.            *)
(*                                                                          *)
(* Grants are those of the abstract service JitAccess, which BastionGrants  *)
(* implements.  A ticket request in flight is a member of Gate: it reads    *)
(* the identity, then the asset's attributes, then the grants, and anything *)
(* may happen in between.  Tickets and session slots live in the memory of  *)
(* the API server and are lost when it restarts.                            *)
(***************************************************************************)
EXTENDS Authz, FiniteSets, Naturals

CONSTANTS User, Asset, Grant, Gate, Token, Session,
          Role, RolePerms, InitRoles, RoleEdits,
          InitAttrs,
          AssetEdits,    \* what an asset edit may write, None for a deletion
          MaxDuration,   \* cap on the lifetime of a grant
          TTL,           \* lifetime of a ticket
          MaxSessions,   \* maxSessionsPerUser
          MaxNow         \* bound on the clock

ASSUME ConnectAssumption ==
  /\ TTL \in Nat /\ MaxSessions \in Nat /\ MaxDuration \in Nat /\ MaxNow \in Nat
  /\ RolePerms \in [Role -> SUBSET RolePermission]
  /\ InitRoles \in [User -> SUBSET Role]
  /\ RoleEdits \subseteq User \X Role
  /\ InitAttrs \in [Asset -> ResourceAttrs]
  /\ AssetEdits \subseteq ResourceAttrs \cup {None}
  /\ None \notin User \cup Asset \cup Token \cup ResourceAttrs

VARIABLES
  now,       \* wall clock
  access,    \* the grants, as JitAccess keeps them
  roles,     \* iam_user_role_binding
  attrs,     \* cmdb_asset: env and source, None once deleted
  gates,     \* ticket requests in flight
  tickets,   \* TicketService.tickets, and what became of past ones
  slots,     \* terminal.Service.sessions: sessions counted per user
  sessions,  \* ServeWS handlers and the sessions they run
  ends       \* history: when each grant stopped being active

vars    == <<now, access, roles, attrs, gates, tickets, slots, sessions, ends>>
policy  == <<now, access, roles, attrs, ends>>
memory  == <<gates, tickets, slots, sessions>>

Jit == INSTANCE JitAccess WITH
  clock <- now, claims <- <<>>, Request <- {}

-----------------------------------------------------------------------------
(* How a request was admitted; began and raced are history: the time it     *)
(* came in, and whether its caller's roles or its asset changed since.      *)
Admission == [user: User \cup {None}, asset: Asset \cup {None},
              by: {"none", "admin", "role", "grant"},
              began: Nat, raced: BOOLEAN]

NoAdmission == [user |-> None, asset |-> None, by |-> "none", began |-> 0,
                raced |-> FALSE]

GateState == [pc: {"idle", "begun", "scoped", "admitted"},
              adm: Admission, id: Identity \cup {None}]
IdleGate  == [pc |-> "idle", adm |-> NoAdmission, id |-> None]

Ticket   == [state: {"none", "live", "gone"}, adm: Admission, issued: Nat]
NoTicket == [state |-> "none", adm |-> NoAdmission, issued |-> 0]

(* "consumed": ticket taken, nothing acquired yet.  "running": the socket   *)
(* is open and, in the terminal, a slot is held.                            *)
SessionState == [pc: {"idle", "consumed", "running", "closed"},
                 proto: {"terminal", "bridge"}, asset: Asset \cup {None},
                 token: Token \cup {None}, start: Nat]
NoSession == [pc |-> "idle", proto |-> "bridge", asset |-> None,
              token |-> None, start |-> 0]

TypeOK ==
  /\ now \in Nat
  /\ roles \in [User -> SUBSET Role]
  /\ attrs \in [Asset -> ResourceAttrs \cup {None}]
  /\ gates \in [Gate -> GateState]
  /\ tickets \in [Token -> Ticket]
  /\ slots \in [User -> Nat]
  /\ sessions \in [Session -> SessionState]
  /\ ends \in [Grant -> Nat]

Init ==
  /\ now = 0
  /\ access = [g \in Grant |-> Jit!NoAccess]
  /\ roles = InitRoles
  /\ attrs = InitAttrs
  /\ gates = [c \in Gate |-> IdleGate]
  /\ tickets = [t \in Token |-> NoTicket]
  /\ slots = [u \in User |-> 0]
  /\ sessions = [s \in Session |-> NoSession]
  /\ ends = [g \in Grant |-> 0]

-----------------------------------------------------------------------------
(* RequireSessionAuthorization.                                             *)

RowsOf(u) == UNION {RolePerms[r] : r \in roles[u]}

CurrentIdentity(u) == IdentityForUser(RowsOf(u))

(* Mutant: the decision alone, without the fail-closed case.                *)
RoleAdmitsOpen(id, assetAttrs) ==
  Authorize(id, "bastion.session:connect", assetAttrs).allowed

RoleAdmits(id, assetAttrs) ==
  AdmitsAsset(id, "bastion.session:connect", assetAttrs)

(* Mutant: revoked_at is not looked at.                                     *)
FindActiveGrantAny(u, a) ==
  {g \in Grant : /\ access[g].state # "none" /\ access[g].until > now
                 /\ access[g].user = u /\ access[g].asset = a}

FindActiveGrant(u, a) ==
  {g \in Grant : /\ access[g].state = "live" /\ access[g].until > now
                 /\ access[g].user = u /\ access[g].asset = a}

SetGate(c, gate) == gates' = [gates EXCEPT ![c] = gate]

(* The ticket routes ask for cmdb.asset:read first; an admin skips the rest.*)
BeginTicket(c, u, a) ==
  LET id == CurrentIdentity(u)
      by == IF IsAdmin(id) THEN "admin" ELSE "none"
  IN  /\ gates[c].pc = "idle"
      /\ RequirePermission(id, "cmdb.asset:read")
      /\ SetGate(c, [pc  |-> IF IsAdmin(id) THEN "admitted" ELSE "begun",
                     adm |-> [user |-> u, asset |-> a, by |-> by,
                              began |-> now, raced |-> FALSE],
                     id  |-> id])
      /\ UNCHANGED <<policy, tickets, slots, sessions>>

CheckRole(c) ==
  LET gate == gates[c]
      ok   == RoleAdmits(gate.id, attrs[gate.adm.asset])
  IN  /\ gate.pc = "begun"
      /\ SetGate(c, IF ok THEN [gate EXCEPT !.pc = "admitted",
                                            !.adm.by = "role"]
                          ELSE [gate EXCEPT !.pc = "scoped"])
      /\ UNCHANGED <<policy, tickets, slots, sessions>>

CheckGrant(c) ==
  LET gate == gates[c]
      ok   == FindActiveGrant(gate.adm.user, gate.adm.asset) # {}
  IN  /\ gate.pc = "scoped"
      /\ SetGate(c, IF ok THEN [gate EXCEPT !.pc = "admitted",
                                            !.adm.by = "grant"]
                          ELSE IdleGate)             \* 403, needs_grant
      /\ UNCHANGED <<policy, tickets, slots, sessions>>

-----------------------------------------------------------------------------
(* TicketService.                                                           *)

(* Tokens are random: one that was handed out never comes up again.  The    *)
(* clock stops at MaxNow, so no ticket is issued that would outlive it.     *)
IssueTicket(c, t) ==
  /\ gates[c].pc = "admitted"
  /\ now + TTL < MaxNow
  /\ tickets[t].state = "none"
  /\ tickets' = [tickets EXCEPT ![t] = [state |-> "live", adm |-> gates[c].adm,
                                        issued |-> now]]
  /\ SetGate(c, IdleGate)
  /\ UNCHANGED <<policy, slots, sessions>>

(* Mutant: the age of a ticket is not looked at.                            *)
ExpiredNever(t) == FALSE

(* time.Now().After(expiresAt)                                              *)
Expired(t) == now > tickets[t].issued + TTL

(* Mutant: the entry stays in the map.                                      *)
TakeNothing(t) == UNCHANGED tickets

Take(t) == tickets' = [tickets EXCEPT ![t].state = "gone"]

(* Mutant: the path's asset is not compared with the ticket's.              *)
TicketMatchesAny(t, a) == TRUE

TicketMatches(t, a) == tickets[t].adm.asset = a

(* ConsumeTicket, under the mutex, and the asset check after it: whatever   *)
(* the outcome, the ticket is gone.                                         *)
ConsumeTicket(s, t, a, proto) ==
  /\ sessions[s].pc = "idle"
  /\ tickets[t].state = "live"
  /\ Take(t)
  /\ sessions' = IF ~ Expired(t) /\ TicketMatches(t, a)
                 THEN [sessions EXCEPT ![s] =
                         [pc |-> "consumed", proto |-> proto, asset |-> a,
                          token |-> t, start |-> now]]
                 ELSE sessions
  /\ UNCHANGED <<policy, gates, slots>>

(* Mutant: gc keeps a ticket for twice its lifetime.                        *)
GCLate ==
  /\ \E t \in Token : tickets[t].state = "live" /\ now > tickets[t].issued + 2 * TTL
  /\ tickets' = [t \in Token |-> IF now > tickets[t].issued + 2 * TTL
                                 THEN [tickets[t] EXCEPT !.state = "gone"]
                                 ELSE tickets[t]]
  /\ UNCHANGED <<policy, gates, slots, sessions>>

GC ==
  LET old == {t \in Token : tickets[t].state = "live" /\ Expired(t)}
  IN  /\ old # {}
      /\ tickets' = [t \in Token |-> IF t \in old
                                     THEN [tickets[t] EXCEPT !.state = "gone"]
                                     ELSE tickets[t]]
      /\ UNCHANGED <<policy, gates, slots, sessions>>

-----------------------------------------------------------------------------
(* The rest of ServeWS.                                                     *)

Holder(s) == tickets[sessions[s].token].adm.user

SetPc(s, pc) == sessions' = [sessions EXCEPT ![s].pc = pc]

(* Mutant: the cap off by one.                                              *)
HasSlotLoose(u) == slots[u] <= MaxSessions

HasSlot(u) == slots[u] < MaxSessions

(* AcquireSession, 429 when the user has no slot left.                      *)
OpenTerminal(s) ==
  /\ sessions[s].pc = "consumed" /\ sessions[s].proto = "terminal"
  /\ IF HasSlot(Holder(s))
     THEN /\ slots' = [slots EXCEPT ![Holder(s)] = @ + 1]
          /\ SetPc(s, "running")
     ELSE SetPc(s, "closed") /\ UNCHANGED slots
  /\ UNCHANGED <<policy, gates, tickets>>

(* The RDP and database bridges open their upstream connection, which may   *)
(* fail; they have no cap.                                                  *)
OpenBridge(s, ok) ==
  /\ sessions[s].pc = "consumed" /\ sessions[s].proto = "bridge"
  /\ SetPc(s, IF ok THEN "running" ELSE "closed")
  /\ UNCHANGED <<policy, gates, tickets, slots>>

(* Mutant: the slot is not given back.                                      *)
ReleaseNothing(s) == UNCHANGED slots

(* Mutant: bridges give back a slot they never took.                        *)
ReleaseAnyProto(s) == slots' = [slots EXCEPT ![Holder(s)] = @ - 1]

(* The deferred release(), on every way out of ServeWS.                     *)
Release(s) ==
  LET u == Holder(s)
  IN  slots' = IF sessions[s].proto = "terminal" /\ slots[u] > 0
               THEN [slots EXCEPT ![u] = @ - 1] ELSE slots

(* The session ends, or the upgrade of the connection failed.               *)
CloseSession(s) ==
  /\ sessions[s].pc = "running"
  /\ Release(s)
  /\ SetPc(s, "closed")
  /\ UNCHANGED <<policy, gates, tickets>>

(* The client goes away or the database fails before a ticket is issued.    *)
AbortGate(c) ==
  /\ gates[c].pc # "idle"
  /\ SetGate(c, IdleGate)
  /\ UNCHANGED <<policy, tickets, slots, sessions>>

(* The API server restarts: everything it held in memory is lost.           *)
Restart ==
  /\ gates' = [c \in Gate |-> IdleGate]
  /\ tickets' = [t \in Token |-> IF tickets[t].state = "live"
                                 THEN [tickets[t] EXCEPT !.state = "gone"]
                                 ELSE tickets[t]]
  /\ slots' = [u \in User |-> 0]
  /\ sessions' = [s \in Session |->
                    IF sessions[s].pc = "idle" THEN sessions[s]
                    ELSE [sessions[s] EXCEPT !.pc = "closed"]]
  /\ UNCHANGED policy

-----------------------------------------------------------------------------
(* The surroundings.                                                        *)

MarkRaced(Affected(_)) ==
  gates' = [c \in Gate |-> IF gates[c].pc # "idle" /\ Affected(gates[c].adm)
                           THEN [gates[c] EXCEPT !.adm.raced = TRUE]
                           ELSE gates[c]]

Tick ==
  /\ now < MaxNow
  /\ Jit!Advance
  /\ UNCHANGED <<roles, attrs, memory, ends>>

\* Whether the holder was named by an alias matters to nobody here.
Confer(g, by, u, a, until) ==
  /\ Jit!ConferDirectly(g, by, u, by = u, a, until)
  /\ ends' = [ends EXCEPT ![g] = until]
  /\ UNCHANGED <<roles, attrs, memory>>

Withdraw(g) ==
  /\ Jit!Withdraw(g)
  /\ ends' = [ends EXCEPT ![g] = IF now < @ THEN now ELSE @]
  /\ UNCHANGED <<roles, attrs, memory>>

EditRole(u, r, bind) ==
  /\ bind # (r \in roles[u])
  /\ roles' = [roles EXCEPT ![u] = IF bind THEN @ \cup {r} ELSE @ \ {r}]
  /\ MarkRaced(LAMBDA adm : adm.user = u)
  /\ UNCHANGED <<now, access, attrs, ends, tickets, slots, sessions>>

EditAsset(a, new) ==
  /\ attrs[a] \notin {None, new}
  /\ attrs' = [attrs EXCEPT ![a] = new]
  /\ MarkRaced(LAMBDA adm : adm.asset = a)
  /\ UNCHANGED <<now, access, roles, ends, tickets, slots, sessions>>

Environment ==
  \/ Tick
  \/ \E g \in Grant :
       \/ Withdraw(g)
       \/ \E by \in User, u \in User, a \in Asset,
             until \in now..(now + MaxDuration) : Confer(g, by, u, a, until)
  \/ \E e \in RoleEdits, bind \in BOOLEAN : EditRole(e[1], e[2], bind)
  \/ \E a \in Asset, new \in AssetEdits : EditAsset(a, new)

Request(c) ==
  \/ \E u \in User, a \in Asset : BeginTicket(c, u, a)
  \/ CheckRole(c)
  \/ CheckGrant(c)
  \/ \E t \in Token : IssueTicket(c, t)
  \/ AbortGate(c)

Serve(s) ==
  \/ \E t \in Token, a \in Asset, proto \in {"terminal", "bridge"} :
       ConsumeTicket(s, t, a, proto)
  \/ OpenTerminal(s)
  \/ \E ok \in BOOLEAN : OpenBridge(s, ok)
  \/ CloseSession(s)

Next ==
  \/ \E c \in Gate : Request(c)
  \/ \E s \in Session : Serve(s)
  \/ GC
  \/ Restart
  \/ Environment

Spec == Init /\ [][Next]_vars

(* Time passes, the gc loop keeps running.                                  *)
FairSpec == Spec /\ WF_vars(Tick) /\ WF_vars(GC)

-----------------------------------------------------------------------------
(* GET /iam/resolve, the read-only answer to "may u connect to a?".         *)

ActiveGrantFor(u, a) ==
  {g \in Grant : /\ access[g].user = u /\ access[g].asset = a
                 /\ access[g].state = "live" /\ access[g].until > now}

ResolveCapability(u, a) ==
  LET dec == Authorize(CurrentIdentity(u), "bastion.session:connect", attrs[a])
  IN  IF attrs[a] = None THEN "not found"
      ELSE IF dec.allowed \/ ActiveGrantFor(u, a) # {} THEN "allow"
      ELSE "deny"

(* What the middleware would answer if it ran in one step.                  *)
SessionAuthorized(u, a) ==
  \/ IsAdmin(CurrentIdentity(u))
  \/ RoleAdmits(CurrentIdentity(u), attrs[a])
  \/ FindActiveGrant(u, a) # {}

-----------------------------------------------------------------------------
(* Properties.                                                              *)

Started(s) == sessions[s].pc # "idle"

(* ConsumeTicket's delete under the mutex: no two connections, on the same  *)
(* or on different protocols, are ever opened with one ticket.              *)
SingleUse ==
  \A s1, s2 \in Session :
    Started(s1) /\ Started(s2) /\ s1 # s2 =>
      sessions[s1].token # sessions[s2].token

(* The whole path at once: a session is on the asset its ticket was issued  *)
(* for, starts within the ticket's lifetime, and when a grant admitted it,  *)
(* that grant was for this user and asset and had been neither revoked nor  *)
(* over when the ticket request came in.  Revoking a grant thus stops every *)
(* later ticket request, and what is still in flight within a TTL.          *)
SessionJustified ==
  \A s \in Session : Started(s) =>
    LET ticket == tickets[sessions[s].token]
        adm    == ticket.adm
    IN  /\ adm.asset = sessions[s].asset
        /\ sessions[s].start <= ticket.issued + TTL
        /\ adm.by = "grant" =>
             \E g \in Grant : /\ access[g].state # "none"
                              /\ access[g].user = adm.user
                              /\ access[g].asset = adm.asset
                              /\ ends[g] >= adm.began

(* Branches 1 and 2 of the middleware against the policy in plain words     *)
(* (MayAct): a request they admitted, whose caller's roles and whose asset  *)
(* have not changed since it came in, is one the policy admits.             *)
AdmittedInScope ==
  \A c \in Gate :
    /\ gates[c].pc = "admitted" /\ gates[c].adm.by \in {"admin", "role"}
    /\ ~ gates[c].adm.raced
    => MayAct(RowsOf(gates[c].adm.user), "bastion.session:connect",
              attrs[gates[c].adm.asset])

(* AcquireSession and the deferred release: the counter is exactly the      *)
(* number of terminals the user has open, through every way a session can   *)
(* end, and it never passes the cap.                                        *)
SlotsExact ==
  \A u \in User :
    /\ slots[u] = Cardinality({s \in Session :
                                 /\ sessions[s].pc = "running"
                                 /\ sessions[s].proto = "terminal"
                                 /\ Holder(s) = u})
    /\ slots[u] <= MaxSessions

(* gcLoop: a ticket nobody uses does not stay in memory for ever.           *)
TicketsEnd ==
  \A t \in Token : tickets[t].state = "live" ~> tickets[t].state = "gone"

(* The resolver and the middleware give the same answer about every asset   *)
(* that exists.                                                             *)
ResolverAgreesOnLiveAssets ==
  \A u \in User, a \in Asset : attrs[a] # None =>
    (ResolveCapability(u, a) = "allow" <=> SessionAuthorized(u, a))

(* bastion/middleware.go: "so the connect path and the resolver can never   *)
(* disagree".                                                               *)
ResolverNeverDisagrees ==
  \A u \in User, a \in Asset :
    ResolveCapability(u, a) = "allow" <=> SessionAuthorized(u, a)

=============================================================================

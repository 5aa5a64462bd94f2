# Verification of ops-platform

ops-platform is an operations portal: it keeps an inventory of cloud assets
(CMDB), decides who may do what to which of them (IAM), hands out short-lived
access to them (bastion), and opens browser sessions on them (terminal, RDP/VNC
and database bridges) that are audited and recorded. Operators use it through a
web portal. This directory holds TLA+ modules that model the access-control core
of the API server, its background work and the portal, the TLC runs that check
them on small instances, and theorems about them proved with TLAPS for instances
of every size.

The models are translated from the Go code, the SQL migrations and the
TypeScript of the portal.
`PROJECT.json` maps every definition that stands for code to its lines.

## 1. Inventory

| Component | State | Operations | Interacts with | Correct when |
|---|---|---|---|---|
| Capability evaluator, `internal/iam/authz.go`, `IdentityForUser` | none; a pure function of role rows and an asset's attributes | `IdentityForUser`, `Scope.Matches`, `Authorize`, `IsAdmin` | called by every gate | a gate admits exactly whom some role row admits; an unresolvable asset never admits a scoped holder |
| IAM middleware | none | `AuthMiddleware` reads the identity once per request, `RequirePermission` is the coarse gate | first step of every handler | a handler acts on one consistent identity |
| Capability resolver, `internal/iam/capability_repository.go` | none | `ResolveCapability`, matrix | reads roles, assets, grants | predicts what the gates answer |
| JIT grants and requests, `internal/bastion` | `bastion_request`, `bastion_grant` | create/revoke grant, create/approve/reject/cancel request | scope checks against IAM and CMDB, outside the transactions | two-person rule, one grant per approved request, bounded lifetime, decided rows final |
| Session gate, `bastion/middleware.go` | none | `RequireSessionAuthorization` | reads identity, asset, grants in three steps | every admission justified by a role or an active grant |
| Tickets, `internal/connectivity/ticket.go` | a map in memory | issue, consume, gc | issued behind the gate, consumed by the three `ServeWS` | single use, right asset, in time, collected |
| SSH terminal, `internal/terminal` | session slots per user in memory, pumps | `AcquireSession`, `ServeWS`, `runSession` | tickets, audit, recordings, host keys | slots exact, cap kept |
| RDP/VNC/Telnet bridge, `internal/guacproxy`; database bridge, `internal/dbproxy` | connections | `ServeWS` | tickets, audit, recordings | as above, without a cap |
| Audit and recordings, `internal/sessions`, `internal/storage` | `terminal_session`, files on disk, objects in storage | start, end, upload, link, janitor | written by two of the bridges, purged by a background loop | a pointer leads to an object, nothing purged early, everything purged in the end |
| Host keys, `internal/hostkey` | `ssh_known_host` | TOFU callback, override, delete | called by terminal and probe worker | one key per epoch, an override used once |
| Users, roles, login, `internal/iam` | users, bindings, login states in memory | bind/unbind, OIDC login and callback, bootstrap of the administrator | the source of identities | one token per login, one administrator by being the first |
| CMDB assets, `internal/cmdb` | assets, connection profiles, relations | create, update, soft delete | attributes decide scopes; written by users, synchronisation and propagation | edits and synchronisation do not trample each other |
| VPC proxies, `cmdb/vpcproxy*.go` | promoted flags, `cmdb_ssh_proxy`, routes of peers | promote, demote, reapply | edits of peers in a VPC, synchronisation | one promoted proxy per VPC, managed routes lead to a live one, users' routes kept |
| SSH proxies, key pairs | encrypted credentials | single-statement CRUD | edited by the connectivity page | a proxy has the credential it needs |
| AWS synchronisation, `internal/awssync` | `aws_sync_run`, assets written, `running` per process | scheduled and manual runs | writes the CMDB | one row per resource, runs end, curation kept |
| Probe worker | probe results | probe loop | host keys, proxies | every asset gets its turn |
| Portal: sign-in, `web/src/features/auth`, `api/client.ts` | token, identity, status, local storage, query cache | restore, login, logout, refresh, 401 | every page | who is shown owns the token; sessions end for a cause |
| Portal: sessions, `features/sessions`, `features/connect`, `lib/terminal.ts`, `lib/guacamole.ts` | launches, tabs, script loaders, sockets | launch, deep link, close, leave | ticket routes, bridges | no connection without its tab, one launch per link |
| Portal: editors (AWS, connectivity, IAM, OIDC, access, CMDB, audit) | forms, selections, mutations under way, cached queries | edit, save, delete, refresh, select | one or two API routes each, the query library | an answer never lands in the wrong form unnoticed; what was written is shown |
| Object storage client, migrations, configuration, encryption, HTTP wiring | - | - | - | - |

### What is hard to test here

The API server runs one goroutine per request against PostgreSQL, at READ
COMMITTED, with explicit row locks in one place only. What can go wrong lies
between statements: two approvers and a cancellation on one request; an identity
or an asset read before a transaction and used in it; a ticket presented twice,
late, or to another protocol; a restart that loses tickets and slots; two first
handshakes with different keys; an override approved, expiring and competed for
at once; an upload that fails after its session ended; a janitor whose batch is
bounded and whose updates fail; two promotions in one VPC; a synchronisation by
the worker and one by the API at once; pumps that outlive their session.

The portal is one thread, yet every call it makes is answered later, when the
operator may have selected another row, opened another editor, signed out or
left the page. What can go wrong lies between a click and its answer, between
two answers, and between a mutation and the queries that show its effect.

`PROJECT.json` lists these hazards at their lines, with the properties that
cover them and a note where the code gives no more than the property says.

## 2. Modules

```
Authz ----------> BastionGrants --refines--> JitAccess
  |                     |                        |
  |                     +-- BastionGrantsProofs  |
  |                     +-- MCBastionGrants      |
  |                                              |
  +-------------> ConnectPath <--its grants are--+
                        +-- ConnectPathProofs
                        +-- MCConnectPath
HostKeys       -- HostKeysProofs
SessionAudit   -- SessionAuditProofs
PortalAuth     -- PortalAuthProofs
PortalSessions -- PortalSessionsProofs, MCPortalSessions

MCComponents -- ComponentsProofs <- PagesProofs; one component at a time:
  the server   VpcProxies  AwsSync  OidcLogin  TerminalPumps
  the portal   PortalPage   <- PortalAws PortalProxies PortalKeys PortalIam PortalOidc
                               PortalAccess PortalAudit PortalConnect PortalRail PortalCache
               PortalDrawer <- PortalAssets PortalProfiles
               PortalBrowse  PortalRelations
```

**Authz** is the evaluator: `IdentityForUser` folds role rows into what a user
holds of each permission (an unscoped row absorbs the scoped ones),
`Authorize` decides, `AdmitsAsset` is the check both bastion gates make around
it (a scoped holder is refused when the asset could not be resolved). `MayAct`
states the policy without any of this. A scope value is compared by the code
after trimming and case folding; a member of `Value` is one class of equal
spellings. Names and reasons in decisions are left out.

**JitAccess** is what just-in-time access promises, without handlers, locks or
roles: claims are filed and closed once, access is conferred by somebody else
for a bounded time, and withdrawn access never comes back.

**BastionGrants** is the code. A handler in flight is a member of `Call` with a
program counter:

| step | code |
|---|---|
| `Begin...` (pc idle to begun) | auth middleware, coarse permission, validation of the body |
| `CheckCreateGrant`, `CheckApproveRequest` (to checked) | `enforceGrantScope` on the asset as it is now; the expiry is computed |
| `InsertGrant`, `CreateRequest`, `RevokeGrant`, `CancelRequest`, `RejectRequest` | one SQL statement, then the answer |
| `LockRequest` (to locked) | `SELECT ... FOR UPDATE`, status and self check, expiry |
| `CommitApproval` | insert, update, commit |
| `Abort` | any error, a lost client, a crash: rollback |

An UPDATE of a locked row waits (`RowLocked`), and looks at the row as it is
once the lock is free. The clock, role bindings and assets change at any time.
A request that ends in an error before it wrote anything leaves no trace, so a
guard stands for its error answer. `raced` is history: the calls whose
caller's roles, or whose asset, changed while they ran. A user is named in a
request's body by a text, `UserText`: his id as the database prints it, or
(for the users in `Alias`) another spelling that PostgreSQL casts to the same
uuid. `IsSelf` compares texts, as `createGrant` does; an approval compares two
ids that both come from the database. The field `alias` of a call and of a
grant is history: its user was named in another spelling.

**ConnectPath** composes the evaluator, the grants of JitAccess (its actions
`Confer` and `Withdraw` are actions of that module), the session gate, the
ticket service and the front half of the three `ServeWS`. A ticket request is a
member of `Gate`: `BeginTicket` reads the identity, `CheckRole` the asset,
`CheckGrant` the grants, `IssueTicket` stores the ticket. `ConsumeTicket` takes
it under the mutex and compares expiry and asset afterwards, so a refused
ticket is gone as well. `Restart` empties everything kept in memory.
`ResolveCapability` is the resolver behind `GET /iam/resolve`.

**HostKeys** is the callback, statement by statement (`Upsert`, `Get`,
`ConsumeOverride`, `RecordMismatch`), the administrator's `ApproveOverride` and
`Delete`, and `Fail` for the five-second deadline. `approved`, `replaced` and
`deleted` are history counters; an epoch of a target ends when its pin is
replaced or deleted.

**SessionAudit** is the back half of the terminal's and the Guacamole
bridge's `ServeWS` (row, recording file, upload, pointer) and the janitor, with
failures of each write, and crashes. The two do the same steps in the same
order; the database bridge writes the same row and never has a recording.

**VpcProxies** is the promotion of an asset to the proxy of its VPC. `Promote`
and `Demote` read before their transaction begins; a transaction is one step for
the locks it takes and one for its commit, and may fail. `ReapplyPropagation`
lists the proxies and then takes one transaction per VPC. Users edit and delete
proxies, assets and connections at any time. `loose` is history: the proxies
that went away in one of the ways that leave routes to them behind.

**AwsSync** is the synchronisation of one resource by two processes, the worker
and the API, each with its own `running`: look at AWS, start the run row, upsert
(the conflict target is the partial unique index of live rows), finish the run;
with failures, crashes, and an `UpdateAsset` that reads and writes in two steps.
A row has what AWS was seen to say, as a version, and what users curate.

**OidcLogin** is `OIDCLogin` and `OIDCCallback` with the state store in memory,
the upsert of the user and `EnsureAdminBinding`, which looks for a binding of
any role and binds the administrator in two statements. No role but that of
the administrator is bound in the model.

**TerminalPumps** is `runSession`: two output pumps, the input loop, the handler
that returns without waiting for them, and the recorder and the socket they
share. There may be no recorder, a write to the cast may fail, and a closed
recorder drops what it is given; the chunk is forwarded all the same. Output is
counted in chunks; two goroutines in `WriteJSON` may end the
process, as the WebSocket library panics then.

**PortalAuth** is `AuthProvider` with the API client, the login page, the
protected route, and one page whose queries carry the user's id in their key.
React runs the effects of a change before the next event, so a new token and the
restore it starts are one step; each answer of the server is a step of its own,
also when nobody waits for it any more.

**PortalSessions** follows a launch from the connect page or the rail through
its deep link, the calls that make its ticket, the scripts of its pane and the
socket to the tab it ends in. Launch number *i* is the launch, its ticket and
its tab. The loaders keep their promise, a rejected one too, as in the code.

The **editor pages** share two shapes. `PortalPage` has the four variables `db`
(what the server has), `cache` (what the page loaded), `m` (the mutations: sent,
executed, answered, waiting for the queries they invalidate) and `ui` (the
page's hooks). `PortalDrawer` is the same for the CMDB page, where several calls
of one mutation can be under way, because the page resets mutations that have
not ended. The pages are `PortalAws`, `PortalProxies` and `PortalKeys`
(connectivity), `PortalIam`, `PortalOidc`, `PortalAccess`, `PortalAudit`,
`PortalConnect`, and for the CMDB page `PortalAssets`, `PortalProfiles`,
`PortalBrowse` and `PortalRelations`, which share no local state but the
selection. Data is abstracted to what a property tells apart: whose values a
form holds, which version it was set from, which credentials are stored. In
PortalProxies the promotion and the demotion of assets are steps of their own
(`upsertProxyForAsset`, `Demote`), as they write rows of the page's table: a
promotion brings no credential and keeps those the row has.
A load is one step there. **PortalCache** takes it apart for all pages at once:
for each mutation a table says what the server changes, which queries are given
data and which are loaded again, and loads are asked and answered in steps.
The runs of a synchronisation are written by its goroutine, or by the worker, at
any time (`RunOnce`), not by the call that begins it.
**PortalRail** is the grouping and filtering of `lib/launch.ts`, over every list
of up to three assets.

The query library is external. What the code relies on is modelled: a mutation
is pending until the promise of its `onSuccess` is fulfilled; an invalidation
starts a load anew, but joins the first load of a query; a mutation called
offline is paused and resumes with the function of the latest render; a reset
mutation is no longer observed, yet its callbacks run.

## 3. Runs

| run | instance | question | result |
|---|---|---|---|
| `bastion_approvals` | 2 users, 1 asset, 1 request, 2 grants, 2 calls | two-person rule, linkage, lifetime, final history, scope, refinement of JitAccess on the request workflow | holds |
| `bastion_direct` | as above, no requests, 1 grant; one user has two spellings | the same on direct grants and revocations | holds |
| `connect_gate` | 1 ticket request, grant, ticket, session; a role edit, moves and deletion of the asset | sessions are justified, admissions are in scope, resolver agrees about existing assets | holds |
| `connect_tickets` | 2 assets, tickets, sessions and both kinds of protocol, cap 1 | single use, justified, slots exact, tickets leave the memory | holds |
| `connect_resolver` | as `connect_gate` | the resolver never disagrees with the gate (a comment in `bastion/middleware.go`) | **violated** |
| `hostkeys` | 1 target, 2 keys, 3 handshakes, 2 approvals, 1 deletion | one-time override, one key per epoch, pins replaced only by approval, every handshake answered | holds |
| `session_audit` | 2 sessions, batches of 2, 1 crash | pointers can be played, no early purge, no file left behind, expired recordings are purged | holds |
| `session_backlog` | 2 sessions, batches of 1 | expired recordings are purged, with more of them than a batch holds | **violated** |
| `session_pointer` | 1 session | the pointer of a purged recording is cleared | **violated** |
| `portal_auth` | 2 users, 2 tokens, 3 calls in flight | the user shown owns the token, cached data is one's own, sessions end for a cause, restores and redirects come to an end | holds |
| `portal_sessions` | an asset of each kind, 2 launches, 2 visits of the workspace | no orphaned connection, one tab shown, true and final statuses, one launch per link and at a time, SSH tabs do not connect for ever | holds |
| `components` | one component at a time, 2 things of each kind, 2 concurrent jobs | the properties of the pages and of the server's background work, below | holds |

A property of the last three runs, and of `bastion_direct`, is a conjunction of
named parts that are defined, with a comment each, in the modules:

| run | property | its parts, by module |
|---|---|---|
| `bastion_direct` | `DirectGrantsSafe` | TwoPersonRule, GrantLifetime |
| | `DirectStepsSafe` | HistoryFinal, ScopeEnforced, ImplementsJit |
| `portal_auth` | `OwnSession` | TypeOK, IdentityOwnsToken, CacheHoldsOwnData |
| | `EndsForCause` | - |
| | `SignInSettles` | RestoringEnds, RedirectsSettle |
| `portal_sessions` | `TabsOwnConnections` | TypeOK, NoOrphanConnection, OneTabShown, StatusOfConnection |
| | `LaunchedOnce` | DeepLinkLaunchesOnce, OneLaunchPending |
| | `TabsEnd` | EndIsFinal, ConnectingEnds |
| `components` | `RecordsSafe` | VpcProxies: OneProxyPerVpc, StableProxyRow, RoutedThroughLiveProxy; AwsSync: OneRowPerResource, RunsEnd; OidcLogin: OneTokenPerLogin, OneFirstAdmin; TerminalPumps: ShownIsRecorded, AuditedIsRecorded |
| | `UsersPrevail` | VpcProxies: UserRouteKept; AwsSync: CurationKept, ObservedAdvances |
| | `FormsHoldTheirOwn` | PortalAws: ForeignFormFlagged; PortalProxies: ProxyUsable; PortalKeys: KeyOfChosenFile; PortalAssets: EditKept; PortalProfiles: ConnectionEditorFresh |
| | `EditsAreMeant` | PortalAws, PortalProxies: ForeignFormOnlyLate; PortalKeys: KeypairDraftKept; PortalOidc: EditsDiscarded, SaveChangesOnlyEdits; PortalIam: BindsShownUser |
| | `ShownIsTrue` | PortalCache: ReadYourWrites; PortalConnect: AccessOfSelected; PortalIam: AnswerOfLastQuestion; PortalAudit: LinkApplied, ButtonTruthful; PortalBrowse: PageNotBlank; PortalRelations: RemovingTruthful |
| | `PickersTruthful` | PortalConnect: PaletteHighlights; PortalRail: TreeComplete, FacetMatchesTree |
| | `SentOnce` | PortalAccess: NoDoubleRequest; PortalAssets: OneCreation; PortalRelations: RemovedOnce |

`components` puts 18 modules that share no state behind one variable `part`,
chosen initially; each conjunct names its part, and the type invariant of every
part is in one of the conjunctions.

Several of these hold with an exception that is part of the property, because
the code has no guard there and no text of the repository promises one. The
history variable that records the exception is named in the module. They are
what a maintainer would look at first:

* a direct grant to oneself, under another spelling of one's id than the one
  `createGrant` compares the text of the body with (`alias` in BastionGrants and
  JitAccess), although the comment there says that "an approver must not be able
  to bypass approval by directly granting themselves"
  (`bastion/handler.go:171-172`);
* a profile refresh that outlives its session (`crossed` in PortalAuth): the
  identity of one user beside the token of another, or redirects back and forth;
* a 401 for an old token ends a newer session (a cause in `EndsForCause`);
* an RDP tunnel that breaks leaves the tab "connected" (`StatusOfConnection`),
  or "connecting" while it opens (`ConnectingEnds` is about SSH tabs);
* a proxy that was saved on the page and is then written by a promotion may lack
  the credential of its new kind of login (`by` in PortalProxies);
* what a mutation changes and its callback does not load again (`Forgotten` in
  PortalCache): the tree after a creation, an update, a deletion, a promotion or
  a demotion, the facets and the relations after an update, the connection after
  a promotion, and the detail, the list and the tree after a probe, which writes
  the tags and the time of change of its asset (`cmdb/repository.go:799`);
* the runs that a synchronisation writes after the call that began it was
  answered (`RunOnce` in PortalCache): the page loads them once, then;
* the late answer of an update puts one account's or proxy's values into the
  editor of another (`ForeignFormOnlyLate`, `crossed` in PortalProxies);
* a key file read later than one chosen after it (`overtaken`);
* a role bound offline goes to the user selected when the network is back;
* removals of two relations that overlap share one marker (`RemovedOnce`);
* a page of the list that has become shorter is blank (`PageNotBlank`);
* a proxy demoted while a propagation is under way stays in the routes of peers
  (`loose`); two overlapping first logins make two administrators (`raced`);
* output that the pumps read after `runSession` returned is shown and not
  recorded (`late`), and so is output whose write to the cast failed, or that of
  a session without a recorder (`lost`); a run whose process died stays running.

The violations are disagreements between the code and its own comments:

* **Soft-deleted assets** (`connect_resolver`). The resolver answers "not found"
  before it looks at permissions; the gate goes on without attributes and admits
  unscoped holders and holders of a grant.
* **Pointers never cleared** (`session_pointer`). `ClearRecording` sets to NULL
  two columns that the migration declares NOT NULL. The statement always fails.
* **Backlog** (`session_backlog`), a consequence: purged rows still qualify,
  are the oldest, and fill the bounded batch for ever once there are as many of
  them as the limit. The run uses a limit of one instead of 500.

### Bounds

* *Two calls, one request* show every pair of handlers in every interleaving of
  their statements; a third handler adds nothing to a conflict on one row,
  because a row has one lock and one status. Two grants are needed for the
  second grant of a request to be possible at all.
  Direct grants and revocations conflict on one grant, so `bastion_direct` has
  one, and a second user spelling for one of its two users.
* *Durations* are 0 (missing) and 2 (above the cap), with default and cap 1.
* *Clock*: far enough for a grant to be issued, to expire and to be looked at
  afterwards. In ConnectPath `MaxNow` = 3 with `TTL` = 1 leaves room for a
  ticket to be issued after a grant ended (`MaxDuration` = 2 there, so that
  revocation before expiry happens). A ticket that could not expire before the
  clock stops is not issued.
* *Three handshakes* are needed for two accepted ones and one that replaces the
  pin in between.
* *Two sessions*: batches in either order, a session that runs, ends or is
  finalised while the recording of another is purged, and with batches of one,
  a batch that is cut off.
* *portal_auth*: two users and two tokens let a session be followed by another
  user's; three calls leave room for a restore, a refresh and a query at once.
* *portal_sessions*: two launches are one that is followed by another while it is
  under way; two visits are one left with work under way.
* *components*: `MaxCalls` = 2 mutations of an operator (3 inspections, 3
  removals; 3 saves and promotions of SSH proxies, so that a row is promoted,
  saved and promoted again), two `Things` (accounts, proxies, files, users, assets, relations),
  so that an answer can find another thing selected; `MaxAssets` = 3 with pages
  of 2, so that there is a second page; lists of up to 3 assets for the rail.
  Two `Jobs` are two promotions, or two callbacks, at once. The synchronisation
  sees two changes at AWS, two rows, two runs and one edit, the login three
  states of which two can belong to one user, the terminal two chunks of each
  stream. In PortalBrowse a list that has become shorter counts as such from
  then on; in VpcProxies assets only leave their VPC.
* Symmetry of `components` is over `Things` and `Jobs`: no part orders them,
  chooses among them, or names one of them, and the run has no liveness property.
* Symmetry elsewhere is used only over calls and grant ids, which no operator tells apart,
  and never in a run with a liveness property.
* Deadlock is not checked where handshakes, sessions, launches and calls are
  one-shot or the clock is bounded: the runs there do come to an end.

### Fairness

* `TicketsEnd`: time passes and the gc goroutine, driven by a ticker for the
  life of the process, keeps running. Nothing is assumed of clients.
* `Answered`: each handshake's own statements go on, which the deadline of the
  callback's context guarantees; nothing is assumed of the administrator or of
  other handshakes.
* `ExpiredArePurged`, `BrokenPointersCleared`: the ticker keeps starting runs, a
  run keeps going (weak fairness), and storage does not fail the removal of one
  object for ever (strong fairness on a successful removal per session). The
  last is an assumption about the object store; without it nothing could be
  promised. Both violations of the janitor's promises occur in spite of it.

* `RestoringEnds`, `RedirectsSettle`: every call of the browser is answered or
  fails, and a redirect that is rendered is followed. Nothing is assumed of the
  operator or of what the server answers.
* `ConnectingEnds`: the calls of a launch end, a script loads or fails to load,
  and a handshake of a socket ends in a connection or an error, as browsers
  guarantee.

Every property of a passing run has a mutant in `PROJECT.json`: a variant of one
mapped definition, kept beside it under the comment "Mutant", with which the
property fails. A conjunction has a mutant for each of its parts, the
type invariants apart.

## 4. Proofs

All theorems hold for every value of the constants that satisfies the named
assumptions of the modules: durations and bounds are natural numbers (a default
duration, a retention, a batch size and the changes at AWS positive ones), role
tables and profiles have their types, `None`, `NoKey`, `NoUser`, "none" and
"typed" are no real ids, and `Undefined`, what a query holds before its first
answer, is no answer. TLC evaluates each assumption in a run. The bounds of the runs
are constants like any other, so a theorem is about any number of users, assets,
calls, sessions, tokens, launches, rows and jobs, and any length of time.

Hardly any property is inductive alone: what one step has looked at must still
be so when a later one acts on it, whatever happened in between. Each proof
module therefore begins with an inductive invariant, whose parts are named for
what they say and were model-checked with the properties first. It has one lemma
per action, and takes the theorems from the invariant.

| module | theorem | states |
|---|---|---|
| BastionGrantsProofs | EvaluatorIsPolicy | `AdmitsAsset` over `IdentityForUser` is `MayAct` |
| | TypeCorrect, TwoPersons, ApprovalsLinked, LifetimesBounded, HistoryIsFinal, ScopeIsEnforced | TypeOK, TwoPersonRule, ApprovalLinkage, GrantLifetime, HistoryFinal, ScopeEnforced |
| | Refinement | ImplementsJit, that is `Spec => JitAccess` |
| | DirectGrants, DirectSteps | DirectGrantsSafe, DirectStepsSafe |
| ConnectPathProofs | TypeCorrect, TicketsUsedOnce, SessionsAreJustified, AdmissionsInScope, SlotsAreExact, ResolverAgrees | TypeOK, SingleUse, SessionJustified, AdmittedInScope, SlotsExact, ResolverAgreesOnLiveAssets |
| HostKeysProofs | TypeCorrect, OverridesAreOneTime, EpochsHaveOneKey, PinsArePinned | TypeOK, OneTimeOverride, OneKeyPerEpoch, PinnedUntilApproved |
| SessionAuditProofs | TypeCorrect, RecordingsArePlayable, CastsAreDiscarded, NothingPurgedEarly | TypeOK, Playable, CastsDiscarded, NoEarlyPurge |
| PortalAuthProofs | SessionIsOwn, SessionsEndForCause | OwnSession, EndsForCause |
| PortalSessionsProofs | TabsAndConnections, LaunchesAreSingle, EndsAreFinal | TabsOwnConnections, LaunchedOnce, EndIsFinal |
| ComponentsProofs | RecordsAreSafe, UsersAreHeard | RecordsSafe, UsersPrevail |
| PagesProofs | RequestsAreSentOnce, FormsAreTheirOwn, EditsMeant, PagesShowTheTruth | SentOnce, FormsHoldTheirOwn, EditsAreMeant, ShownIsTrue |

* **EvaluatorIsPolicy**: the shortcuts (admin, unscoped wins, unresolved asset)
  neither widen nor narrow the policy. The proofs of both gates use it;
  ConnectPathProofs has it as a lemma of its own, as the two modules are about
  different variables and neither can extend the other.
* **BastionGrantsProofs**: `CallInv` says what each call has established
  and nobody else can undo: a grant about to be inserted is for somebody else,
  or for a caller who was named in another spelling, and within the cap; a request that is locked is still pending and not the
  approver's own; no two calls hold a lock on one row; stored durations are
  within the cap. Actions that only move their own call on share `CallChange`,
  those that close a request share `CloseRequestInv`. `CallsInScope` relates the
  identity a call has read to the roles of now: they are the same, and the scope
  check made with it is what the policy says, until an edit puts the call into
  `raced`. `ScopeEnforced` follows from it.
* **ConnectPathProofs**: an admission is followed along the path. `GatesOK` says
  what is known of a ticket request after each of its three reads, `TicketsOK`
  that a ticket keeps the admission it was issued for (`Backed`: a grant for
  this user and asset that had not ended when the request came in, whatever was
  withdrawn since), `SessionsOK` that a session has used its ticket up, for its
  asset and in time. `SlotsOK` adds to `SlotsExact` that the terminals of a user
  are finitely many.
* **HostKeysProofs**: `PendingPaid` (a pending override has been paid for by an
  approval not spent yet) and `AcceptedPinned` (an acceptance of the current
  epoch offered the pinned key).
* **SessionAuditProofs**: `UploadedBeforeLink` (the object is there between the
  upload and the pointer), `LinkedWhenDone` (only a handler that is through has a
  pointer, so no upload races with the janitor) and `BatchExpired` (what a run of
  the janitor has chosen stays expired while it works on it).
* **PortalAuthProofs**: `CarriesOwn` (a call carries a token that was issued, and
  a query the key of the token's owner) and `ActiveIsCurrent` (a restore whose
  `active` flag is still set is for the present token), under the exception
  `crossed` of the properties.
* **PortalSessionsProofs**: `LaunchInv` is about launches and links (launches
  start in order, the one that `isPending` looks at is the last, a link whose
  effect is due has been followed and has launched nothing), `TabInv` about tabs
  and connections (a tab comes from a launch that succeeded, and only a mounted
  pane has a status). `EndsAreFinal` is the safety half of `TabsEnd`.
* **ComponentsProofs**: an invariant for each component of the server, and for
  five pages of the portal, of which PagesProofs draws the conclusions.
  `VpcInv`: an asset claims its VPC from the moment its promotion has the entry in
  the unique index, and one asset at most does (`OneClaim`); a demotion has
  locked every route to its proxy unless a propagation has overlapped it
  (`DemotesComplete`). `SyncInv`: a row marked running has a process that works
  on it, unless that process died (`RunsWorkedOn`); a run that has not been
  overtaken has seen nothing older than what it writes over (`SeenInOrder`).
  `LoginInv`: a login state is in the store, with one callback, or spent
  (`StatesInOnePlace`). `TerminalInv`: every chunk counted is in the cast, too
  late for it, lost to it, or with a pump that is about to record it (`ChunksAccounted`).
  `AccessInv`: a draft in the form owes the server a request until the server has
  it (`DraftsAccounted`), which bounds the requests by the drafts and the lost
  answers. `InventoryInv`: one update is under way at most, always observed and
  about the asset of an open editor, and one creation unless its form was hidden
  (`CallsOfPage`); the versions stay within the number of calls
  (`VersionsOfCalls`). `RelationsInv`: the removal under way is the one marked,
  unless two overlapped (`RemovalMarked`).
  `AwsInv`: a row is about its account, the open editor is that of an account
  the page has, and the answer of an update is about the account it was sent for.
  `ProxyInv`: credentials that a form or an answer says are stored are stored, and a
  row keeps them when it is promoted or deleted (`Stored`); a save under way brings the credential of
  its kind of login or finds it stored, unless an answer crossed it.
* **PagesProofs**: one invariant per page, `PageInv` together. Each one says what
  the answer of a call under way is about, and how that fits what the page shows
  when it arrives.
  `KeysInv`: what is typed while an upload is under way is what is
  being uploaded (`KeysDraft`), so that its answer discards nothing else.
  `OidcInv`: a form differs from the settings it was made of in the touched
  fields only, and so does what is sent (`Unedited`). `IamInv`: a binding that is
  sent names the user shown at the click unless it waited for the network.
  `ProfilesInv`: the versions the page has were written by the server, those the
  calls can still write are counted (`ProfileVersions`), and an open editor
  started from the version the page has. `CacheInv`: for each mutation under way
  and each query it changed, the version it wrote is in the query or in an answer
  on its way (`Fresh`), or what is left of the callback invalidates the query
  (`Settled`); the tables of the 6 pages are gone through mutation by mutation
  (`MutationOk`). `BrowseInv`: a page, or a query of one, begins within its list
  unless that list has become shorter (`Inside`). `AuditInv`: the filters are
  those of the link until they are edited, and the button follows the player
  until another recording replaces it. `ConnectInv`: an answer is kept under the
  asset that it is about.

Writing the invariant of the proxies page showed an error of the model: a deleted
proxy's id could be given to a new proxy, so that a late update of the old one
reached the new one. Ids are new (`uuid.NewString()`) and the row of a deleted
proxy stays (`sshproxy/repository.go:110,204`); the field `live` and `Fresh`
of PortalProxies now keep them from being used again, except by the promotion
that wrote the row, which revives it.

Only model-checked:

* liveness, which is out of the prover's reach: `TicketsEnd`, `Answered`,
  `ExpiredArePurged`, `SignInSettles` (RestoringEnds, RedirectsSettle), and
  ConnectingEnds of `TabsEnd`;
* `PickersTruthful`: TreeComplete and FacetMatchesTree of the rail, and the
  palette with the type of its list, say what functions over sequences (SelectSeq,
  sorting, folds) compute, which takes induction over data; the provers do not
  look into SelectSeq.

## 5. Not modelled

* The Guacamole protocol and the byte pumps of the RDP and database bridges;
  resizing, keyboard and clipboard of the panes.
* That the goroutines of a terminal stop in the end.
* Local login and role editing on the server: single statements. The OIDC
  settings are read and written in two (`SaveOIDCSettings`), of which the read
  only supplies the secret when none is sent; PortalOidc has them as one step, so
  that a secret saved by somebody else in between is not covered.
* The probe loop and the proxied dial; the migration runner.
* In the portal: messages, formatting, layout, theme and keyboard focus; the
  matrix of the capability view and the counts of the overview, which display
  what was loaded; the rows of a page of assets, of which only the number is
  modelled; that the tree view loads at most 500 assets.
* Types, constants and one-line wrappers of `api/` beyond the calls that the
  modelled mutations and queries make.
* Encryption, password hashing, configuration and HTTP helpers: they keep no
  state whose steps could interleave.

Known and without a property, as nothing in the repository says what should
happen: an audit row whose session ended with the process stays open, and an
object uploaded before a crash has no row (`terminal/handler.go:153`); pages are
ordered by `updated_at`, so an asset edited between two of them moves
(`cmdb/repository.go:194`); a synchronisation seen running is not polled
(`AwsPage.tsx:309`); the tree of the CMDB page loads at most 500 assets
(`AssetsPage.tsx:1069`).

## 6. What could be added

1. Proofs about the rail and the palette, with a prover that has induction over
   sequences.
2. Liveness of the goroutines of a terminal; the probe loop.

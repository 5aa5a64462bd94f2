----------------------------- MODULE MCComponents -----------------------------
(***************************************************************************)
(* The components that share no state with one another, each checked by    *)
(* itself: the pages of the portal (the operator has opened one of them    *)
(* and stays on it), and on the server the proxies of VPCs, the AWS        *)
(* synchronisation, the OIDC login and the goroutines of a terminal.  Each *)
(* is a module over the same four variables.                               *)
(***************************************************************************)
EXTENDS Naturals, FiniteSets, TLC

CONSTANTS Undefined, MaxCalls, MaxAssets, MaxInspections, MaxRemovals, MaxProxyWrites,
          MaxProxies, MaxCloud, MaxRows, MaxRuns, MaxEdits, MaxChunks,
          Logins,      \* the states of OIDC logins
          Things,      \* accounts, proxies, key files, users, assets, recordings
          One,         \* targets, roles, users of the audit filter: one of them
          Jobs         \* calls handled at once by the server

VARIABLES part, db, cache, m, ui

vars == <<part, db, cache, m, ui>>

ASSUME BoundsAssumption ==
    /\ MaxProxies \in Nat /\ MaxCloud \in Nat \ {0} /\ MaxRows \in Nat
    /\ MaxRuns \in Nat /\ MaxEdits \in Nat /\ MaxChunks \in Nat /\ MaxCalls \in Nat
    /\ MaxAssets \in Nat

\* The words for an empty column or no login, and for what was typed, name nothing.
ASSUME NamesAssumption == "none" \notin Things \cup Logins /\ "typed" \notin Things

Aws        == INSTANCE PortalAws      WITH Accounts <- Things
SshProxies == INSTANCE PortalProxies  WITH Proxies <- Things, MaxCalls <- MaxProxyWrites
Keys       == INSTANCE PortalKeys     WITH Files <- Things, Targets <- One
Iam        == INSTANCE PortalIam      WITH Users <- Things, Roles <- One
Oidc       == INSTANCE PortalOidc
Access     == INSTANCE PortalAccess   WITH Assets <- Things
Audit      == INSTANCE PortalAudit    WITH Users <- One, Recordings <- Things, MaxCalls <- MaxInspections
Inventory  == INSTANCE PortalAssets   WITH Assets <- Things
Profiles   == INSTANCE PortalProfiles WITH Assets <- Things
Connect    == INSTANCE PortalConnect  WITH Assets <- Things
Rail       == INSTANCE PortalRail
Cache      == INSTANCE PortalCache
Browse     == INSTANCE PortalBrowse   WITH pageSize <- 2
Relations  == INSTANCE PortalRelations WITH Assets <- One \cup {"two"}, Relations <- Things, MaxCalls <- MaxRemovals
Vpc        == INSTANCE VpcProxies     WITH Assets <- Things, Calls <- Jobs, ProxyIds <- 1..MaxProxies,
                                           calls <- m, loose <- ui
Sync       == INSTANCE AwsSync        WITH procs <- cache, edit <- m, runner <- ui
Login      == INSTANCE OidcLogin      WITH States <- Logins, Callbacks <- Jobs,
                                           Subjects <- Things \cup One, Bootstrap <- One,
                                           store <- cache, calls <- m, tokens <- ui
Terminal   == INSTANCE TerminalPumps  WITH Streams <- {"stdout", "stderr"},
                                           ssh <- db, pcs <- cache, main <- m, log <- ui

\* The value for no data is none of the data that the pages compare it with.
ASSUME UndefinedAssumption ==
    /\ Undefined \notin Aws!Values
    /\ Undefined \notin [running : BOOLEAN, accounts : [Things -> Aws!Values \cup {Aws!Blank}]]
    /\ Undefined \notin [enabled : BOOLEAN, url : 0..2, version : Nat]
    /\ Undefined \notin [enabled : BOOLEAN, url : 0..2, secret : 0..2, version : Nat]

\* No component orders its things or its calls, or tells them apart.
Symmetry == Permutations(Things) \cup Permutations(Jobs)

Init ==
    \/ part = "aws"      /\ Aws!Init
    \/ part = "proxies"  /\ SshProxies!Init
    \/ part = "keys"     /\ Keys!Init
    \/ part = "iam"      /\ Iam!Init
    \/ part = "oidc"     /\ Oidc!Init
    \/ part = "access"   /\ Access!Init
    \/ part = "audit"    /\ Audit!Init
    \/ part = "assets"   /\ Inventory!Init
    \/ part = "profiles" /\ Profiles!Init
    \/ part = "connect"  /\ Connect!Init
    \/ part = "rail"     /\ Rail!Init
    \/ part = "cache"    /\ Cache!Init
    \/ part = "browse"   /\ Browse!Init
    \/ part = "relations" /\ Relations!Init
    \/ part = "vpc"      /\ Vpc!Init /\ cache = Undefined
    \/ part = "sync"     /\ Sync!Init
    \/ part = "login"    /\ Login!Init
    \/ part = "terminal" /\ Terminal!Init

Next ==
    /\ UNCHANGED part
    /\ \/ part = "aws"      /\ Aws!Next
       \/ part = "proxies"  /\ SshProxies!Next
       \/ part = "keys"     /\ Keys!Next
       \/ part = "iam"      /\ Iam!Next
       \/ part = "oidc"     /\ Oidc!Next
       \/ part = "access"   /\ Access!Next
       \/ part = "audit"    /\ Audit!Next
       \/ part = "assets"   /\ Inventory!Next
       \/ part = "profiles" /\ Profiles!Next
       \/ part = "connect"  /\ Connect!Next
       \/ part = "rail"     /\ Rail!Next
       \/ part = "cache"    /\ Cache!Next
       \/ part = "browse"   /\ Browse!Next
       \/ part = "relations" /\ Relations!Next
       \/ part = "vpc"      /\ Vpc!Next /\ UNCHANGED cache
       \/ part = "sync"     /\ Sync!Next
       \/ part = "login"    /\ Login!Next
       \/ part = "terminal" /\ Terminal!Next

Spec == Init /\ [][Next]_vars
-----------------------------------------------------------------------------
\* What the server's work leaves behind, however it overlaps or is cut off.
\* VPC proxies: at most one asset of a VPC is promoted, although Promote looks
\* before its transaction; an asset keeps its proxy row through promotions and
\* demotions; a managed connection goes through a live proxy, but for the
\* proxies deleted by hand or demoted while a propagation was under way.
\* Synchronisation: a resource has at most one live row, and a run shown as
\* running is under way, crashes apart.  OIDC login: one login, one token, and
\* one administrator at most comes from being the first.  Terminal: what the
\* browser was sent, and what the audit row counts, is in the cast, late output,
\* failed writes, sessions without a recorder and a chunk of each stream apart.
RecordsSafe ==
    /\ part = "vpc"      => /\ Vpc!TypeOK /\ Vpc!OneProxyPerVpc /\ Vpc!StableProxyRow
                            /\ Vpc!RoutedThroughLiveProxy
    /\ part = "sync"     => Sync!TypeOK /\ Sync!OneRowPerResource /\ Sync!RunsEnd
    /\ part = "login"    => Login!TypeOK /\ Login!OneTokenPerLogin /\ Login!OneFirstAdmin
    /\ part = "terminal" => Terminal!TypeOK /\ Terminal!ShownIsRecorded /\ Terminal!AuditedIsRecorded

\* What users have decided is kept.  VPC proxies: a connection that a user has
\* edited is changed by users only.  Synchronisation: what users curate is
\* changed by their edits alone, and only an edit or an overtaken run puts back
\* what AWS said before.
UsersPrevail ==
    [][/\ part = "vpc"  => Vpc!UserRouteKept
       /\ part = "sync" => Sync!CurationKept /\ Sync!ObservedAdvances]_vars

\* An open form holds what its next save should be about.  AWS: values of another
\* account count as unsaved changes.  SSH proxies: what was saved
\* there has the credential it needs, until a promotion writes it.  Key upload: a key read from a file is that of the file
\* chosen last.  CMDB: the answer of an update closes no editor of another asset,
\* and the connection editor started from the profile the page has.
FormsHoldTheirOwn ==
    /\ part = "aws"      => Aws!TypeOK /\ Aws!ForeignFormFlagged
    /\ part = "proxies"  => SshProxies!TypeOK /\ SshProxies!ProxyUsable
    /\ part = "keys"     => Keys!TypeOK /\ Keys!KeyOfChosenFile
    /\ part = "oidc"     => Oidc!TypeOK
    /\ part = "assets"   => Inventory!TypeOK /\ Inventory!EditKept
    /\ part = "profiles" => Profiles!TypeOK /\ Profiles!ConnectionEditorFresh

\* No answer changes a form, and no save changes the server, beyond what the
\* operator meant.  AWS and SSH proxies: only a late answer of an update brings
\* another one's values.  Key upload: an answer discards nothing typed since.
\* OIDC: edits are discarded by a save or by other settings only, and a save of
\* a fresh form changes the edited fields only.  IAM: a role binding changes the
\* user it was clicked at.
EditsAreMeant ==
    [][/\ part = "aws"     => Aws!ForeignFormOnlyLate
       /\ part = "proxies" => SshProxies!ForeignFormOnlyLate
       /\ part = "keys"    => Keys!KeypairDraftKept
       /\ part = "oidc"    => Oidc!EditsDiscarded /\ Oidc!SaveChangesOnlyEdits
       /\ part = "iam"     => Iam!BindsShownUser]_vars

\* What a page shows is about what it is asked for, whatever is answered late.
\* Queries: what a mutation had changed when it was answered is shown when it has
\* ended, the Forgotten pairs apart.  Connect: the access shown is that of the
\* selected asset.  Capability view: the answer is
\* that to the last question.  Audit: the list is what the link asks for, and the
\* player's button says what it does.  CMDB: a page is blank only if the list has
\* become shorter, and a relation is shown as being removed only while it is.
ShownIsTrue ==
    /\ part = "cache"     => Cache!TypeOK /\ Cache!ReadYourWrites
    /\ part = "connect"   => Connect!AccessOfSelected
    /\ part = "iam"       => Iam!TypeOK /\ Iam!AnswerOfLastQuestion
    /\ part = "audit"     => Audit!TypeOK /\ Audit!LinkApplied /\ Audit!ButtonTruthful
    /\ part = "browse"    => Browse!TypeOK /\ Browse!PageNotBlank
    /\ part = "relations" => Relations!RemovingTruthful

\* The lists that an operator picks an asset from.  Connect: the palette
\* highlights one of its results, whatever is typed and pressed.  Rail: the tree
\* has every asset that passes the filters once, and the facet agrees with its
\* headings.
PickersTruthful ==
    /\ part = "connect" => Connect!TypeOK /\ Connect!PaletteHighlights
    /\ part = "rail"    => Rail!TypeOK /\ Rail!TreeComplete /\ Rail!FacetMatchesTree

\* What the operator asks for once is sent once.  Access: one draft makes one
\* request, lost answers apart.  CMDB: the creation form sends one creation at a
\* time, and a relation is removed by one call, overlapping removals apart.
SentOnce ==
    /\ part = "access"    => Access!TypeOK /\ Access!NoDoubleRequest
    /\ part = "assets"    => Inventory!OneCreation
    /\ part = "relations" => Relations!TypeOK /\ Relations!RemovedOnce
=============================================================================

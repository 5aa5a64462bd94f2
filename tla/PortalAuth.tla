----------------------------- MODULE PortalAuth -----------------------------
(***************************************************************************)
(* Signing in to the web portal: AuthProvider.tsx with the API client of   *)
(* api/client.ts, LoginPage.tsx, ProtectedRoute.tsx, the sign-out button   *)
(* of AppShell.tsx, the refresh of ProfilePage.tsx, and one page under the *)
(* protected route whose queries carry the user's id in their key          *)
(* (OverviewPage.tsx).  React runs the effects of a state change before    *)
(* the next event, so a change of the token and the restore it starts are  *)
(* one step; every answer of the server is a step of its own, and calls    *)
(* that are not awaited any more are still answered.                       *)
(***************************************************************************)
EXTENDS Naturals, Sequences, FiniteSets

CONSTANTS Users,        \* the users who sign in at this browser
          NoUser,
          MaxTokens,    \* bound on the tokens the server issues
          MaxCalls      \* bound on the calls in flight

ASSUME PortalAuthAssumption == NoUser \notin Users /\ MaxTokens \in Nat

NoToken == 0
Tokens == 1..MaxTokens

VARIABLES auth,      \* AuthProvider's state: token, identity, status
          stored,    \* localStorage: NoToken or a token
          storage,   \* whether this browser lets the portal use localStorage
          route,     \* the location: the login page or a page of the portal
          busy,      \* submitting of LoginPage, refreshing of ProfilePage
          calls,     \* the API calls in flight
          owner,     \* the server: whose the issued tokens are
          valid,     \* the server: the tokens it accepts
          cache,     \* the query cache: whose data is under the keys of a user
          crossed    \* history: a profile refresh outlived its token

vars == <<auth, stored, storage, route, busy, calls, owner, valid, cache, crossed>>

Statuses == {"restoring", "authenticated", "anonymous"}
Kinds == {"login", "me", "refresh", "data"}

\* A call: the token it carries and whether the server accepts it then, the
\* user it is about (who signs in, or whose key is fetched), and whether the
\* effect that made it is still the current one.
Call(kind, tok, user) ==
    [kind |-> kind, tok |-> tok, ok |-> tok \in valid, user |-> user, active |-> TRUE]

readStoredToken == IF storage THEN stored ELSE NoToken
persistToken(t) == stored' = IF storage THEN t ELSE stored

\* The cleanup of the restore effect: the call it made no longer counts.
Deactivated(cs) == {IF c.kind = "me" THEN [c EXCEPT !.active = FALSE] ELSE c : c \in cs}

\* Commit of a state with the token t, with the restore effect it runs.
SetToken(t, id, rest) ==
    IF t = NoToken
    THEN /\ auth' = [token |-> NoToken, identity |-> NoUser, status |-> "anonymous"]
         /\ calls' = Deactivated(rest)
    ELSE /\ auth' = [token |-> t, identity |-> id, status |-> "restoring"]
         /\ calls' = Deactivated(rest)
              \cup {[kind |-> "me", tok |-> t, ok |-> t \in valid', user |-> NoUser, active |-> TRUE]}

resetAuth(rest) == persistToken(NoToken) /\ SetToken(NoToken, NoUser, rest)

\* What the protected route shows: the page, a spinner or a redirect.
PageShown == route = "page" /\ auth.status = "authenticated" /\ auth.token # NoToken

\* A browser that opens the portal, with or without a token in its storage.
Init ==
    /\ storage \in BOOLEAN
    /\ \E u \in Users, t \in {NoToken} \cup (Tokens \cap {1}), alive \in BOOLEAN :
          /\ owner = IF t = NoToken THEN <<>> ELSE <<u>>
          /\ valid = IF alive /\ t # NoToken THEN {t} ELSE {}
          /\ stored = t
          /\ auth = [token |-> IF storage THEN t ELSE NoToken, identity |-> NoUser,
                     status |-> IF storage /\ t # NoToken THEN "restoring" ELSE "anonymous"]
          /\ calls = IF storage /\ t # NoToken
                     THEN {[kind |-> "me", tok |-> t, ok |-> alive, user |-> NoUser, active |-> TRUE]}
                     ELSE {}
    /\ route \in {"login", "page"}
    /\ busy = [submitting |-> FALSE, refreshing |-> FALSE]
    /\ cache = [u \in Users |-> {}]
    /\ crossed = FALSE

-----------------------------------------------------------------------------
\* The routes.

\* When ProtectedRoute and LoginPage render a redirect.
guardRedirects == auth.status # "restoring" /\ (auth.token = NoToken \/ auth.status = "anonymous")

\* Mutant: a token is enough to leave the login page.
loginRedirectsWithToken == auth.token # NoToken

loginRedirects == auth.status = "authenticated"

\* ProtectedRoute without a session; the page that was shown unmounts.
RedirectToLogin ==
    /\ route = "page" /\ guardRedirects
    /\ route' = "login"
    /\ busy' = [submitting |-> FALSE, refreshing |-> FALSE]
    /\ UNCHANGED <<auth, stored, storage, calls, owner, valid, cache, crossed>>

\* LoginPage of somebody who is signed in.
LeaveLogin ==
    /\ route = "login" /\ loginRedirects
    /\ route' = "page"
    /\ busy' = [submitting |-> FALSE, refreshing |-> FALSE]
    /\ UNCHANGED <<auth, stored, storage, calls, owner, valid, cache, crossed>>

-----------------------------------------------------------------------------
\* What the user does.

onSubmit(u) ==
    /\ route = "login" /\ auth.status # "authenticated" /\ ~busy.submitting
    /\ Cardinality(calls) < MaxCalls
    /\ busy' = [busy EXCEPT !.submitting = TRUE]
    /\ auth' = [auth EXCEPT !.status = "restoring"]
    /\ calls' = calls \cup {Call("login", NoToken, u)}
    /\ UNCHANGED <<stored, storage, route, owner, valid, cache, crossed>>

\* The full-page round trip of an OIDC login: the server's callback page
\* writes the token to localStorage and opens the portal again.
beginOidcLogin(u) ==
    /\ route = "login" /\ auth.status # "authenticated"
    /\ Len(owner) < MaxTokens /\ storage
    /\ owner' = Append(owner, u)
    /\ valid' = valid \cup {Len(owner')}
    /\ stored' = Len(owner')
    /\ SetToken(Len(owner'), NoUser, {})
    /\ route' = "page"
    /\ busy' = [submitting |-> FALSE, refreshing |-> FALSE]
    /\ cache' = [v \in Users |-> {}]
    /\ crossed' = FALSE
    /\ UNCHANGED storage

logout ==
    /\ PageShown
    /\ resetAuth(calls)
    /\ UNCHANGED <<storage, route, busy, owner, valid, cache, crossed>>

\* The refresh button of the profile page, over refreshProfile.
refresh ==
    /\ PageShown /\ ~busy.refreshing
    /\ Cardinality(calls) < MaxCalls
    /\ busy' = [busy EXCEPT !.refreshing = TRUE]
    /\ calls' = calls \cup {Call("refresh", auth.token, NoUser)}
    /\ UNCHANGED <<auth, stored, storage, route, owner, valid, cache, crossed>>

\* A query of the page, keyed by the id of the user who is shown as signed in.
OverviewQuery ==
    /\ PageShown
    /\ Cardinality(calls) < MaxCalls
    /\ calls' = calls \cup {Call("data", auth.token, auth.identity)}
    /\ UNCHANGED <<auth, stored, storage, route, busy, owner, valid, cache, crossed>>

\* The tab is reloaded.
Reload ==
    /\ LET t == readStoredToken IN
           /\ auth' = [token |-> t, identity |-> NoUser,
                       status |-> IF t = NoToken THEN "anonymous" ELSE "restoring"]
           /\ calls' = IF t = NoToken THEN {} ELSE {Call("me", t, NoUser)}
    /\ busy' = [submitting |-> FALSE, refreshing |-> FALSE]
    /\ cache' = [u \in Users |-> {}]
    /\ crossed' = FALSE
    /\ UNCHANGED <<stored, storage, route, owner, valid>>

-----------------------------------------------------------------------------
\* The answers.  apiRequest reports every 401 to onUnauthorized, whichever
\* token the call was made with.

unauthorized(c) == c.kind # "login" /\ c.tok \notin valid

\* login: the token is stored and the restore effect runs with it.
loginDone(c) ==
    /\ c.kind = "login" /\ Len(owner) < MaxTokens
    /\ owner' = Append(owner, c.user)
    /\ valid' = valid \cup {Len(owner')}
    /\ persistToken(Len(owner'))
    /\ SetToken(Len(owner'), c.user, calls \ {c})
    /\ route' = "page"
    /\ busy' = [busy EXCEPT !.submitting = FALSE]
    /\ UNCHANGED <<storage, cache, crossed>>

loginFailed(c) ==
    /\ c.kind = "login"
    /\ auth' = [auth EXCEPT !.status = "anonymous"]
    /\ busy' = [busy EXCEPT !.submitting = FALSE]
    /\ calls' = calls \ {c}
    /\ UNCHANGED <<stored, storage, route, owner, valid, cache, crossed>>

\* Mutant: the answer counts for whatever token is there.
restoreDoneLate(c) ==
    /\ c.kind = "me" /\ c.ok
    /\ auth' = [auth EXCEPT !.identity = owner[c.tok], !.status = "authenticated"]
    /\ calls' = calls \ {c}
    /\ UNCHANGED <<stored, storage, route, busy, owner, valid, cache, crossed>>

\* Mutant: the token is taken for the identity.
restoreDoneSwapped(c) ==
    /\ c.kind = "me" /\ c.ok
    /\ auth' = IF c.active
               THEN [auth EXCEPT !.identity = c.tok, !.status = "authenticated"]
               ELSE auth
    /\ calls' = calls \ {c}
    /\ UNCHANGED <<stored, storage, route, busy, owner, valid, cache, crossed>>

\* The restore effect ignores an answer once its token has been replaced.
restoreDone(c) ==
    /\ c.kind = "me" /\ c.ok
    /\ auth' = IF c.active
               THEN [auth EXCEPT !.identity = owner[c.tok], !.status = "authenticated"]
               ELSE auth
    /\ calls' = calls \ {c}
    /\ UNCHANGED <<stored, storage, route, busy, owner, valid, cache, crossed>>

\* Mutant: the failure of a restore is not noticed.
restoreFailedSilently(c) ==
    /\ c.kind = "me"
    /\ auth' = auth
    /\ calls' = calls \ {c}
    /\ UNCHANGED <<stored, storage, route, busy, owner, valid, cache, crossed>>

restoreFailed(c) ==
    /\ c.kind = "me"
    /\ auth' = IF c.active THEN [auth EXCEPT !.status = "anonymous"] ELSE auth
    /\ calls' = calls \ {c}
    /\ UNCHANGED <<stored, storage, route, busy, owner, valid, cache, crossed>>

\* refreshProfile has no such guard.
refreshProfileDone(c) ==
    /\ c.kind = "refresh" /\ c.ok
    /\ auth' = [auth EXCEPT !.identity = owner[c.tok], !.status = "authenticated"]
    /\ crossed' = (crossed \/ c.tok # auth.token)
    /\ busy' = [busy EXCEPT !.refreshing = FALSE]
    /\ calls' = calls \ {c}
    /\ UNCHANGED <<stored, storage, route, owner, valid, cache>>

\* A query's answer goes under the key it was asked for, mounted or not.
dataReceived(c) ==
    /\ c.kind = "data" /\ c.ok
    /\ cache' = [cache EXCEPT ![c.user] = @ \cup {owner[c.tok]}]
    /\ calls' = calls \ {c}
    /\ UNCHANGED <<auth, stored, storage, route, busy, owner, valid, crossed>>

\* Mutant: every failure ends the session.
callFailedSignsOut(c) ==
    /\ c.kind \in {"refresh", "data"}
    /\ resetAuth(calls \ {c})
    /\ busy' = IF c.kind = "refresh" THEN [busy EXCEPT !.refreshing = FALSE] ELSE busy
    /\ UNCHANGED <<storage, route, owner, valid, cache, crossed>>

\* The call fails with something else than a 401.
callFailed(c) ==
    /\ c.kind \in {"refresh", "data"}
    /\ calls' = calls \ {c}
    /\ busy' = IF c.kind = "refresh" THEN [busy EXCEPT !.refreshing = FALSE] ELSE busy
    /\ UNCHANGED <<auth, stored, storage, route, owner, valid, cache, crossed>>

onUnauthorized(c) ==
    /\ unauthorized(c)
    /\ resetAuth(calls \ {c})
    /\ busy' = IF c.kind = "refresh" THEN [busy EXCEPT !.refreshing = FALSE] ELSE busy
    /\ UNCHANGED <<storage, route, owner, valid, cache, crossed>>

Landed(c) ==
    \/ loginDone(c) \/ loginFailed(c)
    \/ restoreDone(c) \/ restoreFailed(c)
    \/ refreshProfileDone(c) \/ dataReceived(c) \/ callFailed(c)
    \/ onUnauthorized(c)

\* The server stops accepting a token (its lifetime is over, the user is disabled).
TokenExpires(t) ==
    /\ t \in valid
    /\ valid' = valid \ {t}
    /\ UNCHANGED <<auth, stored, storage, route, busy, calls, owner, cache, crossed>>

Next ==
    \/ RedirectToLogin \/ LeaveLogin
    \/ \E u \in Users : onSubmit(u) \/ beginOidcLogin(u)
    \/ logout \/ refresh \/ OverviewQuery \/ Reload
    \/ \E c \in calls : Landed(c)
    \/ \E t \in Tokens : TokenExpires(t)

\* Every call is answered or fails in the end (the browser gives up on it),
\* and a redirect that is rendered is followed.
Fairness ==
    /\ \A k \in Kinds : WF_vars(\E c \in calls : c.kind = k /\ Landed(c))
    /\ WF_vars(RedirectToLogin) /\ WF_vars(LeaveLogin)

Spec == Init /\ [][Next]_vars /\ Fairness

-----------------------------------------------------------------------------
\* Every variable has its type, and a token in use was issued.
TypeOK ==
    /\ auth \in [token : 0..Len(owner), identity : Users \cup {NoUser}, status : Statuses]
    /\ stored \in 0..Len(owner) /\ storage \in BOOLEAN
    /\ route \in {"login", "page"}
    /\ busy \in [submitting : BOOLEAN, refreshing : BOOLEAN]
    /\ \A c \in calls : c.kind \in Kinds /\ c.tok \in 0..Len(owner)
    /\ owner \in Seq(Users) /\ Len(owner) <= MaxTokens
    /\ valid \subseteq 1..Len(owner)
    /\ cache \in [Users -> SUBSET Users]
    /\ crossed \in BOOLEAN

\* Whoever the portal shows as signed in is the owner of the token that its
\* calls carry, whatever answers of earlier sessions still arrive: the active
\* flag of the restore effect of AuthProvider.  The exception is a profile
\* refresh that outlives its session (crossed): refreshProfile has no such flag.
IdentityOwnsToken ==
    auth.status = "authenticated" /\ ~crossed =>
        auth.token # NoToken /\ auth.identity = owner[auth.token]

\* The cache, which is not cleared when a user signs out, holds under the keys
\* of a user only what the server answered to that user: the next user of the
\* browser is never shown the previous one's data.
CacheHoldsOwnData == ~crossed => \A u \in Users : cache[u] \subseteq {u}

\* What the portal shows belongs to the user who is signed in: the identity to
\* the token its calls carry, the cached data to that identity.
OwnSession == TypeOK /\ IdentityOwnsToken /\ CacheHoldsOwnData

\* Only a sign-out or a token the server refuses ends a session: no call that
\* fails for another reason does (apiRequest and onUnauthorized).  The refused
\* token need not be the session's own: a late 401 ends a newer session too.
EndsForCause ==
    [][auth.token # NoToken /\ auth'.token = NoToken =>
          \/ logout
          \/ \E c \in calls : unauthorized(c) /\ onUnauthorized(c)
          \/ readStoredToken = NoToken /\ Reload]_vars

\* "Restoring session" does not stay on the screen: every restore and every
\* login ends with a page or with the login form.
RestoringEnds == auth.status = "restoring" ~> auth.status # "restoring"

AtRest == IF route = "login" THEN ~loginRedirects ELSE ~guardRedirects

\* ProtectedRoute and LoginPage do not send the user back and forth: the
\* redirects come to rest, unless a profile refresh outlived its session.
RedirectsSettle == []<>(AtRest \/ crossed)

\* Signing in comes to an end: in a page or in the login form, which then stay.
SignInSettles == RestoringEnds /\ RedirectsSettle
=============================================================================

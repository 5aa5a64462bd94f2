------------------------------ MODULE OidcLogin ------------------------------
(***************************************************************************)
(* The OIDC login of the server (OIDCLogin and OIDCCallback of             *)
(* internal/iam/handler.go, OIDCStateStore of oidc.go, UpsertUser and      *)
(* EnsureAdminBinding of repository.go).  A callback may arrive late, be   *)
(* repeated by the browser, or find the server restarted.  A login state   *)
(* stands for its code verifier as well; each belongs to one user.         *)
(***************************************************************************)
EXTENDS Naturals, FiniteSets

CONSTANTS States,       \* bound on the logins begun
          Subjects,     \* the users of the identity provider
          Bootstrap,    \* OPS_OIDC_BOOTSTRAP_ADMIN_SUBS
          Callbacks     \* bound on the callbacks handled at once

VARIABLES store,    \* OIDCStateStore: who began the login, and whether it expired
          calls,    \* the callbacks under way
          db,       \* iam_user and iam_user_role_binding (bound: no role but admin is bound)
          tokens    \* history: the tokens a state has led to; logins that raced

vars == <<store, calls, db, tokens>>

None == "none"
Entry == [by : Subjects, expired : BOOLEAN]
Idle == [pc |-> "idle", state |-> None, by |-> None, alone |-> TRUE]

Init ==
    /\ store = [s \in {} |-> None]
    /\ calls = [c \in Callbacks |-> Idle]
    /\ db = [users |-> {}, admins |-> {}]
    /\ tokens = [begun |-> {}, issued |-> [s \in States |-> 0], unlisted |-> {}, raced |-> FALSE]

without(ss) == [s \in DOMAIN store \ ss |-> store[s]]
with(st, s, e) == [t \in DOMAIN st \cup {s} |-> IF t = s THEN e ELSE st[t]]

-----------------------------------------------------------------------------
\* GET /oidc/login: Save drops what has expired and keeps the new state.
OIDCLogin(s, u) ==
    /\ s \notin tokens.begun
    /\ store' = with(without({t \in DOMAIN store : store[t].expired}), s, [by |-> u, expired |-> FALSE])
    /\ tokens' = [tokens EXCEPT !.begun = @ \cup {s}]
    /\ UNCHANGED <<calls, db>>

\* Five minutes pass.
Expire(s) ==
    /\ s \in DOMAIN store /\ ~store[s].expired
    /\ store' = [store EXCEPT ![s].expired = TRUE]
    /\ UNCHANGED <<calls, db, tokens>>

\* Mutant: the state stays in the store.
takenNot(s) == store

taken(s) == without({s})

\* GET /oidc/callback, first or repeated: Consume removes the state.
Consume(c, s) ==
    /\ calls[c] = Idle /\ s \in DOMAIN store
    /\ store' = taken(s)
    /\ calls' = IF ~store[s].expired
                THEN [calls EXCEPT ![c] = [Idle EXCEPT !.pc = "exchange", !.state = s, !.by = store[s].by]]
                ELSE calls
    /\ UNCHANGED <<db, tokens>>

\* ExchangeCode and UserInfo (external) name the user; UpsertUser.
UpsertUser(c) ==
    /\ calls[c].pc = "exchange"
    /\ db' = [db EXCEPT !.users = @ \cup {calls[c].by}]
    /\ calls' = [calls EXCEPT ![c].pc = "binding"]
    /\ UNCHANGED <<store, tokens>>

\* Mutant: everybody who is not on the list is let through as well.
allowBootstrapAlways(u) == TRUE

allowBootstrap(u) == db.admins = {} \/ u \in Bootstrap

\* EnsureAdminBinding looks for a binding of any role ...
EnsureAdminBinding(c) ==
    /\ calls[c].pc = "binding"
    /\ calls' = [calls EXCEPT ![c].pc = IF allowBootstrap(calls[c].by) THEN "bind" ELSE "issue",
                              ![c].alone = db.admins = {}]
    /\ UNCHANGED <<store, db, tokens>>

\* ... and makes one in a statement of its own.
BindAdmin(c) ==
    LET u == calls[c].by IN
    /\ calls[c].pc = "bind"
    /\ db' = [db EXCEPT !.admins = @ \cup {u}]
    /\ tokens' = [tokens EXCEPT
                    !.unlisted = IF u \in db.admins \cup Bootstrap THEN @ ELSE @ \cup {u},
                    !.raced = @ \/ (calls[c].alone /\ db.admins # {})]
    /\ calls' = [calls EXCEPT ![c].pc = "issue"]
    /\ UNCHANGED store

\* An administrator takes the role from a user, himself perhaps.
UnbindRoleFromUser(u) ==
    /\ u \in db.admins
    /\ db' = [db EXCEPT !.admins = @ \ {u}]
    /\ tokens' = [tokens EXCEPT !.unlisted = @ \ {u}]
    /\ UNCHANGED <<store, calls>>

\* The identity is loaded and the token issued.
Issue(c) ==
    /\ calls[c].pc = "issue"
    /\ tokens' = [tokens EXCEPT !.issued[calls[c].state] = @ + 1]
    /\ calls' = [calls EXCEPT ![c] = Idle]
    /\ UNCHANGED <<store, db>>

\* The provider or the database answers with an error.
Fail(c) ==
    /\ calls[c] # Idle
    /\ calls' = [calls EXCEPT ![c] = Idle]
    /\ UNCHANGED <<store, db, tokens>>

Restart ==
    /\ DOMAIN store # {} \/ \E c \in Callbacks : calls[c] # Idle
    /\ store' = without(States)
    /\ calls' = [c \in Callbacks |-> Idle]
    /\ UNCHANGED <<db, tokens>>

Next ==
    \/ \E s \in States : Expire(s) \/ \E u \in Subjects : OIDCLogin(s, u)
    \/ \E c \in Callbacks : \/ \E s \in States : Consume(c, s)
                            \/ UpsertUser(c) \/ EnsureAdminBinding(c) \/ BindAdmin(c)
                            \/ Issue(c) \/ Fail(c)
    \/ \E u \in Subjects : UnbindRoleFromUser(u)
    \/ Restart

Spec == Init /\ [][Next]_vars
-----------------------------------------------------------------------------
TypeOK ==
    /\ DOMAIN store \subseteq States /\ \A s \in DOMAIN store : store[s] \in Entry
    /\ db.users \subseteq Subjects /\ db.admins \subseteq Subjects

\* One login leads to one token at most, however often the browser repeats its
\* callback, also while the first one is being answered or after it has failed.
OneTokenPerLogin ==
    /\ \A s \in States : tokens.issued[s] <= 1
    /\ \A c, d \in Callbacks : c # d /\ calls[c] # Idle => calls[c].state # calls[d].state

\* Of the users who are not on the bootstrap list at most one becomes an
\* administrator by signing in, the first one when nobody has a role, unless the
\* first logins overlapped: a binding is looked for and made in two statements.
OneFirstAdmin == tokens.raced \/ Cardinality(tokens.unlisted) <= 1
=============================================================================

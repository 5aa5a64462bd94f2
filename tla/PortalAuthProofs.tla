-------------------------- MODULE PortalAuthProofs --------------------------
(***************************************************************************)
(* The invariants of PortalAuth, for any set of users, any number of tokens *)
(* and of calls in flight.                                                  *)
(***************************************************************************)
EXTENDS PortalAuth, SequenceTheorems, TLAPS

(* A call that was made with a token, for somebody, whatever session it     *)
(* belongs to.                                                              *)
CallType == [kind: Kinds, tok: Nat, ok: BOOLEAN, user: Users \cup {NoUser},
             active: BOOLEAN]

(* What a call in flight carries: an issued token, the name to sign in      *)
(* with, or the key of the token's owner.                                   *)
CarriesOwn(c) ==
  /\ c \in CallType /\ c.tok <= Len(owner)
  /\ c.kind = "login" => c.user \in Users
  /\ c.kind # "login" => c.tok # NoToken
  /\ c.kind = "data" => c.user \in Users
  /\ c.kind = "data" /\ ~ crossed => c.user = owner[c.tok]

(* The active flag: a restore that still counts is for the present token.   *)
ActiveIsCurrent(c) == c.kind = "me" /\ c.active => c.tok = auth.token

CallsOK == \A c \in calls : CarriesOwn(c) /\ ActiveIsCurrent(c)

(* Whoever is shown as signed in is a user.                                 *)
SignedInIsUser == auth.status = "authenticated" => auth.identity \in Users

Inv == TypeOK /\ IdentityOwnsToken /\ CacheHoldsOwnData /\ SignedInIsUser /\ CallsOK

(* A browser that opens the portal satisfies the invariant.                 *)
LEMMA InitInv == Init => Inv
<1> SUFFICES ASSUME Init PROVE Inv
  OBVIOUS
<1>1. PICK u \in Users, t \in {NoToken} \cup (Tokens \cap {1}), alive \in BOOLEAN :
          /\ owner = IF t = NoToken THEN <<>> ELSE <<u>>
          /\ valid = IF alive /\ t # NoToken THEN {t} ELSE {}
          /\ stored = t
          /\ auth = [token |-> IF storage THEN t ELSE NoToken, identity |-> NoUser,
                     status |-> IF storage /\ t # NoToken THEN "restoring" ELSE "anonymous"]
          /\ calls = IF storage /\ t # NoToken
                     THEN {[kind |-> "me", tok |-> t, ok |-> alive, user |-> NoUser, active |-> TRUE]}
                     ELSE {}
  BY DEF Init
<1>2. /\ storage \in BOOLEAN /\ route \in {"login", "page"}
      /\ busy = [submitting |-> FALSE, refreshing |-> FALSE]
      /\ cache = [v \in Users |-> {}] /\ crossed = FALSE
  BY DEF Init
<1>3. /\ owner \in Seq(Users) /\ Len(owner) <= MaxTokens /\ t \in 0..Len(owner)
      /\ t # NoToken => Len(owner) = 1 /\ t = 1
  BY <1>1, PortalAuthAssumption DEF NoToken, Tokens
<1>4. /\ auth \in [token : 0..Len(owner), identity : Users \cup {NoUser}, status : Statuses]
      /\ auth.status # "authenticated"
  BY <1>1, <1>2, <1>3 DEF Statuses, NoToken
<1>5. ASSUME NEW c \in calls
      PROVE  /\ CarriesOwn(c) /\ ActiveIsCurrent(c)
             /\ c.kind \in Kinds /\ c.tok \in 0..Len(owner)
  <2>1. storage /\ t # NoToken
        /\ c = [kind |-> "me", tok |-> t, ok |-> alive, user |-> NoUser, active |-> TRUE]
    BY <1>1, <1>5
  <2>2. c \in CallType /\ c.kind = "me" /\ c.tok = t /\ c.kind \in Kinds
    BY <1>3, <2>1 DEF CallType, Kinds
  <2>3. auth.token = t
    BY <1>1, <2>1
  <2>4. QED
    BY <1>3, <2>1, <2>2, <2>3 DEF CarriesOwn, ActiveIsCurrent
<1>6. valid \subseteq 1..Len(owner)
  BY <1>1, <1>3
<1>7. TypeOK
  BY <1>1, <1>2, <1>3, <1>4, <1>5, <1>6 DEF TypeOK
<1>8. IdentityOwnsToken /\ SignedInIsUser /\ CacheHoldsOwnData
  BY <1>2, <1>4 DEF IdentityOwnsToken, SignedInIsUser, CacheHoldsOwnData
<1>9. QED
  BY <1>5, <1>7, <1>8 DEF Inv, CallsOK

-----------------------------------------------------------------------------
(* Lemmas about calls.                                                      *)

(* What a call is made with.                                                *)
LEMMA CallFields ==
  ASSUME NEW kind \in Kinds, NEW tok \in Nat, NEW user \in Users \cup {NoUser}
  PROVE  /\ Call(kind, tok, user) \in CallType
         /\ Call(kind, tok, user).kind = kind
         /\ Call(kind, tok, user).tok = tok
         /\ Call(kind, tok, user).user = user
BY DEF Call, CallType

(* Calls are answered, and perhaps another is made.                         *)
LEMMA CallsStep ==
  ASSUME Inv, UNCHANGED owner, crossed => crossed', auth'.token = auth.token,
         NEW c \in CallType, calls' \subseteq calls \cup {c},
         c \notin calls => CarriesOwn(c) /\ ActiveIsCurrent(c)
  PROVE  /\ CallsOK'
         /\ \A d \in calls' : d.kind \in Kinds /\ d.tok \in 0..Len(owner)
<1>1. \A d \in calls' : CarriesOwn(d) /\ ActiveIsCurrent(d)
  BY DEF Inv, CallsOK
<1>2. Len(owner) \in Nat
  BY DEF Inv, TypeOK
<1>3. ASSUME NEW d \in calls'
      PROVE  CarriesOwn(d)' /\ ActiveIsCurrent(d)' /\ d.kind \in Kinds /\ d.tok \in 0..Len(owner)
  BY <1>1, <1>2 DEF CarriesOwn, ActiveIsCurrent, CallType
<1>4. QED
  BY <1>3 DEF CallsOK

(* Calls are answered, and none is made.                                    *)
LEMMA CallsAnswered ==
  ASSUME Inv, UNCHANGED owner, crossed => crossed', auth'.token = auth.token,
         calls' \subseteq calls
  PROVE  /\ CallsOK'
         /\ \A d \in calls' : d.kind \in Kinds /\ d.tok \in 0..Len(owner)
<1>1. \A d \in calls' : CarriesOwn(d) /\ ActiveIsCurrent(d)
  BY DEF Inv, CallsOK
<1>2. Len(owner) \in Nat
  BY DEF Inv, TypeOK
<1>3. ASSUME NEW d \in calls'
      PROVE  CarriesOwn(d)' /\ ActiveIsCurrent(d)' /\ d.kind \in Kinds /\ d.tok \in 0..Len(owner)
  BY <1>1, <1>2 DEF CarriesOwn, ActiveIsCurrent, CallType
<1>4. QED
  BY <1>3 DEF CallsOK

(* The cleanup of the restore effect: what a call carries stays, and no     *)
(* earlier restore counts.                                                  *)
LEMMA DeactivatedCalls ==
  ASSUME NEW cs, \A c \in cs : CarriesOwn(c)
  PROVE  \A c \in Deactivated(cs) : CarriesOwn(c) /\ ~ (c.kind = "me" /\ c.active)
<1> SUFFICES ASSUME NEW c \in cs
             PROVE  LET d == IF c.kind = "me" THEN [c EXCEPT !.active = FALSE] ELSE c
                    IN  CarriesOwn(d) /\ ~ (d.kind = "me" /\ d.active)
  BY DEF Deactivated
<1>1. CASE c.kind # "me"
  BY <1>1
<1>2. CASE c.kind = "me"
  <2> DEFINE d == [c EXCEPT !.active = FALSE]
  <2>1. c \in CallType
    BY DEF CarriesOwn
  <2>2. /\ d \in CallType /\ d.kind = c.kind /\ d.tok = c.tok
        /\ d.user = c.user /\ d.active = FALSE
    BY <2>1 DEF CallType
  <2> HIDE DEF d
  <2>3. CarriesOwn(d) /\ ~ d.active
    BY <1>2, <2>2 DEF CarriesOwn
  <2>4. QED
    BY <1>2, <2>3 DEF d
<1>3. QED
  BY <1>1, <1>2

(* Tokens are issued, never reassigned.                                     *)
Issues == /\ owner' \in Seq(Users) /\ Len(owner) <= Len(owner')
          /\ \A i \in 1..Len(owner) : owner'[i] = owner[i]

(* A commit with another token: one restore counts, the new token's.        *)
LEMMA SetTokenStep ==
  ASSUME Inv, Issues, NEW t \in 0..Len(owner'), NEW id \in Users \cup {NoUser},
         NEW rest, rest \subseteq calls, SetToken(t, id, rest),
         ~ crossed' => rest = {} \/ ~ crossed
  PROVE  /\ CallsOK' /\ IdentityOwnsToken' /\ SignedInIsUser'
         /\ \A d \in calls' : d.kind \in Kinds /\ d.tok \in 0..Len(owner')
         /\ auth' \in [token : 0..Len(owner'), identity : Users \cup {NoUser}, status : Statuses]
         /\ auth'.token = t
<1> DEFINE me == [kind |-> "me", tok |-> t, ok |-> t \in valid', user |-> NoUser, active |-> TRUE]
<1>1. /\ auth'.status # "authenticated" /\ auth'.token = t
      /\ auth' \in [token : 0..Len(owner'), identity : Users \cup {NoUser}, status : Statuses]
  <2>1. CASE t = NoToken
    BY <2>1 DEF SetToken, Statuses, NoToken, Issues
  <2>2. CASE t # NoToken
    BY <2>2 DEF SetToken, Statuses, NoToken, Issues
  <2>3. QED
    BY <2>1, <2>2
<1>2. calls' \subseteq Deactivated(rest) \cup (IF t = NoToken THEN {} ELSE {me})
  BY DEF SetToken
<1>3. Len(owner) \in Nat /\ Len(owner') \in Nat
  BY DEF Inv, TypeOK, Issues
<1>4. ASSUME NEW d \in Deactivated(rest)
      PROVE  CarriesOwn(d)' /\ ActiveIsCurrent(d)'
  <2>1. CarriesOwn(d) /\ ~ (d.kind = "me" /\ d.active)
    BY <1>4, DeactivatedCalls DEF Inv, CallsOK
  <2>2. rest # {}
    BY <1>4 DEF Deactivated
  <2>3. ~ crossed' => ~ crossed
    BY <2>2
  <2>4. d.kind = "data" => owner'[d.tok] = owner[d.tok]
    BY <1>3, <2>1 DEF CarriesOwn, CallType, NoToken, Issues
  <2>5. d.tok <= Len(owner')
    BY <1>3, <2>1 DEF CarriesOwn, CallType, Issues
  <2>6. QED
    BY <2>1, <2>3, <2>4, <2>5 DEF CarriesOwn, ActiveIsCurrent
<1>5. ASSUME NEW m, m = me, t # NoToken
      PROVE  CarriesOwn(m)' /\ ActiveIsCurrent(m)'
  <2>1. m \in CallType /\ m.kind = "me" /\ m.tok = t
    BY <1>3, <1>5 DEF CallType, Kinds
  <2>2. QED
    BY <1>1, <1>5, <2>1 DEF CarriesOwn, ActiveIsCurrent
<1>6. ASSUME NEW d \in calls'
      PROVE  CarriesOwn(d)' /\ ActiveIsCurrent(d)' /\ d.kind \in Kinds /\ d.tok \in 0..Len(owner')
  <2>1. CarriesOwn(d)' /\ ActiveIsCurrent(d)'
    BY <1>2, <1>4, <1>5
  <2>2. QED
    BY <1>3, <2>1 DEF CarriesOwn, CallType
<1>7. QED
  BY <1>1, <1>6 DEF CallsOK, IdentityOwnsToken, SignedInIsUser

-----------------------------------------------------------------------------
(* The actions.                                                             *)

(* A redirect.                                                              *)
LEMMA RedirectInv ==
  ASSUME Inv, RedirectToLogin \/ LeaveLogin
  PROVE  Inv'
<1>1. /\ UNCHANGED <<auth, stored, storage, calls, owner, valid, cache, crossed>>
      /\ route' \in {"login", "page"}
      /\ busy' = [submitting |-> FALSE, refreshing |-> FALSE]
  BY DEF RedirectToLogin, LeaveLogin
<1>2. CallsOK'
  BY <1>1, CallsAnswered
<1>3. TypeOK'
  BY <1>1 DEF Inv, TypeOK
<1>4. IdentityOwnsToken' /\ CacheHoldsOwnData' /\ SignedInIsUser'
  BY <1>1 DEF Inv, IdentityOwnsToken, CacheHoldsOwnData, SignedInIsUser
<1>5. QED
  BY <1>2, <1>3, <1>4 DEF Inv

(* A sign-in starts.                                                        *)
LEMMA onSubmitInv ==
  ASSUME Inv, NEW u \in Users, onSubmit(u)
  PROVE  Inv'
<1> DEFINE c == Call("login", NoToken, u)
<1>1. /\ UNCHANGED <<stored, storage, route, owner, valid, cache, crossed>>
      /\ auth' = [auth EXCEPT !.status = "restoring"]
      /\ calls' = calls \cup {c}
      /\ busy' = [busy EXCEPT !.submitting = TRUE]
  BY DEF onSubmit
<1>2. /\ c \in CallType /\ c.kind = "login" /\ c.tok = 0 /\ c.user = u
  BY CallFields DEF Kinds, NoToken
<1>3. Len(owner) \in Nat
  BY DEF Inv, TypeOK
<1>4. /\ auth' \in [token : 0..Len(owner), identity : Users \cup {NoUser}, status : Statuses]
      /\ auth'.token = auth.token /\ auth'.status = "restoring"
  BY <1>1 DEF Inv, TypeOK, Statuses
<1> HIDE DEF c
<1>5. CarriesOwn(c) /\ ActiveIsCurrent(c)
  BY <1>2, <1>3 DEF CarriesOwn, ActiveIsCurrent
<1>6. CallsOK' /\ \A d \in calls' : d.kind \in Kinds /\ d.tok \in 0..Len(owner)
  BY <1>1, <1>2, <1>4, <1>5, CallsStep
<1>7. TypeOK'
  BY <1>1, <1>4, <1>6 DEF Inv, TypeOK
<1>8. IdentityOwnsToken' /\ CacheHoldsOwnData' /\ SignedInIsUser'
  BY <1>1, <1>4 DEF Inv, IdentityOwnsToken, CacheHoldsOwnData, SignedInIsUser
<1>9. QED
  BY <1>6, <1>7, <1>8 DEF Inv

(* A token is issued.                                                       *)
LEMMA IssueStep ==
  ASSUME Inv, NEW u \in Users, owner' = Append(owner, u), Len(owner) < MaxTokens,
         valid' = valid \cup {Len(owner')}
  PROVE  /\ Issues /\ Len(owner') <= MaxTokens
         /\ Len(owner') \in 1..Len(owner') /\ 0..Len(owner) \subseteq 0..Len(owner')
         /\ valid' \subseteq 1..Len(owner')
<1>1. owner \in Seq(Users) /\ Len(owner) \in Nat /\ valid \subseteq 1..Len(owner)
  BY DEF Inv, TypeOK
<1>2. Issues /\ Len(owner') = Len(owner) + 1
  <2>1. /\ Append(owner, u) \in Seq(Users)
        /\ Len(Append(owner, u)) = Len(owner) + 1
        /\ \A i \in 1..Len(owner) : Append(owner, u)[i] = owner[i]
    BY <1>1, AppendProperties
  <2>2. QED
    BY <1>1, <2>1 DEF Issues
<1>3. ASSUME NEW n \in Nat, n < MaxTokens
      PROVE  n + 1 <= MaxTokens /\ n + 1 \in 1..(n + 1) /\ 0..n \subseteq 0..(n + 1)
             /\ 1..n \subseteq 1..(n + 1)
  BY <1>3, PortalAuthAssumption
<1>4. QED
  BY <1>1, <1>2, <1>3

(* The round trip of an OIDC login starts a new page: nothing of the old    *)
(* one, not even its calls, is left.                                        *)
LEMMA beginOidcLoginInv ==
  ASSUME Inv, NEW u \in Users, beginOidcLogin(u)
  PROVE  Inv'
<1>1. /\ owner' = Append(owner, u) /\ Len(owner) < MaxTokens
      /\ valid' = valid \cup {Len(owner')} /\ stored' = Len(owner')
      /\ SetToken(Len(owner'), NoUser, {}) /\ route' = "page"
      /\ busy' = [submitting |-> FALSE, refreshing |-> FALSE]
      /\ cache' = [v \in Users |-> {}] /\ crossed' = FALSE /\ UNCHANGED storage
  BY DEF beginOidcLogin
<1>2. /\ Issues /\ Len(owner') <= MaxTokens
      /\ Len(owner') \in 0..Len(owner') /\ Len(owner') # NoToken
      /\ valid' \subseteq 1..Len(owner')
  BY <1>1, IssueStep DEF NoToken
<1>3. /\ CallsOK' /\ IdentityOwnsToken' /\ SignedInIsUser'
      /\ \A d \in calls' : d.kind \in Kinds /\ d.tok \in 0..Len(owner')
      /\ auth' \in [token : 0..Len(owner'), identity : Users \cup {NoUser}, status : Statuses]
  <2>1. PICK t : t = Len(owner')
    OBVIOUS
  <2>2. SetToken(t, NoUser, {}) /\ t \in 0..Len(owner') /\ {} \subseteq calls
    BY <1>1, <1>2, <2>1
  <2>3. QED
    BY <1>2, <2>2, SetTokenStep
<1>4. TypeOK'
  BY <1>1, <1>2, <1>3 DEF Inv, TypeOK, Issues
<1>5. CacheHoldsOwnData'
  BY <1>1 DEF CacheHoldsOwnData
<1>6. QED
  BY <1>3, <1>4, <1>5 DEF Inv

(* The session is over: sign-out, or a 401.                                 *)
LEMMA ResetStep ==
  ASSUME Inv, NEW rest, rest \subseteq calls, resetAuth(rest),
         busy' \in [submitting : BOOLEAN, refreshing : BOOLEAN],
         UNCHANGED <<storage, route, owner, valid, cache, crossed>>
  PROVE  Inv'
<1>1. Issues /\ Len(owner') \in Nat
  BY DEF Inv, TypeOK, Issues
<1>2. /\ CallsOK' /\ IdentityOwnsToken' /\ SignedInIsUser'
      /\ \A d \in calls' : d.kind \in Kinds /\ d.tok \in 0..Len(owner')
      /\ auth' \in [token : 0..Len(owner'), identity : Users \cup {NoUser}, status : Statuses]
  <2>1. SetToken(NoToken, NoUser, rest) /\ NoToken \in 0..Len(owner')
    BY <1>1 DEF resetAuth, NoToken
  <2>2. QED
    BY <1>1, <2>1, SetTokenStep
<1>3. stored' \in 0..Len(owner)
  BY <1>1 DEF resetAuth, persistToken, NoToken, Inv, TypeOK
<1>4. TypeOK'
  BY <1>2, <1>3 DEF Inv, TypeOK
<1>5. CacheHoldsOwnData'
  BY DEF Inv, CacheHoldsOwnData
<1>6. QED
  BY <1>2, <1>4, <1>5 DEF Inv

(* The sign-out button.                                                     *)
LEMMA logoutInv ==
  ASSUME Inv, logout
  PROVE  Inv'
BY ResetStep DEF logout, Inv, TypeOK

(* Another call of the page that is shown: its token is the session's.      *)
LEMMA PageCallStep ==
  ASSUME Inv, PageShown, NEW c \in CallType, c.kind \in {"refresh", "data"},
         c.tok = auth.token, c.kind = "data" => c.user = auth.identity,
         calls' = calls \cup {c}, busy' \in [submitting : BOOLEAN, refreshing : BOOLEAN],
         UNCHANGED <<auth, stored, storage, route, owner, valid, cache, crossed>>
  PROVE  Inv'
<1>1. /\ auth.token \in 0..Len(owner) /\ auth.token # NoToken
      /\ auth.status = "authenticated" /\ Len(owner) \in Nat
  BY DEF PageShown, Inv, TypeOK
<1>2. /\ auth.identity \in Users
      /\ ~ crossed => auth.identity = owner[auth.token]
  BY <1>1 DEF Inv, SignedInIsUser, IdentityOwnsToken
<1>3. CarriesOwn(c) /\ ActiveIsCurrent(c)
  BY <1>1, <1>2 DEF CarriesOwn, ActiveIsCurrent
<1>4. CallsOK' /\ \A d \in calls' : d.kind \in Kinds /\ d.tok \in 0..Len(owner)
  BY <1>3, CallsStep
<1>5. TypeOK'
  BY <1>4 DEF Inv, TypeOK
<1>6. IdentityOwnsToken' /\ CacheHoldsOwnData' /\ SignedInIsUser'
  BY DEF Inv, IdentityOwnsToken, CacheHoldsOwnData, SignedInIsUser
<1>7. QED
  BY <1>4, <1>5, <1>6 DEF Inv

(* The refresh of the profile page.                                         *)
LEMMA refreshInv ==
  ASSUME Inv, refresh
  PROVE  Inv'
<1> DEFINE c == Call("refresh", auth.token, NoUser)
<1>1. c \in CallType /\ c.kind = "refresh" /\ c.tok = auth.token
  BY CallFields DEF Kinds, Inv, TypeOK
<1>2. busy' \in [submitting : BOOLEAN, refreshing : BOOLEAN]
  BY DEF refresh, Inv, TypeOK
<1>3. /\ PageShown /\ calls' = calls \cup {c}
      /\ UNCHANGED <<auth, stored, storage, route, owner, valid, cache, crossed>>
  BY DEF refresh
<1> HIDE DEF c
<1>4. QED
  BY <1>1, <1>2, <1>3, PageCallStep

(* A query of the page.                                                     *)
LEMMA OverviewQueryInv ==
  ASSUME Inv, OverviewQuery
  PROVE  Inv'
<1> DEFINE c == Call("data", auth.token, auth.identity)
<1>1. c \in CallType /\ c.kind = "data" /\ c.tok = auth.token /\ c.user = auth.identity
  BY CallFields DEF Kinds, Inv, TypeOK
<1>2. /\ PageShown /\ calls' = calls \cup {c}
      /\ UNCHANGED <<auth, stored, storage, route, busy, owner, valid, cache, crossed>>
  BY DEF OverviewQuery
<1>3. busy' \in [submitting : BOOLEAN, refreshing : BOOLEAN]
  BY <1>2 DEF Inv, TypeOK
<1> HIDE DEF c
<1>4. QED
  BY <1>1, <1>2, <1>3, PageCallStep

(* The tab is reloaded.                                                     *)
LEMMA ReloadInv ==
  ASSUME Inv, Reload
  PROVE  Inv'
<1> DEFINE t == readStoredToken
           c == Call("me", t, NoUser)
<1>1. t \in 0..Len(owner) /\ Len(owner) \in Nat
  BY DEF readStoredToken, NoToken, Inv, TypeOK
<1>2. /\ auth' = [token |-> t, identity |-> NoUser,
                  status |-> IF t = NoToken THEN "anonymous" ELSE "restoring"]
      /\ calls' = IF t = NoToken THEN {} ELSE {c}
      /\ busy' = [submitting |-> FALSE, refreshing |-> FALSE]
      /\ cache' = [u \in Users |-> {}] /\ crossed' = FALSE
      /\ UNCHANGED <<stored, storage, route, owner, valid>>
  BY DEF Reload
<1>3. c \in CallType /\ c.kind = "me" /\ c.tok = t
  BY <1>1, CallFields DEF Kinds
<1> HIDE DEF c, t
<1>4. /\ auth' \in [token : 0..Len(owner), identity : Users \cup {NoUser}, status : Statuses]
      /\ auth'.token = t /\ auth'.status # "authenticated"
  BY <1>1, <1>2 DEF Statuses
<1>5. ASSUME NEW d \in calls'
      PROVE  CarriesOwn(d)' /\ ActiveIsCurrent(d)' /\ d.kind \in Kinds /\ d.tok \in 0..Len(owner)
  <2>1. t # NoToken /\ d = c
    BY <1>2, <1>5
  <2>2. d \in CallType /\ d.kind = "me" /\ d.tok = t
    BY <1>3, <2>1
  <2>3. QED
    BY <1>1, <1>2, <1>4, <2>1, <2>2 DEF CarriesOwn, ActiveIsCurrent, CallType
<1>6. TypeOK'
  BY <1>2, <1>4, <1>5 DEF Inv, TypeOK
<1>7. IdentityOwnsToken' /\ CacheHoldsOwnData' /\ SignedInIsUser' /\ CallsOK'
  BY <1>2, <1>4, <1>5 DEF IdentityOwnsToken, CacheHoldsOwnData, SignedInIsUser, CallsOK
<1>8. QED
  BY <1>6, <1>7 DEF Inv

(* A sign-in succeeds: the token is new.                                    *)
LEMMA loginDoneInv ==
  ASSUME Inv, NEW c \in calls, loginDone(c)
  PROVE  Inv'
<1>1. /\ c.kind = "login" /\ owner' = Append(owner, c.user) /\ Len(owner) < MaxTokens
      /\ valid' = valid \cup {Len(owner')} /\ persistToken(Len(owner'))
      /\ SetToken(Len(owner'), c.user, calls \ {c}) /\ route' = "page"
      /\ busy' = [busy EXCEPT !.submitting = FALSE]
      /\ UNCHANGED <<storage, cache, crossed>>
  BY DEF loginDone
<1>2. c.user \in Users
  BY <1>1 DEF Inv, CallsOK, CarriesOwn
<1>3. /\ Issues /\ Len(owner') <= MaxTokens
      /\ Len(owner') \in 0..Len(owner') /\ 0..Len(owner) \subseteq 0..Len(owner')
      /\ valid' \subseteq 1..Len(owner')
  BY <1>1, <1>2, IssueStep
<1>4. /\ CallsOK' /\ IdentityOwnsToken' /\ SignedInIsUser'
      /\ \A d \in calls' : d.kind \in Kinds /\ d.tok \in 0..Len(owner')
      /\ auth' \in [token : 0..Len(owner'), identity : Users \cup {NoUser}, status : Statuses]
  <2>1. PICK t : t = Len(owner')
    OBVIOUS
  <2>2. /\ SetToken(t, c.user, calls \ {c}) /\ t \in 0..Len(owner')
        /\ calls \ {c} \subseteq calls
    BY <1>1, <1>3, <2>1
  <2>3. QED
    BY <1>1, <1>2, <1>3, <2>2, SetTokenStep
<1>5. stored' \in 0..Len(owner')
  BY <1>1, <1>3 DEF persistToken, Inv, TypeOK
<1>6. busy' \in [submitting : BOOLEAN, refreshing : BOOLEAN]
  BY <1>1 DEF Inv, TypeOK
<1>7. TypeOK'
  BY <1>1, <1>3, <1>4, <1>5, <1>6 DEF Inv, TypeOK, Issues
<1>8. CacheHoldsOwnData'
  BY <1>1 DEF Inv, CacheHoldsOwnData
<1>9. QED
  BY <1>4, <1>7, <1>8 DEF Inv

(* A sign-in or a restore fails.                                            *)
LEMMA SignInFailedInv ==
  ASSUME Inv, NEW c \in calls, loginFailed(c) \/ restoreFailed(c)
  PROVE  Inv'
<1>1. /\ auth' \in {auth, [auth EXCEPT !.status = "anonymous"]}
      /\ calls' = calls \ {c}
      /\ UNCHANGED <<stored, storage, route, owner, valid, cache, crossed>>
  BY DEF loginFailed, restoreFailed
<1>2. busy' \in [submitting : BOOLEAN, refreshing : BOOLEAN]
  BY DEF loginFailed, restoreFailed, Inv, TypeOK
<1>3. /\ auth' \in [token : 0..Len(owner), identity : Users \cup {NoUser}, status : Statuses]
      /\ auth'.token = auth.token /\ auth'.identity = auth.identity
      /\ auth'.status = "authenticated" => auth.status = "authenticated"
  BY <1>1 DEF Inv, TypeOK, Statuses
<1>4. CallsOK' /\ \A d \in calls' : d.kind \in Kinds /\ d.tok \in 0..Len(owner)
  BY <1>1, <1>3, CallsAnswered
<1>5. TypeOK'
  BY <1>1, <1>2, <1>3, <1>4 DEF Inv, TypeOK
<1>6. IdentityOwnsToken' /\ CacheHoldsOwnData' /\ SignedInIsUser'
  BY <1>1, <1>3 DEF Inv, IdentityOwnsToken, CacheHoldsOwnData, SignedInIsUser
<1>7. QED
  BY <1>4, <1>5, <1>6 DEF Inv

(* The owner of an issued token is a user.                                  *)
LEMMA OwnerType ==
  ASSUME Inv, NEW c \in calls, c.kind # "login"
  PROVE  owner[c.tok] \in Users /\ c.tok # NoToken
<1>1. c.tok \in 1..Len(owner) /\ owner \in Seq(Users) /\ c.tok # NoToken
  BY DEF Inv, TypeOK, CallsOK, CarriesOwn, CallType, NoToken
<1>2. QED
  BY <1>1, ElementOfSeq

(* A restore counts only for the token that is still there.                 *)
LEMMA restoreDoneInv ==
  ASSUME Inv, NEW c \in calls, restoreDone(c)
  PROVE  Inv'
<1> DEFINE o == owner[c.tok]
<1>1. /\ c.kind = "me" /\ calls' = calls \ {c}
      /\ auth' = IF c.active THEN [auth EXCEPT !.identity = o, !.status = "authenticated"]
                             ELSE auth
      /\ UNCHANGED <<stored, storage, route, busy, owner, valid, cache, crossed>>
  BY DEF restoreDone
<1>2. o \in Users /\ c.tok # NoToken /\ (c.active => c.tok = auth.token)
  BY <1>1, OwnerType DEF Inv, CallsOK, ActiveIsCurrent
<1>3. /\ auth' \in [token : 0..Len(owner), identity : Users \cup {NoUser}, status : Statuses]
      /\ auth'.token = auth.token
      /\ c.active => auth'.identity = o
      /\ ~ c.active => auth' = auth
  BY <1>1, <1>2 DEF Inv, TypeOK, Statuses
<1>4. CallsOK' /\ \A d \in calls' : d.kind \in Kinds /\ d.tok \in 0..Len(owner)
  BY <1>1, <1>3, CallsAnswered
<1>5. TypeOK'
  BY <1>1, <1>3, <1>4 DEF Inv, TypeOK
<1>6. IdentityOwnsToken' /\ CacheHoldsOwnData' /\ SignedInIsUser'
  BY <1>1, <1>2, <1>3 DEF Inv, IdentityOwnsToken, CacheHoldsOwnData, SignedInIsUser
<1>7. QED
  BY <1>4, <1>5, <1>6 DEF Inv

(* A profile refresh that outlived its token is recorded as crossed.        *)
LEMMA refreshProfileDoneInv ==
  ASSUME Inv, NEW c \in calls, refreshProfileDone(c)
  PROVE  Inv'
<1> DEFINE o == owner[c.tok]
<1>1. /\ c.kind = "refresh" /\ calls' = calls \ {c}
      /\ auth' = [auth EXCEPT !.identity = o, !.status = "authenticated"]
      /\ crossed' = (crossed \/ c.tok # auth.token)
      /\ busy' = [busy EXCEPT !.refreshing = FALSE]
      /\ UNCHANGED <<stored, storage, route, owner, valid, cache>>
  BY DEF refreshProfileDone
<1>2. o \in Users /\ c.tok # NoToken
  BY <1>1, OwnerType
<1>3. /\ auth' \in [token : 0..Len(owner), identity : Users \cup {NoUser}, status : Statuses]
      /\ auth'.token = auth.token /\ auth'.identity = o
  BY <1>1, <1>2 DEF Inv, TypeOK, Statuses
<1>4. crossed => crossed'
  BY <1>1
<1>5. CallsOK' /\ \A d \in calls' : d.kind \in Kinds /\ d.tok \in 0..Len(owner)
  BY <1>1, <1>3, <1>4, CallsAnswered
<1>6. crossed' \in BOOLEAN /\ busy' \in [submitting : BOOLEAN, refreshing : BOOLEAN]
  BY <1>1 DEF Inv, TypeOK
<1>7. TypeOK'
  BY <1>1, <1>3, <1>5, <1>6 DEF Inv, TypeOK
<1>8. ~ crossed' => c.tok = auth.token
  BY <1>1
<1>9. IdentityOwnsToken' /\ SignedInIsUser'
  BY <1>1, <1>2, <1>3, <1>8 DEF IdentityOwnsToken, SignedInIsUser
<1>10. CacheHoldsOwnData'
  BY <1>1, <1>4 DEF Inv, CacheHoldsOwnData
<1>11. QED
  BY <1>5, <1>7, <1>9, <1>10 DEF Inv

(* A query's answer: data of the token's owner, under his key.              *)
LEMMA dataReceivedInv ==
  ASSUME Inv, NEW c \in calls, dataReceived(c)
  PROVE  Inv'
<1> DEFINE o == owner[c.tok]
<1>1. /\ c.kind = "data" /\ calls' = calls \ {c}
      /\ cache' = [cache EXCEPT ![c.user] = @ \cup {o}]
      /\ UNCHANGED <<auth, stored, storage, route, busy, owner, valid, crossed>>
  BY DEF dataReceived
<1>2. o \in Users /\ c.user \in Users /\ (~ crossed => c.user = o)
  BY <1>1, OwnerType DEF Inv, CallsOK, CarriesOwn
<1>3. CallsOK' /\ \A d \in calls' : d.kind \in Kinds /\ d.tok \in 0..Len(owner)
  BY <1>1, CallsAnswered
<1>4. cache \in [Users -> SUBSET Users]
  BY DEF Inv, TypeOK
<1> HIDE DEF o
<1>5. /\ cache' \in [Users -> SUBSET Users]
      /\ \A u \in Users : cache'[u] = IF u = c.user THEN cache[u] \cup {o} ELSE cache[u]
  BY <1>1, <1>2, <1>4
<1>6. TypeOK'
  BY <1>1, <1>3, <1>5 DEF Inv, TypeOK
<1>7. CacheHoldsOwnData'
  BY <1>1, <1>2, <1>5 DEF Inv, CacheHoldsOwnData
<1>8. IdentityOwnsToken' /\ SignedInIsUser'
  BY <1>1 DEF Inv, IdentityOwnsToken, SignedInIsUser
<1>9. QED
  BY <1>3, <1>6, <1>7, <1>8 DEF Inv

(* A call fails with something else than a 401.                             *)
LEMMA callFailedInv ==
  ASSUME Inv, NEW c \in calls, callFailed(c)
  PROVE  Inv'
<1>1. /\ calls' = calls \ {c}
      /\ UNCHANGED <<auth, stored, storage, route, owner, valid, cache, crossed>>
  BY DEF callFailed
<1>2. busy' \in [submitting : BOOLEAN, refreshing : BOOLEAN]
  BY DEF callFailed, Inv, TypeOK
<1>3. CallsOK' /\ \A d \in calls' : d.kind \in Kinds /\ d.tok \in 0..Len(owner)
  BY <1>1, CallsAnswered
<1>4. TypeOK'
  BY <1>1, <1>2, <1>3 DEF Inv, TypeOK
<1>5. IdentityOwnsToken' /\ CacheHoldsOwnData' /\ SignedInIsUser'
  BY <1>1 DEF Inv, IdentityOwnsToken, CacheHoldsOwnData, SignedInIsUser
<1>6. QED
  BY <1>3, <1>4, <1>5 DEF Inv

(* A 401, whichever token it is about.                                      *)
LEMMA onUnauthorizedInv ==
  ASSUME Inv, NEW c \in calls, onUnauthorized(c)
  PROVE  Inv'
<1>1. busy' \in [submitting : BOOLEAN, refreshing : BOOLEAN]
  BY DEF onUnauthorized, Inv, TypeOK
<1>2. resetAuth(calls \ {c}) /\ UNCHANGED <<storage, route, owner, valid, cache, crossed>>
  BY DEF onUnauthorized
<1>3. calls \ {c} \subseteq calls
  OBVIOUS
<1>4. QED
  BY <1>1, <1>2, <1>3, ResetStep

(* The server stops accepting a token.                                      *)
LEMMA TokenExpiresInv ==
  ASSUME Inv, NEW t \in Tokens, TokenExpires(t)
  PROVE  Inv'
<1>1. /\ valid' = valid \ {t}
      /\ UNCHANGED <<auth, stored, storage, route, busy, calls, owner, cache, crossed>>
  BY DEF TokenExpires
<1>2. CallsOK'
  BY <1>1, CallsAnswered
<1>3. TypeOK'
  BY <1>1 DEF Inv, TypeOK
<1>4. IdentityOwnsToken' /\ CacheHoldsOwnData' /\ SignedInIsUser'
  BY <1>1 DEF Inv, IdentityOwnsToken, CacheHoldsOwnData, SignedInIsUser
<1>5. QED
  BY <1>2, <1>3, <1>4 DEF Inv

-----------------------------------------------------------------------------
(* Every step keeps the invariant.                                          *)
LEMMA NextInv == Inv /\ [Next]_vars => Inv'
<1> SUFFICES ASSUME Inv, [Next]_vars PROVE Inv'
  OBVIOUS
<1>1. ASSUME NEW c \in calls, Landed(c) PROVE Inv'
  BY <1>1, loginDoneInv, SignInFailedInv, restoreDoneInv, refreshProfileDoneInv,
     dataReceivedInv, callFailedInv, onUnauthorizedInv DEF Landed
<1>2. CASE UNCHANGED vars
  <2>1. CallsOK'
    BY <1>2, CallsAnswered DEF vars
  <2>2. TypeOK' /\ IdentityOwnsToken' /\ CacheHoldsOwnData' /\ SignedInIsUser'
    BY <1>2 DEF vars, Inv, TypeOK, IdentityOwnsToken, CacheHoldsOwnData, SignedInIsUser
  <2>3. QED
    BY <2>1, <2>2 DEF Inv
<1>3. QED
  BY <1>1, <1>2, RedirectInv, onSubmitInv, beginOidcLoginInv, logoutInv, refreshInv,
     OverviewQueryInv, ReloadInv, TokenExpiresInv DEF Next

(* The invariant of signing in.                                             *)
THEOREM Invariance == Spec => []Inv
BY InitInv, NextInv, PTL DEF Spec

(* Whoever is shown as signed in owns the token that the calls carry, and   *)
(* the cache holds under a user's keys only his own data, however late the  *)
(* answers of earlier sessions arrive, unless a profile refresh outlived    *)
(* its session.                                                             *)
THEOREM SessionIsOwn == Spec => []OwnSession
<1>1. Inv => OwnSession
  BY DEF Inv, OwnSession
<1>2. QED
  BY <1>1, Invariance, PTL

(* The step formula of EndsForCause.                                        *)
EndStep ==
  auth.token # NoToken /\ auth'.token = NoToken =>
    \/ logout
    \/ \E c \in calls : unauthorized(c) /\ onUnauthorized(c)
    \/ readStoredToken = NoToken /\ Reload

(* Nothing else takes the token away.                                       *)
LEMMA EndLemma == Inv /\ [Next]_vars => [EndStep]_vars
<1> SUFFICES ASSUME Inv, Next, auth.token # NoToken, auth'.token = NoToken
             PROVE  EndStep
  BY DEF EndStep
<1>1. /\ auth \in [token : 0..Len(owner), identity : Users \cup {NoUser}, status : Statuses]
      /\ owner \in Seq(Users) /\ Len(owner) \in Nat
  BY DEF Inv, TypeOK
<1>2. ASSUME auth'.token = auth.token PROVE FALSE
  BY <1>2
<1>3. ASSUME NEW u, owner' = Append(owner, u), NEW id, NEW rest,
             SetToken(Len(owner'), id, rest)
      PROVE  FALSE
  <2>1. Len(Append(owner, u)) = Len(owner) + 1
    BY <1>1
  <2>2. Len(owner') # NoToken
    BY <1>1, <1>3, <2>1 DEF NoToken
  <2>3. QED
    BY <1>3, <2>2 DEF SetToken
<1>4. ASSUME NEW c \in calls, Landed(c) PROVE EndStep
  <2>1. CASE loginDone(c)
    BY <1>3, <2>1 DEF loginDone
  <2>2. CASE onUnauthorized(c)
    BY <2>2 DEF onUnauthorized, EndStep
  <2>3. CASE loginFailed(c) \/ restoreDone(c) \/ restoreFailed(c)
             \/ refreshProfileDone(c) \/ dataReceived(c) \/ callFailed(c)
    BY <1>1, <1>2, <2>3 DEF loginFailed, restoreDone, restoreFailed,
       refreshProfileDone, dataReceived, callFailed
  <2>4. QED
    BY <1>4, <2>1, <2>2, <2>3 DEF Landed
<1>5. ASSUME NEW u \in Users, onSubmit(u) \/ beginOidcLogin(u) PROVE EndStep
  <2>1. CASE onSubmit(u)
    BY <1>1, <1>2, <2>1 DEF onSubmit
  <2>2. CASE beginOidcLogin(u)
    BY <1>3, <2>2 DEF beginOidcLogin
  <2>3. QED
    BY <1>5, <2>1, <2>2
<1>6. CASE Reload
  BY <1>6 DEF Reload, EndStep
<1>7. CASE logout
  BY <1>7 DEF EndStep
<1>8. CASE RedirectToLogin \/ LeaveLogin \/ refresh \/ OverviewQuery
           \/ \E t \in Tokens : TokenExpires(t)
  BY <1>2, <1>8 DEF RedirectToLogin, LeaveLogin, refresh, OverviewQuery, TokenExpires
<1>9. QED
  BY <1>4, <1>5, <1>6, <1>7, <1>8 DEF Next

(* A session ends only by a sign-out, a refused token or a reload of a      *)
(* browser that kept none.                                                  *)
THEOREM SessionsEndForCause == Spec => EndsForCause
<1>1. [EndStep]_vars =>
        [auth.token # NoToken /\ auth'.token = NoToken =>
          \/ logout
          \/ \E c \in calls : unauthorized(c) /\ onUnauthorized(c)
          \/ readStoredToken = NoToken /\ Reload]_vars
  BY DEF EndStep
<1>2. QED
  BY <1>1, EndLemma, Invariance, PTL DEF Spec, EndsForCause

=============================================================================

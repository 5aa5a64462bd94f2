----------------------------- MODULE JitAccess -----------------------------
(***************************************************************************)
(* What just-in-time access promises, without handlers, locks or roles:     *)
(* access is conferred by somebody else (unless its holder is named by an   *)
(* alias, which only a direct grant may do), for a bounded time, in one     *)
(* step that also closes the claim it answers; a claim is answered once;    *)
(* access that was withdrawn or has run out never comes back.               *)
(* BastionGrants implements it.                                             *)
(***************************************************************************)
EXTENDS Naturals

CONSTANTS User, Asset, Request, Grant, MaxDuration, None

VARIABLES clock,    \* time
          claims,   \* claims[r]: who asks for what, and whether it is still open
          access    \* access[g]: who may use what, on whose authority, until when

vars == <<clock, claims, access>>

NoClaim  == [state |-> "none", user |-> None, asset |-> None]
NoAccess == [state |-> "none", user |-> None, asset |-> None, by |-> None,
             until |-> 0, alias |-> FALSE]

Init ==
  /\ clock = 0
  /\ claims = [r \in Request |-> NoClaim]
  /\ access = [g \in Grant |-> NoAccess]

File(r, u, a) ==
  /\ claims[r].state = "none"
  /\ claims' = [claims EXCEPT ![r] = [state |-> "open", user |-> u, asset |-> a]]
  /\ UNCHANGED <<clock, access>>

Drop(r) ==
  /\ claims[r].state = "open"
  /\ claims' = [claims EXCEPT ![r].state = "closed"]
  /\ UNCHANGED <<clock, access>>

(* The two-person rule and the time limit.  The rule does not recognise     *)
(* somebody who is named by an alias.                                       *)
Confer(g, by, u, alias, a, until) ==
  /\ access[g].state = "none"
  /\ by # u \/ alias
  /\ until <= clock + MaxDuration
  /\ access' = [access EXCEPT ![g] = [state |-> "live", user |-> u, asset |-> a,
                                      by |-> by, until |-> until,
                                      alias |-> alias]]
  /\ UNCHANGED clock

ConferDirectly(g, by, u, alias, a, until) ==
  Confer(g, by, u, alias, a, until) /\ UNCHANGED claims

(* A claim names its owner as he is known.                                  *)
Answer(r, g, by, until) ==
  /\ claims[r].state = "open"
  /\ Confer(g, by, claims[r].user, FALSE, claims[r].asset, until)
  /\ claims' = [claims EXCEPT ![r].state = "closed"]

Withdraw(g) ==
  /\ access[g].state = "live"
  /\ access' = [access EXCEPT ![g].state = "withdrawn"]
  /\ UNCHANGED <<clock, claims>>

Advance == clock' = clock + 1 /\ UNCHANGED <<claims, access>>

Next ==
  \/ \E r \in Request : Drop(r) \/ \E u \in User, a \in Asset : File(r, u, a)
  \/ \E g \in Grant :
       \/ Withdraw(g)
       \/ \E by \in User, until \in 0..(clock + MaxDuration) :
            \/ \E u \in User, alias \in BOOLEAN, a \in Asset :
                 ConferDirectly(g, by, u, alias, a, until)
            \/ \E r \in Request : Answer(r, g, by, until)
  \/ Advance

Spec == Init /\ [][Next]_vars

=============================================================================

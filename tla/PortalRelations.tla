--------------------------- MODULE PortalRelations ---------------------------
(***************************************************************************)
(* The relations in the drawer of the CMDB page (RelationsSection and      *)
(* deleteRelationMutation of features/cmdb/AssetsPage.tsx).  A relation    *)
(* links two assets and is listed in the drawer of both.  The page has one *)
(* deletingRelationID for all of them, so calls that overlap share it.     *)
(***************************************************************************)
EXTENDS Naturals, FiniteSets

CONSTANTS Assets, Relations,
          MaxCalls     \* bound on the removals the operator confirms

VARIABLES db,      \* the relations on the server
          cache,   \* cache[a]: the relations loaded for the drawer of a
          m,       \* the removals under way
          ui

vars == <<db, cache, m, ui>>

None == "none"

Init ==
    /\ db = Relations
    /\ cache = [a \in Assets |-> {}]
    /\ m = {}
    /\ ui \in [canWrite : BOOLEAN, selected : {None}, deletingRelationID : {None}, calls : {0},
               overlapped : {FALSE}]

select(a) ==
    /\ (a = None) # (ui.selected = None)
    /\ ui' = [ui EXCEPT !.selected = a]
    /\ UNCHANGED <<db, cache, m>>

\* Mutant: the button stays enabled.
isDeletingNever(r) == FALSE

\* The button of the relation is disabled.
isDeleting(r) == ui.deletingRelationID = r

\* RelationsSection: the relations loaded, each with a button for who may write.
forgetButton(r) ==
    ui.selected # None /\ ui.canWrite /\ r \in cache[ui.selected] /\ ~isDeleting(r)

underWay == {c \in m : c.phase # "settling"}

\* The button and the question; onMutate notes the relation, instead of another.
confirmDeleteRelation(r) ==
    /\ forgetButton(r)
    /\ ui.calls < MaxCalls
    /\ m' = m \cup {[id |-> ui.calls, asset |-> ui.selected, rel |-> r, phase |-> "sent"]}
    /\ ui' = [ui EXCEPT !.calls = @ + 1, !.deletingRelationID = r,
                        !.overlapped = @ \/ \E c \in underWay : c.rel # r]
    /\ UNCHANGED <<db, cache>>

becomes(c, phase) == (m \ {c}) \cup {[c EXCEPT !.phase = phase]}

\* The server removes the relation, or finds that it is gone.
deleteAssetRelation(c) ==
    /\ c.phase = "sent"
    /\ db' = db \ {c.rel}
    /\ m' = becomes(c, "done")
    /\ UNCHANGED <<cache, ui>>

\* Mutant: the marker is taken back after a success only.
onSettledIfDone(c) ==
    /\ c.phase \in {"sent", "done"}
    /\ ui' = IF c.phase = "done" THEN [ui EXCEPT !.deletingRelationID = None] ELSE ui
    /\ m' = becomes(c, "settling")
    /\ UNCHANGED <<db, cache>>

\* The answer, or an error before or after the removal.
onSettled(c) ==
    /\ c.phase \in {"sent", "done"}
    /\ ui' = [ui EXCEPT !.deletingRelationID = None]
    /\ m' = becomes(c, "settling")
    /\ UNCHANGED <<db, cache>>

\* The invalidated query is loaded again, if its drawer is open.
Settle(c) ==
    /\ c.phase = "settling"
    /\ cache' \in {cache} \cup (IF ui.selected = c.asset THEN {[cache EXCEPT ![c.asset] = db]} ELSE {})
    /\ m' = m \ {c}
    /\ UNCHANGED <<db, ui>>

\* The query of the drawer that is opened.
listAssetRelations ==
    /\ ui.selected # None /\ cache[ui.selected] # db
    /\ cache' = [cache EXCEPT ![ui.selected] = db]
    /\ UNCHANGED <<db, m, ui>>

\* The AWS synchronisation writes a relation again.
RelationFound(r) ==
    /\ r \notin db
    /\ db' = db \cup {r}
    /\ UNCHANGED <<cache, m, ui>>

Next ==
    \/ \E a \in Assets \cup {None} : select(a)
    \/ \E r \in Relations : confirmDeleteRelation(r) \/ RelationFound(r)
    \/ \E c \in m : deleteAssetRelation(c) \/ onSettled(c) \/ Settle(c)
    \/ listAssetRelations

-----------------------------------------------------------------------------
TypeOK ==
    /\ db \subseteq Relations /\ cache \in [Assets -> SUBSET Relations]
    /\ ui.selected \in Assets \cup {None} /\ ui.deletingRelationID \in Relations \cup {None}

\* A relation is shown as being removed only while it is: a failed removal, too,
\* gives its button back.
RemovingTruthful ==
    ui.deletingRelationID # None => \E c \in underWay : c.rel = ui.deletingRelationID

\* A relation is removed by one call at a time, unless removals of two relations
\* have overlapped: the second takes the marker from the first, and the answer
\* to either takes it from both.
RemovedOnce ==
    \A c, d \in underWay : c # d /\ c.rel = d.rel => ui.overlapped
=============================================================================

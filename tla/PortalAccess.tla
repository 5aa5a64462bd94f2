---------------------------- MODULE PortalAccess ----------------------------
(***************************************************************************)
(* The access page (features/access/AccessPage.tsx): the request form in   *)
(* its modal, the operator's own requests, and the approvals tab.  The     *)
(* draft of a request outlives the modal and is cleared only by the answer *)
(* of a request; its inputs stay usable while one is pending.  What the    *)
(* server does with a request is BastionGrants; here it is one step.       *)
(***************************************************************************)
EXTENDS PortalPage, Sequences

CONSTANT Assets

None == "none"
Mutations == {"create", "decide", "cancel"}
Caps == {"cmdb.asset:read", "bastion.request:write", "bastion.grant:write"}

\* drafts counts the drafts begun and lost the answers that never arrived.
Init ==
    /\ db \in [requests : {<<[mine |-> FALSE, asset |-> a, status |-> "pending"]>> : a \in Assets}]
    /\ cache \in {Undefined, db}
    /\ m = [x \in Mutations |-> Idle]
    /\ ui \in [can : {Caps, {}}, tab : {"mine", "approve"}, modal : {FALSE}, asset : {None},
               assetItems : {Assets}, drafts : {0}, lost : {0}, calls : {0}]

can(c) == c \in ui.can
canWriteRequests == can("cmdb.asset:read") /\ can("bastion.request:write")

requestItems == IF cache = Undefined THEN {} ELSE {i \in DOMAIN cache.requests : cache.requests[i].mine}
pendingItems == IF cache = Undefined \/ ~can("bastion.grant:write") THEN {}
                ELSE {i \in DOMAIN cache.requests : cache.requests[i].status = "pending"}

\* The tab of the link is honoured only for those who approve.
accessTab == IF ui.tab = "approve" /\ can("bastion.grant:write") THEN "approve" ELSE "mine"

setAccessTab ==
    /\ ~ui.modal
    /\ \E t \in {"mine", "approve"} \ {accessTab} :
           /\ t = "approve" => can("bastion.grant:write")
           /\ ui' = [ui EXCEPT !.tab = t]
    /\ UNCHANGED <<db, cache, m>>

\* The controls that the page renders and enables: the toolbar, a row of the
\* operator's requests and of the approvals, the form of the modal and its foot.
toolbar == ~ui.modal /\ canWriteRequests
requestRow(i) == /\ ~ui.modal /\ accessTab = "mine" /\ can("bastion.request:write")
                 /\ i \in requestItems /\ cache.requests[i].status = "pending" /\ ~isPending("cancel")
pendingRow(i) == ~ui.modal /\ accessTab = "approve" /\ i \in pendingItems /\ ~isPending("decide")
requestForm == ui.modal /\ canWriteRequests
requestModalFoot == requestForm /\ ui.asset # None /\ ~isPending("create")

\* The modal opens with the draft as it was left.
openRequestModal ==
    /\ toolbar
    /\ ui' = [ui EXCEPT !.modal = TRUE]
    /\ UNCHANGED <<db, cache, m>>

closeRequestModal ==
    /\ ui.modal
    /\ ui' = [ui EXCEPT !.modal = FALSE]
    /\ UNCHANGED <<db, cache, m>>

\* A search replaces the options of the asset list, not the choice made in it.
setAssetQuery ==
    /\ requestForm
    /\ \E hits \in SUBSET Assets : ui' = [ui EXCEPT !.assetItems = hits]
    /\ UNCHANGED <<db, cache, m>>

setSelectedAssetID(a) ==
    /\ requestForm /\ a \in ui.assetItems /\ a # ui.asset
    /\ ui.drafts <= MaxCalls
    /\ ui' = [ui EXCEPT !.asset = a, !.drafts = IF ui.asset = None THEN @ + 1 ELSE @]
    /\ UNCHANGED <<db, cache, m>>

createAccessRequest ==
    /\ requestModalFoot
    /\ mutate("create", ui.asset)
    /\ UNCHANGED <<db, cache>>

\* The buttons ask for a confirmation first.
decidePendingRequest(i, decision) ==
    /\ pendingRow(i)
    /\ mutate("decide", [id |-> i, decision |-> decision])
    /\ UNCHANGED <<db, cache>>

cancelOwnRequest(i) ==
    /\ requestRow(i)
    /\ mutate("cancel", i)
    /\ UNCHANGED <<db, cache>>

-----------------------------------------------------------------------------
\* The server's side of the calls.

createBastionRequest ==
    /\ m["create"].phase = "sent"
    /\ db' = [db EXCEPT !.requests = Append(@, [mine |-> TRUE, asset |-> m["create"].arg, status |-> "pending"])]
    /\ Executed("create", Undefined)
    /\ UNCHANGED <<cache, ui>>

\* approveBastionRequest and rejectBastionRequest; nobody approves his own.
decideBastionRequest ==
    LET arg == m["decide"].arg IN
    /\ m["decide"].phase = "sent" /\ db.requests[arg.id].status = "pending"
    /\ ~(db.requests[arg.id].mine /\ arg.decision = "approved")
    /\ db' = [db EXCEPT !.requests[arg.id].status = arg.decision]
    /\ Executed("decide", Undefined)
    /\ UNCHANGED <<cache, ui>>

cancelBastionRequest ==
    /\ m["cancel"].phase = "sent" /\ db.requests[m["cancel"].arg].status = "pending"
    /\ db' = [db EXCEPT !.requests[m["cancel"].arg].status = "cancelled"]
    /\ Executed("cancel", Undefined)
    /\ UNCHANGED <<cache, ui>>

-----------------------------------------------------------------------------
\* The answers at the page.

\* Mutant: the draft is not cleared.
createRequestKeepingDraft ==
    /\ m["create"].phase = "done"
    /\ ui' = [ui EXCEPT !.modal = FALSE]
    /\ Succeeded("create")
    /\ UNCHANGED <<db, cache>>

createRequest ==
    /\ m["create"].phase = "done"
    /\ ui' = [ui EXCEPT !.asset = None, !.modal = FALSE]
    /\ Succeeded("create")
    /\ UNCHANGED <<db, cache>>

\* decideRequest and cancelRequest only load the lists again.
listChanged(x) ==
    /\ m[x].phase = "done"
    /\ Succeeded(x)
    /\ UNCHANGED <<db, cache, ui>>

\* onError of a request; the draft stays.
createFailed ==
    /\ m["create"].phase \in {"sent", "done"}
    /\ ui' = [ui EXCEPT !.lost = IF m["create"].phase = "done" THEN @ + 1 ELSE @]
    /\ Ended("create")
    /\ UNCHANGED <<db, cache>>

Next ==
    \/ setAccessTab \/ openRequestModal \/ closeRequestModal \/ setAssetQuery \/ createAccessRequest
    \/ \E a \in Assets : setSelectedAssetID(a)
    \/ \E i \in 1..MaxCalls + 1 :
           cancelOwnRequest(i) \/ \E d \in {"approved", "rejected"} : decidePendingRequest(i, d)
    \/ createBastionRequest \/ decideBastionRequest \/ cancelBastionRequest
    \/ createRequest \/ createFailed
    \/ \E x \in {"decide", "cancel"} : listChanged(x) \/ MutationFailed(x)
    \/ \E x \in Mutations : Settle(x)
    \/ Load

-----------------------------------------------------------------------------
TypeOK ==
    /\ db.requests \in Seq([mine : BOOLEAN, asset : Assets,
                            status : {"pending", "approved", "rejected", "cancelled"}])
    /\ ui.asset \in Assets \cup {None} /\ ui.assetItems \subseteq Assets
    /\ DOMAIN m = Mutations

ownRequests == {i \in DOMAIN db.requests : db.requests[i].mine}

\* One draft makes one request: closing and reopening the modal, or clicking
\* again while the call is under way, does not send it twice.  Only an answer
\* that was lost on its way lets the operator send a draft that was received.
NoDoubleRequest == Cardinality(ownRequests) <= ui.drafts + ui.lost
=============================================================================

-------------------------- MODULE DocumentDelivery --------------------------
(***************************************************************************)
(* Which documents a grant confers, and whether a download may happen now  *)
(* (src/lib/server/access/grants.ts, scope.ts, groups.ts,                  *)
(* nda/requirements.ts, nda/settings.ts, delivery/serve.ts, and the pages  *)
(* that move documents between tiers and groups).                          *)
(*                                                                         *)
(* A grant names documents, whole tiers and whole groups, so what it       *)
(* covers changes with the catalogue; what an approver asked for is frozen *)
(* on it, and what a document asks for now is asked again at every         *)
(* download.  The download reads in three steps (file, conferring grants,  *)
(* agreements) while staff move documents, groups and settings; saving a   *)
(* document's form is itself two transactions, the row and then its        *)
(* groups.  Agreements are an AgreementRegister.                           *)
(***************************************************************************)
EXTENDS AgreementRegister, FiniteSets

CONSTANTS
    Documents,     \* document ids
    Groups,        \* access_group ids
    Grants,        \* access_grant ids
    Downloads,     \* gated downloads in flight at once
    NoTemplate     \* no default agreement, or a group that carries none

ASSUME DeliveryAssumption ==
    NoTemplate \notin Templates /\ Documents # {} /\ Requesters # {}

VARIABLES
    doc,           \* document rows with their document_group rows
    group,         \* access_group rows
    grant,         \* access_grant rows with scope and access_grant_nda
    defaultTemplate, \* setting nda.default_template_id
    saving,        \* document forms between their two transactions
    starting,      \* grants an activation in flight has decided to start
    download       \* gated downloads

deliveryVars == <<registerVars, doc, group, grant, defaultTemplate, saving, starting, download>>

Tiers == {"request", "nda"}                    \* SCOPE_TIERS = PHASE_TIERS
MaybeTemplate == Templates \cup {NoTemplate}

(* "withheld" is draft or archived: no query tells the two apart.          *)
DocumentRow == [status : {"none", "withheld", "published"},
                tier : Tiers \cup {"public"}, groups : SUBSET Groups]
GroupRow == [exists : BOOLEAN, template : MaybeTemplate]
Scope == [documents : SUBSET Documents, tiers : SUBSET Tiers, groups : SUBSET Groups]

(* grantState and closedAt: inert waits for an acceptance, closed is what   *)
(* the sweep makes of one that waited too long, over is expired or revoked. *)
GrantRow == [state : {"none", "inert", "active", "closed", "over"}, holder : Requesters,
             scope : Scope, required : SUBSET Templates, waived : SUBSET Templates]

(* What a download has read: ended is history, the grants that had ended   *)
(* for good when it arrived.                                               *)
DownloadRow == [phase : {"idle", "found", "conferred", "checking", "allowed"},
                by : Requesters, of : Documents, rows : SUBSET Grants,
                tier : Tiers \cup {"public"}, carried : SUBSET Templates,
                needed : SUBSET Templates, ended : SUBSET Grants]
-----------------------------------------------------------------------------
(* The agreements the groups of a document carry.                          *)
CarriedBy(d) == {group[g].template : g \in doc[d].groups} \ {NoTemplate}

(* proposeFrom for one document: the union of its groups' agreements and,  *)
(* at the nda tier, the default; DefaultTemplateMissing when there is none.*)
Resolvable(tier, default) == tier = "nda" => default # NoTemplate
Needed(tier, carried, default) ==
    carried \cup (IF tier = "nda" THEN {default} ELSE {})

(* The three sources of scope, none implying another.                      *)
InScope(scope, d) ==
    /\ doc[d].status # "none"
    /\ \/ d \in scope.documents
       \/ doc[d].tier \in scope.tiers
       \/ doc[d].groups \cap scope.groups # {}

(* proposeRequirements: every agreement of every document in scope, also   *)
(* those of groups the scope does not name.                                *)
FaultyProposal(scope) ==
    UNION {Needed(doc[d].tier,
                  {group[g].template : g \in doc[d].groups \cap scope.groups} \ {NoTemplate},
                  defaultTemplate) : d \in {e \in Documents : InScope(scope, e)}}

Proposal(scope) ==
    UNION {Needed(doc[d].tier, CarriedBy(d), defaultTemplate) :
              d \in {e \in Documents : InScope(scope, e)}}
ProposalFails(scope) ==
    \E d \in Documents : InScope(scope, d) /\ ~ Resolvable(doc[d].tier, defaultTemplate)

(* grantConfersDocument: covers, is live, and the document is published in *)
(* a tier this phase hands over.                                           *)
FaultyConfers(g, d) ==
    /\ grant[g].state \in {"active", "closed", "over"}
    /\ doc[d].status = "published" /\ doc[d].tier \in Tiers
    /\ InScope(grant[g].scope, d)

Confers(g, d) ==
    /\ grant[g].state = "active"
    /\ doc[d].status = "published" /\ doc[d].tier \in Tiers
    /\ InScope(grant[g].scope, d)

(* conferredSelect for one requester and document.                         *)
Conferring(p, d) == {g \in Grants : grant[g].holder = p /\ Confers(g, d)}

(* narrowByAgreements: the quick answer when nothing is gated, and         *)
(* otherwise each agreement is waived on that grant or held.               *)
IsGated(tier, carried) == tier = "nda" \/ carried # {}
Satisfies(p, g, needed) ==
    \A t \in needed : t \in grant[g].waived \/ HoldsValid(p, t)
Narrowed(p, d, rows) ==
    IF ~ IsGated(doc[d].tier, CarriedBy(d)) THEN rows
    ELSE {g \in rows : /\ Resolvable(doc[d].tier, defaultTemplate)
                       /\ Satisfies(p, g, Needed(doc[d].tier, CarriedBy(d), defaultTemplate))}

(* grantedDocuments, the list a requester sees.                            *)
GrantedDocuments(p) == {d \in Documents : Narrowed(p, d, Conferring(p, d)) # {}}

(* countGrantDocuments: the aggregate when it says nothing is gated, and   *)
(* the narrowed rows when it does.                                         *)
ConferredBy(g) == {d \in Documents : Confers(g, d)}
Deliverable(g) == {d \in ConferredBy(g) : Narrowed(grant[g].holder, d, {g}) # {}}
FaultyCountGrantDocuments(g) ==
    IF \E d \in ConferredBy(g) : doc[d].tier = "nda"
    THEN Cardinality(Deliverable(g)) ELSE Cardinality(ConferredBy(g))

CountGrantDocuments(g) ==
    IF \E d \in ConferredBy(g) : IsGated(doc[d].tier, CarriedBy(d))
    THEN Cardinality(Deliverable(g)) ELSE Cardinality(ConferredBy(g))
-----------------------------------------------------------------------------
NoScope == [documents |-> {}, tiers |-> {}, groups |-> {}]
IdleDownload == [phase |-> "idle", by |-> CHOOSE p \in Requesters : TRUE,
                 of |-> CHOOSE d \in Documents : TRUE, rows |-> {}, tier |-> "public",
                 carried |-> {}, needed |-> {}, ended |-> {}]

DeliveryInit ==
    /\ RegisterInit
    /\ doc = [d \in Documents |-> [status |-> "none", tier |-> "public", groups |-> {}]]
    /\ group = [g \in Groups |-> [exists |-> FALSE, template |-> NoTemplate]]
    /\ grant = [g \in Grants |-> [state |-> "none", holder |-> CHOOSE p \in Requesters : TRUE,
                                  scope |-> NoScope, required |-> {}, waived |-> {}]]
    /\ defaultTemplate = NoTemplate
    /\ saving = {} /\ starting = {}
    /\ download = [s \in Downloads |-> IdleDownload]

(* createDocument, then setStatus, updateDocument and setDocumentGroups.   *)
CreateDocument(d, tier) ==
    /\ doc[d].status = "none"
    /\ doc' = [doc EXCEPT ![d] = [status |-> "withheld", tier |-> tier, groups |-> {}]]
    /\ UNCHANGED <<registerVars, group, grant, defaultTemplate, saving, starting, download>>

SetStatus(d, status) ==
    /\ doc[d].status \notin {"none", status}
    /\ doc' = [doc EXCEPT ![d].status = status]
    /\ UNCHANGED <<registerVars, group, grant, defaultTemplate, saving, starting, download>>

(* saveMeta of a document: the row, and in a transaction of its own the    *)
(* whole set of groups it is in.                                           *)
SaveDocumentRow(d, tier) ==
    /\ doc[d].status # "none" /\ d \notin saving
    /\ doc' = [doc EXCEPT ![d].tier = tier]
    /\ saving' = saving \cup {d}
    /\ UNCHANGED <<registerVars, group, grant, defaultTemplate, starting, download>>

SetDocumentGroups(d, members) ==
    /\ d \in saving
    /\ \A g \in members : group[g].exists
    /\ doc' = [doc EXCEPT ![d].groups = IF doc[d].status = "none" THEN {} ELSE members]
    /\ saving' = saving \ {d}
    /\ UNCHANGED <<registerVars, group, grant, defaultTemplate, starting, download>>

(* deleteDocument: memberships and explicit scope rows cascade.            *)
DeleteDocument(d) ==
    /\ doc[d].status # "none"
    /\ doc' = [doc EXCEPT ![d] = [status |-> "none", tier |-> "public", groups |-> {}]]
    /\ grant' = [g \in Grants |-> [grant[g] EXCEPT !.scope.documents = @ \ {d}]]
    /\ UNCHANGED <<registerVars, group, defaultTemplate, saving, starting, download>>

CreateGroup(g) ==
    /\ ~ group[g].exists
    /\ group' = [group EXCEPT ![g] = [exists |-> TRUE, template |-> NoTemplate]]
    /\ UNCHANGED <<registerVars, doc, grant, defaultTemplate, saving, starting, download>>

UpdateGroup(g, template) ==
    /\ group[g].exists /\ template # group[g].template
    /\ group' = [group EXCEPT ![g].template = template]
    /\ UNCHANGED <<registerVars, doc, grant, defaultTemplate, saving, starting, download>>

(* access_grant_group.group_id is ON DELETE RESTRICT, ended grants or not. *)
ScopeGroupInUse(g) == \E h \in Grants : g \in grant[h].scope.groups

(* deleteGroup; memberships of documents cascade.                          *)
DeleteGroup(g) ==
    /\ group[g].exists
    /\ ~ ScopeGroupInUse(g)
    /\ group' = [group EXCEPT ![g] = [exists |-> FALSE, template |-> NoTemplate]]
    /\ doc' = [d \in Documents |-> [doc[d] EXCEPT !.groups = @ \ {g}]]
    /\ UNCHANGED <<registerVars, grant, defaultTemplate, saving, starting, download>>

SetDefaultTemplate(template) ==
    /\ template # defaultTemplate
    /\ defaultTemplate' = template
    /\ UNCHANGED <<registerVars, doc, group, grant, saving, starting, download>>
-----------------------------------------------------------------------------
(* setGrantTiers, setGrantGroups: rows with foreign keys.                  *)
ScopeHasRows(scope) ==
    /\ \A d \in scope.documents : doc[d].status # "none"
    /\ \A h \in scope.groups : group[h].exists

(* recordRequirements: what the approver confirmed, one disposition per    *)
(* agreement, and nothing required that nobody could be shown.             *)
Confirmable(required, waived) ==
    /\ required \cap waived = {}
    /\ \A t \in required : inForce[t] > 0

(* createGrant in the transaction of the decision; the clock waits only    *)
(* for a required agreement that is not held.                              *)
CreateGrant(g, p, scope, required, waived) ==
    /\ grant[g].state = "none"
    /\ ScopeHasRows(scope) /\ Confirmable(required, waived)
    /\ grant' = [grant EXCEPT ![g] =
           [state |-> IF \A t \in required : HoldsValid(p, t) THEN "active" ELSE "inert",
            holder |-> p, scope |-> scope, required |-> required, waived |-> waived]]
    /\ UNCHANGED <<registerVars, doc, group, defaultTemplate, saving, starting, download>>

(* activateGrants reads a grant that waits and finds everything frozen on  *)
(* it held; ...                                                            *)
DecideToStart(g) ==
    /\ grant[g].state = "inert"
    /\ \A t \in grant[g].required : HoldsValid(grant[g].holder, t)
    /\ starting' = starting \cup {g}
    /\ UNCHANGED <<registerVars, doc, group, grant, defaultTemplate, saving, download>>

(* ... its UPDATE restates only that no clock runs yet: it gives one to a  *)
(* grant that was closed meanwhile; a revoked one it leaves revoked.       *)
StartGrant(g) ==
    /\ g \in starting
    /\ starting' = starting \ {g}
    /\ grant' = [grant EXCEPT ![g].state = IF @ \in {"inert", "closed"} THEN "active" ELSE @]
    /\ UNCHANGED <<registerVars, doc, group, defaultTemplate, saving, download>>

(* closeUnacceptedGrants, the sweep.                                       *)
CloseGrant(g) ==
    /\ grant[g].state = "inert"
    /\ grant' = [grant EXCEPT ![g].state = "closed"]
    /\ UNCHANGED <<registerVars, doc, group, defaultTemplate, saving, starting, download>>

(* revokeGrant, of any grant, or the expiry of one that runs.              *)
EndGrant(g) ==
    /\ grant[g].state \in {"inert", "active", "closed"}
    /\ grant' = [grant EXCEPT ![g].state = "over"]
    /\ UNCHANGED <<registerVars, doc, group, defaultTemplate, saving, starting, download>>

AgreementChanges ==
    /\ RegisterNext
    /\ UNCHANGED <<doc, group, grant, defaultTemplate, saving, starting, download>>
-----------------------------------------------------------------------------
(* serveDocumentFile, the gated route.  First the file: published, in one  *)
(* of the tiers this route serves, and a visitor with a session.           *)
EndedForGood(g) ==
    grant[g].state = "over" \/ (grant[g].state = "closed" /\ g \notin starting)

FindFile(s, p, d) ==
    /\ download[s].phase = "idle"
    /\ doc[d].status = "published" /\ doc[d].tier \in Tiers
    /\ download' = [download EXCEPT ![s] =
           [IdleDownload EXCEPT !.phase = "found", !.by = p, !.of = d,
            !.ended = {g \in Grants : EndedForGood(g)}]]
    /\ UNCHANGED <<registerVars, doc, group, grant, defaultTemplate, saving, starting>>

(* mayDownload: the conferring grants with the tier and the groups'        *)
(* agreements in one query; nothing gated is allowed at once.              *)
Confer(s) ==
    LET d == download[s].of
        rows == Conferring(download[s].by, d)
    IN  /\ download[s].phase = "found"
        /\ rows # {}
        /\ download' = [download EXCEPT
               ![s].rows = rows, ![s].tier = doc[d].tier, ![s].carried = CarriedBy(d),
               ![s].phase = IF IsGated(doc[d].tier, CarriedBy(d)) THEN "conferred" ELSE "allowed"]
        /\ UNCHANGED <<registerVars, doc, group, grant, defaultTemplate, saving, starting>>

(* Then the default agreement, with the tier that was read before; an      *)
(* unresolvable document fails closed.                                     *)
ReadRequirements(s) ==
    LET dl == download[s]
    IN  /\ dl.phase = "conferred"
        /\ Resolvable(dl.tier, defaultTemplate)
        /\ download' = [download EXCEPT ![s].phase = "checking",
                            ![s].needed = Needed(dl.tier, dl.carried, defaultTemplate)]
        /\ UNCHANGED <<registerVars, doc, group, grant, defaultTemplate, saving, starting>>

(* Then waivers and acceptances; rows are removed, never added.            *)
CheckAgreements(s) ==
    LET dl == download[s]
        left == {g \in dl.rows : Satisfies(dl.by, g, dl.needed)}
    IN  /\ dl.phase = "checking"
        /\ left # {}
        /\ download' = [download EXCEPT ![s].phase = "allowed", ![s].rows = left]
        /\ UNCHANGED <<registerVars, doc, group, grant, defaultTemplate, saving, starting>>

(* 404 at any of these, or the response has been sent (DocumentFiles).     *)
FinishDownload(s) ==
    /\ download[s].phase # "idle"
    /\ download' = [download EXCEPT ![s] = IdleDownload]
    /\ UNCHANGED <<registerVars, doc, group, grant, defaultTemplate, saving, starting>>

CatalogueSteps ==
    \/ \E d \in Documents :
          \/ \E tier \in Tiers \cup {"public"} : CreateDocument(d, tier) \/ SaveDocumentRow(d, tier)
          \/ \E status \in {"withheld", "published"} : SetStatus(d, status)
          \/ \E members \in SUBSET Groups : SetDocumentGroups(d, members)
          \/ DeleteDocument(d)
    \/ \E g \in Groups :
          \/ CreateGroup(g)
          \/ \E template \in MaybeTemplate : UpdateGroup(g, template)
          \/ DeleteGroup(g)
    \/ \E template \in MaybeTemplate : SetDefaultTemplate(template)

GrantSteps ==
    \E g \in Grants :
        \/ \E p \in Requesters, scope \in Scope, required, waived \in SUBSET Templates :
              CreateGrant(g, p, scope, required, waived)
        \/ DecideToStart(g)
        \/ StartGrant(g)
        \/ CloseGrant(g)
        \/ EndGrant(g)

DownloadSteps ==
    \E s \in Downloads :
        \/ \E p \in Requesters, d \in Documents : FindFile(s, p, d)
        \/ Confer(s)
        \/ ReadRequirements(s)
        \/ CheckAgreements(s)
        \/ FinishDownload(s)

DeliveryNext == AgreementChanges \/ CatalogueSteps \/ GrantSteps \/ DownloadSteps

DeliverySpec == DeliveryInit /\ [][DeliveryNext]_deliveryVars
-----------------------------------------------------------------------------
DeliveryTypeOK ==
    /\ RegisterTypeOK
    /\ doc \in [Documents -> DocumentRow]
    /\ group \in [Groups -> GroupRow]
    /\ grant \in [Grants -> GrantRow]
    /\ defaultTemplate \in MaybeTemplate
    /\ saving \subseteq Documents
    /\ starting \subseteq Grants
    /\ download \in [Downloads -> DownloadRow]

(* A download is never allowed on a grant that was revoked or had expired  *)
(* when the request arrived, whatever is moved, published, signed or       *)
(* started while it is checked (grants.ts:133-141); nor on one that had    *)
(* been closed, unless an activation was then in flight that had read it   *)
(* before, which activation.ts:135 lets start it (README, section 5).      *)
EndIsImmediate ==
    \A s \in Downloads : download[s].phase = "allowed" =>
        /\ download[s].rows # {}
        /\ download[s].rows \cap download[s].ended = {}

(* The two places that ask which agreements apply agree: whoever holds     *)
(* everything an approver would be proposed for a grant's scope can        *)
(* download everything that grant confers (requirements.ts                 *)
(* proposeRequirements, grants.ts narrowByAgreements).                     *)
ProposalCoversDelivery ==
    \A g \in Grants :
        LET p == grant[g].holder
        IN  (/\ grant[g].state = "active"
             /\ ~ ProposalFails(grant[g].scope)
             /\ \A t \in Proposal(grant[g].scope) : HoldsValid(p, t)) =>
            \A d \in ConferredBy(g) : g \in Narrowed(p, d, {g})

(* The aggregate that spares countGrantDocuments the rows never differs    *)
(* from counting what the holder can download over that grant, and the     *)
(* list of the portal is what the grants deliver one by one (grants.ts).   *)
CountIsExact ==
    /\ \A g \in Grants : CountGrantDocuments(g) = Cardinality(Deliverable(g))
    /\ \A p \in Requesters :
          GrantedDocuments(p) = UNION {Deliverable(g) : g \in {h \in Grants : grant[h].holder = p}}
=============================================================================

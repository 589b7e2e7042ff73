--------------------------- MODULE AccessLifecycle ---------------------------
(***************************************************************************)
(* How a visitor's request becomes a grant of access, and how that grant   *)
(* ends (src/lib/server/access, src/lib/server/nda).                       *)
(*                                                                         *)
(* A request is submitted unverified with a magic link; consuming the link *)
(* adopts it and the access rules approve, deny or queue it; staff decide  *)
(* the queued ones.  An approval mints a grant: with a running clock, or   *)
(* inert (no expiry) while agreements are outstanding.  Accepting an       *)
(* agreement starts the clock of every grant it completes; a sweep closes  *)
(* the ones whose deadline passed; staff may revoke any.                   *)
(*                                                                         *)
(* Postgres runs READ COMMITTED, and neither decideRequest nor             *)
(* activateGrants locks the rows it reads.  Both are therefore split here  *)
(* where the program can be overtaken: activateGrants fixes its instant,   *)
(* reads the grants that wait, reads the acceptances, and only then        *)
(* commits its writes.  Every other handler is one statement or one        *)
(* transaction whose first statement takes the row it works on.            *)
(*                                                                         *)
(* A Faulty... operator is the definition that follows it with a bug put   *)
(* in; no run uses one, they show that the properties notice.              *)
(***************************************************************************)
EXTENDS Naturals, FiniteSets

CONSTANTS
    Requests,        \* access_request ids
    NoRequest,       \* "the grant row does not exist"
    Grants,          \* access_grant ids
    Requesters,      \* people
    Domains,         \* company domains
    Templates,       \* agreement templates
    Submitter,       \* who submitted each request
    DomainOf,        \* each person's company domain
    RuleAction,      \* what the access rules decide for each domain
    AcceptanceScope, \* "person" or "domain" (nda/settings.ts)
    Deciders,        \* decision transactions in flight at once
    Readers,         \* click-through handlers in flight at once
    TermDays,        \* how long a grant runs once its clock starts
    DueDays,         \* how long an inert grant may wait
    LinkTtl,         \* how long a magic link may be used
    SweepAfter,      \* when an unverified request is swept: linkTtlMinutes * 4
    HandlersFail,    \* whether a click-through may fail half way
    MaxTime,         \* bound: the last instant of the run
    MaxVersion       \* bound: versions published per template

ASSUME LifecycleAssumption ==
    /\ NoRequest \notin Requests
    /\ Submitter \in [Requests -> Requesters]
    /\ DomainOf \in [Requesters -> Domains]
    /\ RuleAction \in [Domains -> {"auto_approve", "review", "deny"}]
    /\ AcceptanceScope \in {"person", "domain"}
    /\ Grants # {} /\ Requesters # {} /\ Templates # {}
    /\ TermDays \in Nat \ {0}
    /\ DueDays \in Nat \ {0}
    /\ LinkTtl \in Nat \ {0}
    /\ SweepAfter \in Nat /\ SweepAfter >= LinkTtl
    /\ HandlersFail \in BOOLEAN
    /\ MaxTime \in Nat
    /\ MaxVersion \in Nat \ {0}

VARIABLES
    clock,    \* now()
    request,  \* access_request, with its one magic link
    grant,    \* access_grant with access_grant_nda and access_grant_acceptance
    accepted, \* nda_acceptance
    version,  \* the effective version of each template; 0 when it has none
    decision, \* the decideRequest transactions
    reader    \* the click-through requests

vars == <<clock, request, grant, accepted, version, decision, reader>>

-----------------------------------------------------------------------------
Null == 0    \* SQL NULL for a timestamp: the clock starts at 1

Statuses == {"none", "unverified", "pending", "info_requested",
             "approved", "denied", "swept"}

RequestRow == [status : Statuses, createdAt : Nat, linkOpen : BOOLEAN]

Acceptance == [by : Requesters, template : Templates, version : Nat]

(* deadline is the acceptanceDueAt the row was minted with: activation     *)
(* clears the column, the properties still need to know it.                *)
GrantRow == [request    : Requests \cup {NoRequest},
             required   : SUBSET Templates,
             expiresAt  : Nat,
             dueAt      : Nat,
             revokedAt  : Nat,
             closedAt   : Nat,
             evidence   : SUBSET Acceptance,
             deadline   : Nat]

(* What activateGrants knows so far: the instant it began at, the grants   *)
(* it may start, the acceptances it found.                                 *)
Plan == [now : Nat, held : SUBSET Acceptance, targets : SUBSET Grants]

Decision == [pc : {"idle", "open", "minted", "starting", "listed", "approving"},
             request : Requests \cup {NoRequest},
             own : Grants, row : GrantRow, plan : Plan]

Reader == [pc : {"idle", "reading", "accepted", "starting", "listed", "activating"},
           person : Requesters, template : Templates, version : Nat,
           plan : Plan]

NoGrant == [request |-> NoRequest, required |-> {}, expiresAt |-> Null,
            dueAt |-> Null, revokedAt |-> Null, closedAt |-> Null,
            evidence |-> {}, deadline |-> Null]

EmptyPlan == [now |-> 0, held |-> {}, targets |-> {}]

IdleDecision == [pc |-> "idle", request |-> NoRequest,
                 own |-> CHOOSE g \in Grants : TRUE,
                 row |-> NoGrant, plan |-> EmptyPlan]

IdleReader == [pc |-> "idle", person |-> CHOOSE p \in Requesters : TRUE,
               template |-> CHOOSE t \in Templates : TRUE, version |-> 0,
               plan |-> EmptyPlan]

Minted(g) == grant[g].request # NoRequest
Holder(g) == Submitter[grant[g].request]
Inert(g) == Minted(g) /\ grant[g].expiresAt = Null

(* The decision has inserted its grant and not committed it yet. *)
Drafting(d) == decision[d].pc \in {"minted", "starting", "listed", "approving"}

(* Ids nobody has inserted, in a committed or an open transaction. *)
FreeGrants == {g \in Grants : /\ ~Minted(g)
                              /\ \A d \in Deciders : Drafting(d) => decision[d].own # g}

-----------------------------------------------------------------------------
(* validAcceptance: whether an acceptance by somebody covers this person,  *)
(* and the acceptances of the version now in force that do.  A domain      *)
(* covers its people only when an auto_approve rule matches it.            *)
Covers(by, person) ==
    IF AcceptanceScope = "person" THEN by = person
    ELSE /\ DomainOf[by] = DomainOf[person]
         /\ RuleAction[DomainOf[person]] = "auto_approve"

(* Fault: any signature of the template will do, whoever made it. *)
FaultySignatures(person) == {a \in accepted : a.version = version[a.template]}

ValidFor(person) == {a \in accepted : /\ Covers(a.by, person)
                                      /\ a.version = version[a.template]}

(* One acceptance per satisfied template: LIMIT 1, no ORDER BY. *)
Found(person) ==
    {held \in SUBSET ValidFor(person) :
        /\ \A a \in ValidFor(person) : \E b \in held : b.template = a.template
        /\ \A a, b \in held : a.template = b.template => a = b}

TemplatesOf(held) == {a.template : a \in held}

(* Faults: the deadline, or the acceptances, are not looked at. *)
FaultyStillWaits(row, now) ==
    row.expiresAt = Null /\ row.revokedAt = Null /\ row.closedAt = Null

FaultySatisfied(row, held) == row.required # {}

(* isActivatable: neither started, revoked, closed nor late... *)
StillWaits(row, now) ==
    /\ row.expiresAt = Null
    /\ row.revokedAt = Null
    /\ row.closedAt = Null
    /\ row.dueAt # Null
    /\ row.dueAt > now

(* ...and every agreement it requires is accepted. *)
Satisfied(row, held) == row.required \subseteq TemplatesOf(held)

(* activateGrants, from its second statement on.  It fixed its instant     *)
(* before it read anything; the first reads list this person's inert       *)
(* grants as they are then, and what is required of each, which never      *)
(* changes...                                                              *)
Listed(plan, person) ==
    [plan EXCEPT !.targets = {g \in Grants : /\ Minted(g)
                                             /\ Holder(g) = person
                                             /\ StillWaits(grant[g], plan.now)}]

(* ...and the later ones find the acceptances, and so which of the listed  *)
(* grants to start.                                                        *)
Chosen(plan, held) ==
    [plan EXCEPT !.held = held,
                 !.targets = {g \in @ : Satisfied(grant[g], held)}]

(* Fault: stores the templates where the acceptances belong. *)
FaultyEvidence(row, held) == row.required \cap TemplatesOf(held)

EvidenceFor(row, held) == {a \in held : a.template \in row.required}

(* Faults: the UPDATE forgets IS NULL; the evidence is not written. *)
FaultyRestart(row, plan) ==
    [row EXCEPT !.expiresAt = plan.now + TermDays, !.dueAt = Null,
                !.evidence = @ \cup EvidenceFor(row, plan.held)]

FaultyNoEvidence(row, plan) ==
    [row EXCEPT !.expiresAt = IF @ = Null THEN plan.now + TermDays ELSE @,
                !.dueAt = IF row.expiresAt = Null THEN Null ELSE @]

(* The UPDATE states expires_at IS NULL again and nothing else; the        *)
(* acceptance rows are inserted whether or not it wrote.                   *)
Started(row, plan) ==
    [row EXCEPT !.expiresAt = IF @ = Null THEN plan.now + TermDays ELSE @,
                !.dueAt = IF row.expiresAt = Null THEN Null ELSE @,
                !.evidence = @ \cup EvidenceFor(row, plan.held)]

WithStarted(plan) ==
    [g \in Grants |-> IF g \in plan.targets THEN Started(grant[g], plan)
                                            ELSE grant[g]]

-----------------------------------------------------------------------------
Init ==
    /\ clock = 1
    /\ request = [r \in Requests |-> [status |-> "none", createdAt |-> Null,
                                      linkOpen |-> FALSE]]
    /\ grant = [g \in Grants |-> NoGrant]
    /\ accepted = {}
    /\ version \in [Templates -> {0, 1}]
    /\ decision = [d \in Deciders |-> IdleDecision]
    /\ reader = [h \in Readers |-> IdleReader]

(* Bound: nothing is started that the last instant would cut short. *)
Fits(days) == clock + days <= MaxTime

(* submitRequest: an unverified row and its magic link, one transaction. *)
SubmitRequest(r) ==
    /\ request[r].status = "none"
    /\ Fits(SweepAfter + 1)
    /\ request' = [request EXCEPT ![r] = [status |-> "unverified",
                                          createdAt |-> clock,
                                          linkOpen |-> TRUE]]
    /\ UNCHANGED <<clock, grant, accepted, version, decision, reader>>

(* consumeMagicLink: unused and unexpired, stamped by the same UPDATE. *)
LinkUsable(r) ==
    /\ request[r].linkOpen
    /\ request[r].createdAt + LinkTtl > clock

(* Fault: an inert grant is minted without its deadline. *)
FaultyUndatedGrant(r, required) ==
    [request |-> r, required |-> required,
     expiresAt |-> IF required # {} THEN Null ELSE clock + TermDays,
     dueAt |-> Null, revokedAt |-> Null, closedAt |-> Null, evidence |-> {},
     deadline |-> IF required # {} THEN clock + DueDays ELSE Null]

(* A grant row as createGrant inserts it, with recordRequirements' rows.   *)
NewGrant(r, required) ==
    LET inert == required # {} IN
    [request   |-> r,
     required  |-> required,
     expiresAt |-> IF inert THEN Null ELSE clock + TermDays,
     dueAt     |-> IF inert THEN clock + DueDays ELSE Null,
     revokedAt |-> Null,
     closedAt  |-> Null,
     evidence  |-> {},
     deadline  |-> IF inert THEN clock + DueDays ELSE Null]

Verified(r, status) ==
    request' = [request EXCEPT ![r].status = status, ![r].linkOpen = FALSE]

(* verifyRequest: the link, the identity and the rules' decision in one    *)
(* transaction.  blanketNeedsAHuman may send an auto-approval to the queue *)
(* (a blanket that an agreement gates): which, depends on the documents.   *)
VerifyRequest(r) ==
    LET action == RuleAction[DomainOf[Submitter[r]]] IN
    /\ request[r].status = "unverified"
    /\ LinkUsable(r)
    /\ \/ /\ action = "deny"
          /\ Verified(r, "denied")
          /\ UNCHANGED grant
       \/ /\ action \in {"review", "auto_approve"}
          /\ Verified(r, "pending")
          /\ UNCHANGED grant
       \/ /\ action = "auto_approve"
          /\ Verified(r, "approved")
          /\ \E g \in FreeGrants :
                grant' = [grant EXCEPT ![g] = NewGrant(r, {})]
    /\ UNCHANGED <<clock, accepted, version, decision, reader>>

(* Fault: the comparison with the cutoff is the wrong way round. *)
FaultySweepable(r) == /\ request[r].status = "unverified"
                      /\ request[r].createdAt + SweepAfter > clock

(* sweepUnverifiedRequests: four link lifetimes after it was created.      *)
Sweepable(r) == /\ request[r].status = "unverified"
                /\ request[r].createdAt + SweepAfter < clock

SweepUnverified ==
    /\ \E r \in Requests : Sweepable(r)
    /\ request' = [r \in Requests |->
                     IF Sweepable(r)
                     THEN [request[r] EXCEPT !.status = "swept", !.linkOpen = FALSE]
                     ELSE request[r]]
    /\ UNCHANGED <<clock, grant, accepted, version, decision, reader>>

-----------------------------------------------------------------------------
(* Fault: no look at whether the request is still to be decided. *)
FaultyDecideOpen(d, r) ==
    /\ decision[d].pc = "idle"
    /\ request[r].status \notin {"none", "unverified", "swept"}
    /\ decision' = [decision EXCEPT ![d].pc = "open", ![d].request = r]
    /\ UNCHANGED <<clock, request, grant, accepted, version, reader>>

(* decideRequest, first statement: a plain SELECT of the request. *)
DecideOpen(d, r) ==
    /\ decision[d].pc = "idle"
    /\ request[r].status \in {"pending", "info_requested"}
    /\ decision' = [decision EXCEPT ![d].pc = "open", ![d].request = r]
    /\ UNCHANGED <<clock, request, grant, accepted, version, reader>>

(* request_info and deny: an UPDATE by id, whatever the status is by now. *)
DecideWithoutGrant(d, status) ==
    /\ decision[d].pc = "open"
    /\ request' = [request EXCEPT ![decision[d].request].status = status]
    /\ decision' = [decision EXCEPT ![d] = IdleDecision]
    /\ UNCHANGED <<clock, grant, accepted, version, reader>>

(* approve: insert the grant and freeze the renderable requirements the    *)
(* approver confirmed.  Until it commits only this transaction sees it.    *)
DecideApprove(d) ==
    /\ decision[d].pc = "open"
    /\ Fits(DueDays)
    /\ \E g \in FreeGrants, required \in SUBSET {t \in Templates : version[t] # 0} :
         decision' = [decision EXCEPT ![d].pc = "minted", ![d].own = g,
                        ![d].row = NewGrant(decision[d].request, required)]
    /\ UNCHANGED <<clock, request, grant, accepted, version, reader>>

(* The return-visit fast path is activateGrants inside the transaction:    *)
(* its instant, the committed grants it lists beside its own...            *)
DecideStart(d) ==
    /\ decision[d].pc = "minted"
    /\ decision' = [decision EXCEPT ![d].pc = "starting", ![d].plan.now = clock]
    /\ UNCHANGED <<clock, request, grant, accepted, version, reader>>

DecideList(d) ==
    /\ decision[d].pc = "starting"
    /\ decision' = [decision EXCEPT ![d].pc = "listed",
                      ![d].plan = Listed(@, Submitter[decision[d].request])]
    /\ UNCHANGED <<clock, request, grant, accepted, version, reader>>

(* ...and the acceptances.  Nobody else sees the transaction's own row, so *)
(* whether it starts is settled here.                                      *)
DecideLookup(d) ==
    LET me == decision[d] IN
    /\ me.pc = "listed"
    /\ \E held \in Found(Submitter[me.request]) :
         decision' = [decision EXCEPT
           ![d].pc = "approving",
           ![d].plan = Chosen(@, held),
           ![d].row = IF StillWaits(me.row, me.plan.now) /\ Satisfied(me.row, held)
                      THEN Started(me.row, Chosen(me.plan, held)) ELSE me.row]
    /\ UNCHANGED <<clock, request, grant, accepted, version, reader>>

(* The transaction commits: grant, started clocks and status together. *)
DecideCommit(d) ==
    /\ decision[d].pc = "approving"
    /\ grant' = [WithStarted(decision[d].plan) EXCEPT
                   ![decision[d].own] = decision[d].row]
    /\ request' = [request EXCEPT ![decision[d].request].status = "approved"]
    /\ decision' = [decision EXCEPT ![d] = IdleDecision]
    /\ UNCHANGED <<clock, accepted, version, reader>>

(* Fault: the status is written outside the transaction that failed. *)
FaultyRollback(d) ==
    /\ decision[d].pc = "approving"
    /\ request' = [request EXCEPT ![decision[d].request].status = "approved"]
    /\ decision' = [decision EXCEPT ![d] = IdleDecision]
    /\ UNCHANGED <<clock, grant, accepted, version, reader>>

(* A refused scope, an unrenderable requirement, a crash: rolled back. *)
DecideRollback(d) ==
    /\ decision[d].pc # "idle"
    /\ decision' = [decision EXCEPT ![d] = IdleDecision]
    /\ UNCHANGED <<clock, request, grant, accepted, version, reader>>

-----------------------------------------------------------------------------
(* The click-through page renders the version in force. *)
OpenAgreement(h, person, t) ==
    /\ reader[h].pc = "idle"
    /\ version[t] # 0
    /\ reader' = [reader EXCEPT ![h].pc = "reading", ![h].person = person,
                                ![h].template = t, ![h].version = version[t]]
    /\ UNCHANGED <<clock, request, grant, accepted, version, decision>>

(* recordAcceptance: only of the version still in force; a double submit   *)
(* is the same row.                                                        *)
RecordAcceptance(h) ==
    LET me == reader[h] IN
    /\ me.pc = "reading"
    /\ me.version = version[me.template]
    /\ accepted' = accepted \cup {[by |-> me.person, template |-> me.template,
                                   version |-> me.version]}
    /\ reader' = [reader EXCEPT ![h].pc = "accepted"]
    /\ UNCHANGED <<clock, request, grant, version, decision>>

VersionMoved(h) ==
    /\ reader[h].pc = "reading"
    /\ reader[h].version # version[reader[h].template]
    /\ reader' = [reader EXCEPT ![h] = IdleReader]
    /\ UNCHANGED <<clock, request, grant, accepted, version, decision>>

(* The signed record could not be rendered, stored or mailed, or the       *)
(* process died: the acceptance is committed, the rest never runs.         *)
HandlerFails(h) ==
    /\ HandlersFail
    /\ reader[h].pc \in {"accepted", "starting", "listed", "activating"}
    /\ reader' = [reader EXCEPT ![h] = IdleReader]
    /\ UNCHANGED <<clock, request, grant, accepted, version, decision>>

(* activateGrants: the instant a clock it starts will run from... *)
ActivateStart(h) ==
    /\ reader[h].pc = "accepted"
    /\ reader' = [reader EXCEPT ![h].pc = "starting", ![h].plan.now = clock]
    /\ UNCHANGED <<clock, request, grant, accepted, version, decision>>

(* ...the signer's grants that wait... *)
ActivateList(h) ==
    /\ reader[h].pc = "starting"
    /\ reader' = [reader EXCEPT ![h].pc = "listed",
                                ![h].plan = Listed(@, reader[h].person)]
    /\ UNCHANGED <<clock, request, grant, accepted, version, decision>>

(* ...the acceptances that cover the signer... *)
ActivateRead(h) ==
    /\ reader[h].pc = "listed"
    /\ \E held \in Found(reader[h].person) :
         reader' = [reader EXCEPT ![h].pc = "activating", ![h].plan = Chosen(@, held)]
    /\ UNCHANGED <<clock, request, grant, accepted, version, decision>>

(* ...and its transaction. *)
ActivateCommit(h) ==
    /\ reader[h].pc = "activating"
    /\ grant' = WithStarted(reader[h].plan)
    /\ reader' = [reader EXCEPT ![h] = IdleReader]
    /\ UNCHANGED <<clock, request, accepted, version, decision>>

-----------------------------------------------------------------------------
(* closeUnacceptedGrants: one UPDATE over every inert grant past its deadline. *)
Lapsed(g) == /\ Inert(g)
             /\ grant[g].revokedAt = Null
             /\ grant[g].closedAt = Null
             /\ grant[g].dueAt # Null
             /\ grant[g].dueAt <= clock

CloseUnaccepted ==
    /\ \E g \in Grants : Lapsed(g)
    /\ grant' = [g \in Grants |-> IF Lapsed(g)
                                  THEN [grant[g] EXCEPT !.closedAt = clock]
                                  ELSE grant[g]]
    /\ UNCHANGED <<clock, request, accepted, version, decision, reader>>

(* revokeGrant: the first revocation is the one that counts. *)
RevokeGrant(g) ==
    /\ Minted(g)
    /\ grant[g].revokedAt = Null
    /\ grant' = [grant EXCEPT ![g].revokedAt = clock]
    /\ UNCHANGED <<clock, request, accepted, version, decision, reader>>

(* publishVersion, seen from here: another version is now in force. *)
PublishVersion(t) ==
    /\ version[t] < MaxVersion
    /\ version' = [version EXCEPT ![t] = @ + 1]
    /\ UNCHANGED <<clock, request, grant, accepted, decision, reader>>

Tick ==
    /\ clock < MaxTime
    /\ clock' = clock + 1
    /\ UNCHANGED <<request, grant, accepted, version, decision, reader>>

Next ==
    \/ \E r \in Requests : SubmitRequest(r) \/ VerifyRequest(r)
    \/ SweepUnverified
    \/ \E d \in Deciders :
          \/ \E r \in Requests : DecideOpen(d, r)
          \/ DecideWithoutGrant(d, "info_requested")
          \/ DecideWithoutGrant(d, "denied")
          \/ DecideApprove(d)
          \/ DecideStart(d)
          \/ DecideList(d)
          \/ DecideLookup(d)
          \/ DecideCommit(d)
          \/ DecideRollback(d)
    \/ \E h \in Readers :
          \/ \E p \in Requesters, t \in Templates : OpenAgreement(h, p, t)
          \/ RecordAcceptance(h)
          \/ VersionMoved(h)
          \/ HandlerFails(h)
          \/ ActivateStart(h)
          \/ ActivateList(h)
          \/ ActivateRead(h)
          \/ ActivateCommit(h)
    \/ CloseUnaccepted
    \/ \E g \in Grants : RevokeGrant(g)
    \/ \E t \in Templates : PublishVersion(t)
    \/ Tick

Spec == Init /\ [][Next]_vars

(* The scheduler starts both sweeps on every tick of their interval and    *)
(* time passes; nobody is obliged to verify, decide, sign or revoke.       *)
FairSpec == Spec /\ WF_vars(Tick) /\ WF_vars(CloseUnaccepted)
                 /\ WF_vars(SweepUnverified)
-----------------------------------------------------------------------------
TypeOK ==
    /\ clock \in Nat \ {0}
    /\ request \in [Requests -> RequestRow]
    /\ grant \in [Grants -> GrantRow]
    /\ accepted \subseteq Acceptance
    /\ version \in [Templates -> Nat]
    /\ decision \in [Deciders -> Decision]
    /\ reader \in [Readers -> Reader]

(* A grant minted with agreements outstanding runs only on recorded        *)
(* acceptances, one for each agreement it requires, made by somebody whose *)
(* signature covers the holder (access_grant_acceptance, activation.ts).   *)
StartedOnAcceptances ==
    \A g \in Grants : Minted(g) /\ grant[g].expiresAt # Null =>
        \A t \in grant[g].required :
            \E a \in grant[g].evidence : /\ a \in accepted
                                        /\ a.template = t
                                        /\ Covers(a.by, Holder(g))

(* However late its transaction commits, and however old the reads it was  *)
(* decided on, the clock of a grant that waited starts before the deadline *)
(* the grant was issued with, and never gives more than one term from now. *)
(* (It may give less: the instant it starts from was fixed before the      *)
(* grants were read, activation.ts:52, even before this one was minted.)   *)
ClockStartsInWindow ==
    \A g \in Grants : Minted(g) /\ grant[g].expiresAt # Null =>
        /\ grant[g].deadline # Null =>
               grant[g].expiresAt < grant[g].deadline + TermDays
        /\ grant[g].expiresAt <= clock + TermDays

(* A grant with no expiry has the deadline it was minted with, so the      *)
(* sweep can find it (access_grant_inert_check).                           *)
WaitingHasDeadline ==
    \A g \in Grants : Inert(g) =>
        grant[g].dueAt # Null /\ grant[g].dueAt = grant[g].deadline

(* "A status without its grant would tell a requester they have access     *)
(* they do not have": whatever other decisions ran meanwhile, a request    *)
(* that reads approved has a grant answering it.                           *)
ApprovedHasGrant ==
    \A r \in Requests : request[r].status = "approved" =>
        \E g \in Grants : grant[g].request = r

(* Two activations, a revocation and a sweep may all race for one grant:   *)
(* a started clock is never rewritten, and the first revocation and the    *)
(* first close are the ones that stay.                                     *)
EndsAreFinal ==
    [][\A g \in Grants : Minted(g) =>
         /\ grant[g].expiresAt # Null => grant'[g].expiresAt = grant[g].expiresAt
         /\ grant[g].revokedAt # Null => grant'[g].revokedAt = grant[g].revokedAt
         /\ grant[g].closedAt # Null => grant'[g].closedAt = grant[g].closedAt]_vars

(* No approval waits for ever: it starts, is revoked, or is closed.        *)
WaitEnds ==
    \A g \in Grants :
        (Inert(g) /\ grant[g].revokedAt = Null /\ grant[g].closedAt = Null)
            ~> (grant[g].expiresAt # Null \/ grant[g].revokedAt # Null
                                         \/ grant[g].closedAt # Null)

(* An address nobody proved they control does not linger: its request is   *)
(* verified or deleted.                                                    *)
UnverifiedEnds ==
    \A r \in Requests :
        request[r].status = "unverified" ~> request[r].status # "unverified"

(* "A second approval would mint a second grant, so a decided request is   *)
(* closed to further decisions" (requests.ts:214-215).                     *)
OneGrantPerRequest ==
    \A g, h \in Grants : Minted(g) /\ grant[g].request = grant[h].request => g = h

(* "One signature covers everyone at that company's email domain", and "a   *)
(* colleague of the person who signed gets access without signing anything" *)
(* (docs/self-hosting.md:457-462): with no decision and no click-through in *)
(* flight, no approval is left waiting for agreements its holder is already *)
(* covered for.                                                             *)
NoStrandedGrant ==
    (/\ \A d \in Deciders : decision[d].pc = "idle"
     /\ \A h \in Readers : reader[h].pc = "idle")
        => \A g \in Grants : Inert(g) =>
             ~ (/\ StillWaits(grant[g], clock)
                /\ Satisfied(grant[g], ValidFor(Holder(g))))

(* "Does not resurrect a closed grant" (tests/unit/nda-activation.test.ts, *)
(* activation.ts:9-12): once the sweep has closed an approval, nothing     *)
(* starts its clock.                                                       *)
ClosedNeverStarts ==
    [][\A g \in Grants : grant[g].closedAt # Null
          => grant'[g].expiresAt = grant[g].expiresAt]_vars

-----------------------------------------------------------------------------
(* The inductive invariant.  A row, committed or still in its transaction, *)
(* keeps its own promises; a plan read earlier is still good when its      *)
(* transaction commits, because what it read of a target never changes:    *)
(* who it is for, what it requires, the deadline it was issued with.       *)
RowOK(row, signed, now) ==
    /\ row.expiresAt # Null =>
          \A t \in row.required :
             \E a \in row.evidence : /\ a \in signed
                                    /\ a.template = t
                                    /\ Covers(a.by, Submitter[row.request])
    /\ row.expiresAt # Null =>
          /\ row.deadline # Null => row.expiresAt < row.deadline + TermDays
          /\ row.expiresAt <= now + TermDays
    /\ row.expiresAt = Null => row.dueAt # Null /\ row.dueAt = row.deadline

HeldOK(held, person, signed) ==
    \A a \in held : a \in signed /\ Covers(a.by, person)

WaitOK(row, plan, person) ==
    /\ row.request \in Requests
    /\ Submitter[row.request] = person
    /\ plan.now < row.deadline

TargetOK(row, plan, person) ==
    /\ WaitOK(row, plan, person)
    /\ row.required \subseteq TemplatesOf(plan.held)

ListOK(plan, person, rows) == \A g \in plan.targets : WaitOK(rows[g], plan, person)

PlanOK(plan, person, rows, signed) ==
    /\ HeldOK(plan.held, person, signed)
    /\ \A g \in plan.targets : TargetOK(rows[g], plan, person)

DecisionOK(d) ==
    LET me == decision[d]
        person == Submitter[me.request]
    IN
    /\ me.pc # "idle" => me.request \in Requests
    /\ me.plan.now <= clock
    /\ Drafting(d) =>
         /\ me.row.request = me.request
         /\ RowOK(me.row, accepted, clock)
         /\ ~ Minted(me.own)
    /\ me.pc = "listed" => ListOK(me.plan, person, grant)
    /\ me.pc = "approving" => PlanOK(me.plan, person, grant, accepted)

ReaderOK(h) ==
    LET me == reader[h] IN
    /\ me.plan.now <= clock
    /\ me.pc = "listed" => ListOK(me.plan, me.person, grant)
    /\ me.pc = "activating" => PlanOK(me.plan, me.person, grant, accepted)

OwnDistinct ==
    \A d, e \in Deciders :
        /\ Drafting(d)
        /\ Drafting(e)
        /\ decision[d].own = decision[e].own
        => d = e

IInv ==
    /\ TypeOK
    /\ \A g \in Grants : Minted(g) => RowOK(grant[g], accepted, clock)
    /\ \A d \in Deciders : DecisionOK(d)
    /\ OwnDistinct
    /\ \A h \in Readers : ReaderOK(h)
    /\ ApprovedHasGrant
==============================================================================

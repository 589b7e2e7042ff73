-------------------------- MODULE AgreementVersions --------------------------
(***************************************************************************)
(* Agreements as their operators and signatories change them               *)
(* (src/lib/server/nda/templates.ts, acceptance.ts, and the pages of       *)
(* /admin/agreements).  A template has numbered versions; a version has a  *)
(* body in some locales, is published by stamping effective_from, and is   *)
(* frozen when it is first accepted.  The version in force is the latest   *)
(* published that is complete in every enabled locale.                     *)
(*                                                                         *)
(* Each operation is split where another transaction can overtake it under *)
(* READ COMMITTED: setVersionBody between reading first_accepted_at and    *)
(* writing the body, the publish page between reading effective_from and   *)
(* stamping it, createVersion under the lock of its template row, and      *)
(* recordAcceptance between checking the version and inserting the row.    *)
(* A text stands for itself and for its sha256.                            *)
(***************************************************************************)
EXTENDS Naturals, FiniteSets

CONSTANTS
    Signers,       \* requesters who may sign
    Agreements,    \* nda_template ids
    MaxVersions,   \* bound: versions per template
    Languages,     \* locales that can be enabled
    Launched,      \* the locales enabled at first
    Texts,         \* bodies, already known to parse
    NoText,        \* "no body in this locale"
    Editors,       \* staff requests in flight at once
    Pages,         \* agreement pages open in browsers at once
    MaxStamp       \* bound: publications

ASSUME VersionsAssumption ==
    /\ MaxVersions \in Nat \ {0} /\ MaxStamp \in Nat
    /\ NoText \notin Texts
    /\ Launched \subseteq Languages /\ Launched # {}

VARIABLES
    retired,       \* templates with retired_at set
    versions,      \* nda_template_version with its bodies
    enabledLocales,\* getConfig().locales
    published,     \* how often something was published: the database's clock
    acceptances,   \* nda_acceptance, with whether an edit was open at the time
    editor,        \* what each staff request has read
    page,          \* what each signatory was shown, and how far signing is
    shown          \* history: the versions that have been in force

versionVars == <<retired, versions, enabledLocales, published, acceptances,
                 editor, page, shown>>

Numbers == 1..MaxVersions

(* One row of nda_template_version and its nda_template_body rows;         *)
(* effectiveFrom 0 is NULL, frozen is first_accepted_at IS NOT NULL.       *)
VersionRow == [exists : BOOLEAN, effectiveFrom : 0..MaxStamp, frozen : BOOLEAN,
               body : [Languages -> Texts \cup {NoText}]]

Idle == [op |-> "idle"]
EditorState ==
    {Idle}
    \cup [op : {"edit", "publish"}, t : Agreements, n : Numbers]
    \cup [op : {"number"}, t : Agreements, n : 1..(MaxVersions + 1)]
PageState ==
    {Idle} \cup [op : {"read", "checked"}, p : Signers, t : Agreements,
                 n : Numbers, text : Texts, overtaken : BOOLEAN]

(* nda_acceptance: the hash it pins is of `text`.                          *)
AcceptanceRow == [p : Signers, t : Agreements, n : Numbers, text : Texts,
                  editOpen : BOOLEAN]
-----------------------------------------------------------------------------
Blank == [exists |-> FALSE, effectiveFrom |-> 0, frozen |-> FALSE,
          body |-> [l \in Languages |-> NoText]]

TextsOf(t, n) == {versions[t][n].body[l] : l \in Languages} \ {NoText}
Missing(t, n) == {l \in enabledLocales : versions[t][n].body[l] = NoText}
PublishedNumbers(t) == {n \in Numbers : versions[t][n].effectiveFrom > 0}

(* effectiveVersion: newest effective_from first, the first one complete   *)
(* in every enabled locale.                                                *)
EffectiveVersion(t) ==
    LET complete == {n \in PublishedNumbers(t) : Missing(t, n) = {}}
    IN  IF complete = {} THEN 0
        ELSE CHOOSE n \in complete : \A m \in complete :
                versions[t][m].effectiveFrom <= versions[t][n].effectiveFrom

(* listTemplates, what the admin pages call effective: highest number      *)
(* first, the first one complete.                                          *)
FaultyListedVersion(t) ==
    LET candidates == PublishedNumbers(t)
    IN  IF candidates = {} THEN 0
        ELSE CHOOSE n \in candidates : \A m \in candidates : m <= n

ListedVersion(t) ==
    LET complete == {n \in PublishedNumbers(t) : Missing(t, n) = {}}
    IN  IF complete = {} THEN 0 ELSE CHOOSE n \in complete : \A m \in complete : m <= n

(* ... and what it says is missing when nothing is complete.               *)
BlockedLocales(t) ==
    IF ListedVersion(t) # 0 \/ PublishedNumbers(t) = {} THEN {}
    ELSE Missing(t, CHOOSE n \in PublishedNumbers(t) :
                        \A m \in PublishedNumbers(t) : m <= n)

CreatedNumbers(t) == {n \in Numbers : versions[t][n].exists}
HighestNumber(t) ==
    IF CreatedNumbers(t) = {} THEN 0
    ELSE CHOOSE n \in CreatedNumbers(t) : \A m \in CreatedNumbers(t) : m <= n
-----------------------------------------------------------------------------
VersionsInit ==
    /\ retired = {}
    /\ versions = [t \in Agreements |-> [n \in Numbers |-> Blank]]
    /\ enabledLocales = Launched
    /\ published = 0
    /\ acceptances = {}
    /\ editor = [e \in Editors |-> Idle]
    /\ page = [g \in Pages |-> Idle]
    /\ shown = {}

(* createVersion: SELECT ... FOR UPDATE on the template, then max().       *)
FaultyNumberOpen(e, t) ==
    /\ editor[e] = Idle
    /\ HighestNumber(t) < MaxVersions
    /\ editor' = [editor EXCEPT ![e] = [op |-> "number", t |-> t, n |-> HighestNumber(t) + 1]]
    /\ UNCHANGED <<retired, versions, enabledLocales, published, acceptances, page>>

NumberOpen(e, t) ==
    /\ editor[e] = Idle
    /\ \A f \in Editors : ~ (editor[f].op = "number" /\ editor[f].t = t)
    /\ HighestNumber(t) < MaxVersions
    /\ editor' = [editor EXCEPT ![e] = [op |-> "number", t |-> t, n |-> HighestNumber(t) + 1]]
    /\ UNCHANGED <<retired, versions, enabledLocales, published, acceptances, page>>

NumberCommit(e) ==
    /\ editor[e].op = "number"
    /\ ~ versions[editor[e].t][editor[e].n].exists
    /\ versions' = [versions EXCEPT ![editor[e].t][editor[e].n].exists = TRUE]
    /\ editor' = [editor EXCEPT ![e] = Idle]
    /\ UNCHANGED <<retired, enabledLocales, published, acceptances, page>>

(* setVersionBody: the version must not have been accepted yet ...         *)
FaultyEditOpen(e, t, n) ==
    /\ editor[e] = Idle
    /\ versions[t][n].exists
    /\ editor' = [editor EXCEPT ![e] = [op |-> "edit", t |-> t, n |-> n]]
    /\ UNCHANGED <<retired, versions, enabledLocales, published, acceptances, page>>

EditOpen(e, t, n) ==
    /\ editor[e] = Idle
    /\ versions[t][n].exists /\ ~ versions[t][n].frozen
    /\ editor' = [editor EXCEPT ![e] = [op |-> "edit", t |-> t, n |-> n]]
    /\ UNCHANGED <<retired, versions, enabledLocales, published, acceptances, page>>

(* ... when the row was read; the upsert does not ask again.  A signature  *)
(* checked and not yet recorded is overtaken, for the properties.          *)
EditCommit(e, l, text) ==
    /\ editor[e].op = "edit"
    /\ l \in enabledLocales
    /\ versions' = [versions EXCEPT ![editor[e].t][editor[e].n].body[l] = text]
    /\ editor' = [editor EXCEPT ![e] = Idle]
    /\ page' = [g \in Pages |->
                  IF /\ page[g].op = "checked"
                     /\ page[g].t = editor[e].t /\ page[g].n = editor[e].n
                  THEN [page[g] EXCEPT !.overtaken = TRUE] ELSE page[g]]
    /\ UNCHANGED <<retired, enabledLocales, published, acceptances>>

(* The publish page refuses a version that has an effective_from ...       *)
PublishOpen(e, t, n) ==
    /\ editor[e] = Idle
    /\ versions[t][n].exists /\ versions[t][n].effectiveFrom = 0
    /\ editor' = [editor EXCEPT ![e] = [op |-> "publish", t |-> t, n |-> n]]
    /\ UNCHANGED <<retired, versions, enabledLocales, published, acceptances, page>>

(* ... and then calls publishVersion, which stamps it whatever it holds.   *)
PublishCommit(e) ==
    /\ editor[e].op = "publish"
    /\ published < MaxStamp
    /\ Missing(editor[e].t, editor[e].n) = {}
    /\ published' = published + 1
    /\ versions' = [versions EXCEPT ![editor[e].t][editor[e].n].effectiveFrom = published + 1]
    /\ editor' = [editor EXCEPT ![e] = Idle]
    /\ UNCHANGED <<retired, enabledLocales, acceptances, page>>

PublishIncomplete(e) ==
    /\ editor[e].op = "publish"
    /\ Missing(editor[e].t, editor[e].n) # {}
    /\ editor' = [editor EXCEPT ![e] = Idle]
    /\ UNCHANGED <<retired, versions, enabledLocales, published, acceptances, page>>

(* retireTemplate sets a mark the admin pages show; nothing else reads it. *)
FaultyRetireTemplate(t) ==                 \* as a delete that cascades
    /\ t \notin retired
    /\ retired' = retired \cup {t}
    /\ acceptances' = {a \in acceptances : a.t # t}
    /\ UNCHANGED <<versions, enabledLocales, published, editor, page>>

RetireTemplate(t) ==
    /\ t \notin retired
    /\ retired' = retired \cup {t}
    /\ UNCHANGED <<versions, enabledLocales, published, acceptances, editor, page>>

(* LOCALES changes with a restart: what was in flight rolls back, pages    *)
(* stay open in their browsers.                                            *)
EnableLocale(l) ==
    /\ l \notin enabledLocales
    /\ enabledLocales' = enabledLocales \cup {l}
    /\ editor' = [e \in Editors |-> Idle]
    /\ page' = [g \in Pages |-> IF page[g].op = "checked"
                                THEN [page[g] EXCEPT !.op = "read", !.overtaken = FALSE]
                                ELSE page[g]]
    /\ UNCHANGED <<retired, versions, published, acceptances>>
-----------------------------------------------------------------------------
(* The agreement page renders one body of the version in force.            *)
ShowAgreement(g, p, t, text) ==
    /\ page[g] = Idle
    /\ EffectiveVersion(t) # 0
    /\ text \in TextsOf(t, EffectiveVersion(t))
    /\ page' = [page EXCEPT ![g] = [op |-> "read", p |-> p, t |-> t,
                                    n |-> EffectiveVersion(t), text |-> text,
                                    overtaken |-> FALSE]]
    /\ UNCHANGED <<retired, versions, enabledLocales, published, acceptances, editor>>

(* recordAcceptance: the version is still in force and one of its bodies   *)
(* still has the hash the page carried.                                    *)
StillAsRead(g) ==
    /\ EffectiveVersion(page[g].t) = page[g].n
    /\ page[g].text \in TextsOf(page[g].t, page[g].n)

SignCheck(g) ==
    /\ page[g].op = "read"
    /\ StillAsRead(g)
    /\ page' = [page EXCEPT ![g].op = "checked"]
    /\ UNCHANGED <<retired, versions, enabledLocales, published, acceptances, editor>>

(* VersionMoved, or the visitor leaves.                                    *)
SignRefused(g) ==
    /\ page[g].op = "read"
    /\ ~ StillAsRead(g)
    /\ page' = [page EXCEPT ![g] = Idle]
    /\ UNCHANGED <<retired, versions, enabledLocales, published, acceptances, editor>>

AcceptedBy(p, t, n) == \E a \in acceptances : a.p = p /\ a.t = t /\ a.n = n

EditIsOpen(t, n) ==
    \E e \in Editors : editor[e].op = "edit" /\ editor[e].t = t /\ editor[e].n = n

(* The insert (one per person and version, a repeat is the same one) and   *)
(* the freeze.  editOpen records, for the properties, whether the text may *)
(* already have moved or still be about to.                                *)
SignCommit(g) ==
    LET s == page[g]
    IN  /\ s.op = "checked"
        /\ IF AcceptedBy(s.p, s.t, s.n)
           THEN UNCHANGED <<acceptances, versions>>
           ELSE /\ acceptances' = acceptances \cup
                     {[p |-> s.p, t |-> s.t, n |-> s.n, text |-> s.text,
                       editOpen |-> EditIsOpen(s.t, s.n) \/ s.overtaken]}
                /\ versions' = [versions EXCEPT ![s.t][s.n].frozen = TRUE]
        /\ page' = [page EXCEPT ![g] = Idle]
        /\ UNCHANGED <<retired, enabledLocales, published, editor>>

VersionSteps ==
    \/ \E e \in Editors :
          \/ \E t \in Agreements : NumberOpen(e, t)
          \/ NumberCommit(e)
          \/ \E t \in Agreements, n \in Numbers : EditOpen(e, t, n) \/ PublishOpen(e, t, n)
          \/ \E l \in Languages, text \in Texts : EditCommit(e, l, text)
          \/ PublishCommit(e)
          \/ PublishIncomplete(e)
    \/ \E t \in Agreements : RetireTemplate(t)
    \/ \E l \in Languages : EnableLocale(l)
    \/ \E g \in Pages :
          \/ \E p \in Signers, t \in Agreements, text \in Texts : ShowAgreement(g, p, t, text)
          \/ SignCheck(g)
          \/ SignRefused(g)
          \/ SignCommit(g)

InForceNow == {<<t, EffectiveVersion(t)>> : t \in {u \in Agreements : EffectiveVersion(u) # 0}}

VersionsNext == VersionSteps /\ shown' = shown \cup InForceNow'

VersionsSpec == VersionsInit /\ [][VersionsNext]_versionVars
-----------------------------------------------------------------------------
VersionsTypeOK ==
    /\ retired \subseteq Agreements
    /\ versions \in [Agreements -> [Numbers -> VersionRow]]
    /\ enabledLocales \subseteq Languages
    /\ published \in 0..MaxStamp
    /\ acceptances \subseteq AcceptanceRow
    /\ editor \in [Editors -> EditorState]
    /\ page \in [Pages -> PageState]
    /\ shown \subseteq Agreements \X Numbers

(* A text somebody signed is still a body of that version, unless an edit  *)
(* had passed its check when the signature was recorded: first_accepted_at *)
(* stops every edit that starts later (templates.ts setVersionBody).       *)
SignedTextStands ==
    \A a \in acceptances : a.text \in TextsOf(a.t, a.n) \/ a.editOpen

(* templates.ts:14, "A version that has been signed cannot change".  An    *)
(* edit that read first_accepted_at before the signature still writes.     *)
SignedTextNeverChanges == \A a \in acceptances : a.text \in TextsOf(a.t, a.n)

(* The lock on the template row lets no createVersion end on the unique    *)
(* index: the number an open one has chosen is free (templates.ts          *)
(* createVersion).                                                         *)
NumbersNeverCollide ==
    \A e \in Editors : editor[e].op = "number" =>
        ~ versions[editor[e].t][editor[e].n].exists

(* The admin list names the version signatories are shown, as long as      *)
(* versions were published in the order of their numbers (templates.ts     *)
(* listTemplates orders by number, effectiveVersion by publication); and   *)
(* it names missing locales exactly when nobody could be shown anything,   *)
(* which is how an operator learns of it.                                  *)
PublishedInOrder(t) ==
    \A m, n \in PublishedNumbers(t) :
        m < n => versions[t][m].effectiveFrom < versions[t][n].effectiveFrom

ListedIsInForce ==
    \A t \in Agreements :
        /\ PublishedInOrder(t) => ListedVersion(t) = EffectiveVersion(t)
        /\ (BlockedLocales(t) # {}) <=> (EffectiveVersion(t) = 0 /\ PublishedNumbers(t) # {})

(* Everything above is an AgreementRegister: signatures are kept, and are  *)
(* of versions that have been in force.                                    *)
Register == INSTANCE AgreementRegister WITH
    Requesters <- Signers,
    Templates <- Agreements,
    MaxVersion <- MaxVersions,
    inForce <- [t \in Agreements |-> EffectiveVersion(t)],
    offered <- shown,
    signed <- {<<a.p, a.t, a.n>> : a \in acceptances}

RegisterKept == Register!RegisterSpec
=============================================================================

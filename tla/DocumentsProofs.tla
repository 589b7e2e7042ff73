-------------------------- MODULE DocumentsProofs ---------------------------
(***************************************************************************)
(* What agreements, the delivery of documents and their files guarantee,   *)
(* for any number of each, of editors, signatories, downloads and uploads. *)
(*                                                                         *)
(* Agreements. A signature recorded with no edit open freezes its version, *)
(* and no edit of it can open after; one recorded beside an open edit says *)
(* so. Every page and every signature is of a version that was in force    *)
(* some time (AgreementInv). The refinement of AgreementRegister follows,  *)
(* and the delivery is proved against that register.                       *)
(*                                                                         *)
(* Delivery. That the queries agree with each other holds in every state:  *)
(* it is a fact about how they are built. That an ended grant serves       *)
(* nothing more needs an invariant: an ended grant stays ended, and the    *)
(* grants a download works with were live when it read them.               *)
(*                                                                         *)
(* Files. A key is drawn once and named once; what a running upload holds  *)
(* is in storage, nobody else's, and not doomed; what is doomed is named   *)
(* by no row, and no row can come to name it (FilesInv).                   *)
(***************************************************************************)
EXTENDS MCDocuments, TLAPS, WellFoundedInduction

(* A number among others below a bound has a greatest one, and so has one  *)
(* by any measure below a bound.                                           *)
LEMMA LessIsWellFounded == IsWellFoundedOn({ss \in Nat \X Nat : ss[1] < ss[2]}, Nat)
  BY NatLessThanWellFounded DEF OpToRel

LEMMA GreatestExists ==
  ASSUME NEW N \in Nat, NEW D \in SUBSET (0..N), D # {}
  PROVE  \E d \in D : \A e \in D : e <= d
  <1> DEFINE R == {ss \in Nat \X Nat : ss[1] < ss[2]}
             T == {N - d : d \in D}
  <1>1. T \subseteq Nat /\ T # {}
    <2>1. \A d \in D : N - d \in Nat
      OBVIOUS
    <2> QED
      BY <2>1
  <1>2. PICK x \in T : \A y \in T : ~ (<<y, x>> \in R)
    <2> HIDE DEF T
    <2> QED
      BY <1>1, LessIsWellFounded, WFMin
  <1>3. PICK d \in D : x = N - d
    OBVIOUS
  <1>4. ASSUME NEW e \in D PROVE e <= d
    <2>1. N - e \in T /\ N - e \in Nat /\ x \in Nat
      BY <1>1
    <2>2. ~ (N - e < x)
      BY <1>2, <2>1
    <2> QED
      BY <1>3, <2>2
  <1> QED
    BY <1>4

LEMMA GreatestBy ==
  ASSUME NEW N \in Nat, NEW S, S # {}, NEW f \in [S -> 0..N]
  PROVE  \E n \in S : \A m \in S : f[m] <= f[n]
  <1> DEFINE D == {f[n] : n \in S}
  <1>1. D \subseteq 0..N /\ D # {}
    OBVIOUS
  <1>2. PICK d \in D : \A e \in D : e <= d
    <2> HIDE DEF D
    <2> QED
      BY <1>1, GreatestExists
  <1> QED
    BY <1>2
-----------------------------------------------------------------------------
(* What the queries of templates.ts return.                                *)
Complete(t) == {n \in PublishedNumbers(t) : Missing(t, n) = {}}

RowsTyped == versions \in [Agreements -> [Numbers -> VersionRow]]

LEMMA BoundsAreNaturals == MaxVersions \in Nat /\ MaxStamp \in Nat /\ NoText \notin Texts
  BY VersionsAssumption

LEMMA RowTypes ==
  ASSUME RowsTyped, NEW t \in Agreements, NEW n \in Numbers
  PROVE  /\ versions[t][n] \in VersionRow
         /\ versions[t][n].exists \in BOOLEAN
         /\ versions[t][n].effectiveFrom \in 0..MaxStamp
         /\ versions[t][n].frozen \in BOOLEAN
         /\ versions[t][n].body \in [Languages -> Texts \cup {NoText}]
  BY DEF RowsTyped, VersionRow

LEMMA HighestIsCreated ==
  ASSUME RowsTyped, NEW t \in Agreements
  PROVE  /\ HighestNumber(t) \in 0..MaxVersions
         /\ \A m \in Numbers : versions[t][m].exists => m <= HighestNumber(t)
  <1>1. CASE CreatedNumbers(t) = {}
    BY <1>1, BoundsAreNaturals DEF HighestNumber, CreatedNumbers
  <1>2. CASE CreatedNumbers(t) # {}
    <2>1. CreatedNumbers(t) \subseteq 0..MaxVersions
      BY BoundsAreNaturals DEF CreatedNumbers, Numbers
    <2>2. \E n \in CreatedNumbers(t) : \A m \in CreatedNumbers(t) : m <= n
      BY <1>2, <2>1, BoundsAreNaturals, GreatestExists
    <2>3. HighestNumber(t) = CHOOSE n \in CreatedNumbers(t) : \A m \in CreatedNumbers(t) : m <= n
      BY <1>2 DEF HighestNumber
    <2>4. /\ HighestNumber(t) \in CreatedNumbers(t)
          /\ \A m \in CreatedNumbers(t) : m <= HighestNumber(t)
      BY <2>2, <2>3
    <2> QED
      BY <2>1, <2>4 DEF CreatedNumbers
  <1> QED
    BY <1>1, <1>2

LEMMA EffectiveIsComplete ==
  ASSUME RowsTyped, NEW t \in Agreements
  PROVE  /\ EffectiveVersion(t) \in 0..MaxVersions
         /\ EffectiveVersion(t) # 0 <=> Complete(t) # {}
         /\ EffectiveVersion(t) # 0 =>
               /\ EffectiveVersion(t) \in Complete(t)
               /\ \A m \in Complete(t) :
                     versions[t][m].effectiveFrom <= versions[t][EffectiveVersion(t)].effectiveFrom
  <1>0. Complete(t) \subseteq Numbers /\ 0 \notin Numbers /\ Numbers \subseteq 0..MaxVersions
    BY BoundsAreNaturals DEF Complete, PublishedNumbers, Numbers
  <1>1. CASE Complete(t) = {}
    <2>1. EffectiveVersion(t) = 0
      BY <1>1 DEF EffectiveVersion, Complete
    <2> QED
      BY <1>1, <2>1, BoundsAreNaturals
  <1>2. CASE Complete(t) # {}
    <2> DEFINE f == [n \in Complete(t) |-> versions[t][n].effectiveFrom]
    <2>1. f \in [Complete(t) -> 0..MaxStamp]
      BY <1>0, RowTypes
    <2>2. \E n \in Complete(t) : \A m \in Complete(t) : f[m] <= f[n]
      <3> HIDE DEF f
      <3> QED
        BY <1>2, <2>1, BoundsAreNaturals, GreatestBy
    <2>3. \E n \in Complete(t) : \A m \in Complete(t) :
              versions[t][m].effectiveFrom <= versions[t][n].effectiveFrom
      BY <2>2
    <2>4. EffectiveVersion(t) = CHOOSE n \in Complete(t) : \A m \in Complete(t) :
              versions[t][m].effectiveFrom <= versions[t][n].effectiveFrom
      BY <1>2 DEF EffectiveVersion, Complete
    <2>5. /\ EffectiveVersion(t) \in Complete(t)
          /\ \A m \in Complete(t) :
                versions[t][m].effectiveFrom <= versions[t][EffectiveVersion(t)].effectiveFrom
      BY <2>3, <2>4
    <2> QED
      BY <1>0, <1>2, <2>5
  <1> QED
    BY <1>1, <1>2

(* A step that leaves a template's dates, its bodies and the locales alone *)
(* leaves what is in force alone.                                          *)
LEMMA EffectiveStays ==
  ASSUME NEW t \in Agreements, enabledLocales' = enabledLocales,
         \A n \in Numbers : /\ versions'[t][n].effectiveFrom = versions[t][n].effectiveFrom
                            /\ versions'[t][n].body = versions[t][n].body
  PROVE  EffectiveVersion(t)' = EffectiveVersion(t)
  <1>1. PublishedNumbers(t)' = PublishedNumbers(t)
    BY DEF PublishedNumbers
  <1>2. \A n \in Numbers : Missing(t, n)' = Missing(t, n)
    BY DEF Missing
  <1>3. Complete(t)' = Complete(t)
    BY <1>1, <1>2 DEF Complete, PublishedNumbers
  <1>4. EffectiveVersion(t) =
            IF Complete(t) = {} THEN 0
            ELSE CHOOSE n \in Complete(t) : \A m \in Complete(t) :
                    versions[t][m].effectiveFrom <= versions[t][n].effectiveFrom
    BY DEF EffectiveVersion, Complete
  <1>5. EffectiveVersion(t)' =
            IF Complete(t)' = {} THEN 0
            ELSE CHOOSE n \in Complete(t)' : \A m \in Complete(t)' :
                    versions'[t][m].effectiveFrom <= versions'[t][n].effectiveFrom
    BY DEF EffectiveVersion, Complete
  <1>6. \A n \in Complete(t) : versions'[t][n].effectiveFrom = versions[t][n].effectiveFrom
    BY DEF Complete, PublishedNumbers
  <1>7. PICK S : S = Complete(t)
    OBVIOUS
  <1> DEFINE Before == CHOOSE n \in S : \A m \in S :
                           versions[t][m].effectiveFrom <= versions[t][n].effectiveFrom
             After == CHOOSE n \in S : \A m \in S :
                           versions'[t][m].effectiveFrom <= versions'[t][n].effectiveFrom
  <1>8. EffectiveVersion(t) = IF S = {} THEN 0 ELSE Before
    BY ONLY <1>4, <1>7
  <1>9. EffectiveVersion(t)' = IF S = {} THEN 0 ELSE After
    BY ONLY <1>3, <1>5, <1>7
  <1>10. Before = After
    BY ONLY <1>6, <1>7
  <1> HIDE DEF Before, After
  <1> QED
    BY ONLY <1>8, <1>9, <1>10
-----------------------------------------------------------------------------
(* The number an open createVersion has chosen is above all there are, and *)
(* its template is locked.                                                 *)
NumbersChosen ==
    \A e \in Editors : editor[e].op = "number" =>
        /\ editor[e].n \in Numbers
        /\ \A m \in Numbers : versions[editor[e].t][m].exists => m < editor[e].n
        /\ \A f \in Editors :
              editor[f].op = "number" /\ editor[f].t = editor[e].t => f = e

(* A page shows a version that was in force; between the check and the     *)
(* insert its text is a body of it, unless an edit overtook.               *)
PagesHold ==
    \A g \in Pages : page[g].op \in {"read", "checked"} =>
        /\ <<page[g].t, page[g].n>> \in shown
        /\ page[g].op = "checked" /\ ~ page[g].overtaken =>
              page[g].text \in TextsOf(page[g].t, page[g].n)

(* A signature is of a version that was in force; one recorded with no     *)
(* edit open froze its text.                                               *)
SignaturesHold ==
    \A a \in acceptances :
        /\ <<a.t, a.n>> \in shown
        /\ ~ a.editOpen => /\ a.text \in TextsOf(a.t, a.n)
                           /\ versions[a.t][a.n].frozen
                           /\ ~ EditIsOpen(a.t, a.n)

ShownIsKept == InForceNow \subseteq shown

AgreementInv ==
    /\ VersionsTypeOK
    /\ NumbersChosen
    /\ PagesHold
    /\ SignaturesHold
    /\ ShownIsKept

(* What every open request and page is, field by field.                    *)
LEMMA EditorFields ==
  ASSUME VersionsTypeOK, NEW e \in Editors
  PROVE  /\ editor[e].op \in {"idle", "edit", "publish", "number"}
         /\ editor[e].op = "idle" <=> editor[e] = Idle
         /\ editor[e].op # "idle" => editor[e].t \in Agreements
         /\ editor[e].op \in {"edit", "publish"} => editor[e].n \in Numbers
         /\ editor[e].op = "number" => editor[e].n \in 1..(MaxVersions + 1)
  <1>1. editor[e] \in EditorState
    BY DEF VersionsTypeOK
  <1> QED
    BY <1>1 DEF EditorState, Idle

LEMMA PageFields ==
  ASSUME VersionsTypeOK, NEW g \in Pages
  PROVE  /\ page[g].op \in {"idle", "read", "checked"}
         /\ page[g].op = "idle" <=> page[g] = Idle
         /\ page[g].op # "idle" =>
               /\ page[g] \in [op : {"read", "checked"}, p : Signers, t : Agreements,
                               n : Numbers, text : Texts, overtaken : BOOLEAN]
               /\ page[g].p \in Signers /\ page[g].t \in Agreements /\ page[g].n \in Numbers
               /\ page[g].text \in Texts /\ page[g].overtaken \in BOOLEAN
  <1>1. page[g] \in PageState
    BY DEF VersionsTypeOK
  <1> QED
    BY <1>1 DEF PageState, Idle

LEMMA InForceIsNumber ==
  RowsTyped => \A t \in Agreements : EffectiveVersion(t) \in 0..MaxVersions
  BY EffectiveIsComplete

LEMMA InForceIsNumberNext ==
  ASSUME RowsTyped' PROVE \A t \in Agreements : EffectiveVersion(t)' \in 0..MaxVersions
  <1>1. (RowsTyped => \A t \in Agreements : EffectiveVersion(t) \in 0..MaxVersions)'
    BY InForceIsNumber, PTL
  <1> QED
    BY <1>1

LEMMA AcceptanceFields ==
  ASSUME VersionsTypeOK, NEW a \in acceptances
  PROVE  /\ a.p \in Signers /\ a.t \in Agreements /\ a.n \in Numbers /\ a.text \in Texts
         /\ a.editOpen \in BOOLEAN
  <1>1. a \in AcceptanceRow
    BY DEF VersionsTypeOK
  <1> QED
    BY <1>1 DEF AcceptanceRow

LEMMA AgreementsStart == VersionsInit => AgreementInv
  <1> SUFFICES ASSUME VersionsInit PROVE AgreementInv
    OBVIOUS
  <1>0. RowsTyped /\ \A t \in Agreements, n \in Numbers : versions[t][n].effectiveFrom = 0
    BY BoundsAreNaturals DEF VersionsInit, RowsTyped, VersionRow, Blank
  <1>1. VersionsTypeOK
    BY <1>0, BoundsAreNaturals, VersionsAssumption
    DEF VersionsInit, VersionsTypeOK, EditorState, PageState, RowsTyped
  <1>2. \A t \in Agreements : EffectiveVersion(t) = 0
    <2>1. \A t \in Agreements : PublishedNumbers(t) = {}
      BY <1>0 DEF PublishedNumbers
    <2> QED
      BY <2>1, <1>0, EffectiveIsComplete DEF Complete
  <1>3. ShownIsKept
    BY <1>2 DEF ShownIsKept, InForceNow
  <1>4. NumbersChosen /\ PagesHold /\ SignaturesHold
    BY DEF VersionsInit, NumbersChosen, PagesHold, SignaturesHold, Idle
  <1> QED
    BY <1>1, <1>3, <1>4 DEF AgreementInv

(* All of the invariant that a handler can disturb; what is shown only     *)
(* grows.                                                                  *)
TypedBut ==
    /\ retired \subseteq Agreements
    /\ RowsTyped
    /\ enabledLocales \subseteq Languages
    /\ published \in 0..MaxStamp
    /\ acceptances \subseteq AcceptanceRow
    /\ editor \in [Editors -> EditorState]
    /\ page \in [Pages -> PageState]

Kept == TypedBut /\ NumbersChosen /\ PagesHold /\ SignaturesHold

Growing == shown \subseteq shown'

(* A step that leaves pages, signatures and texts alone and opens no edit. *)
LEMMA ReadersUndisturbed ==
  ASSUME AgreementInv, Growing, page' = page, acceptances' = acceptances,
         \A u \in Agreements, m \in Numbers :
            /\ versions'[u][m].body = versions[u][m].body
            /\ versions'[u][m].frozen = versions[u][m].frozen
            /\ EditIsOpen(u, m)' => EditIsOpen(u, m)
  PROVE  PagesHold' /\ SignaturesHold'
  <1>0. VersionsTypeOK /\ PagesHold /\ SignaturesHold
    BY DEF AgreementInv
  <1>1. \A u \in Agreements, m \in Numbers : TextsOf(u, m)' = TextsOf(u, m)
    BY DEF TextsOf
  <1>2. ASSUME NEW g \in Pages, page'[g].op \in {"read", "checked"}
        PROVE  /\ <<page'[g].t, page'[g].n>> \in shown'
               /\ page'[g].op = "checked" /\ ~ page'[g].overtaken =>
                     page'[g].text \in TextsOf(page[g].t, page[g].n)'
    <2>1. page[g].t \in Agreements /\ page[g].n \in Numbers
      BY <1>0, <1>2, PageFields
    <2>2. page'[g].text \in TextsOf(page[g].t, page[g].n) <=>
              page'[g].text \in TextsOf(page[g].t, page[g].n)'
      BY SMTT(30), <2>1 DEF TextsOf
    <2> QED
      BY <1>0, <1>2, <2>1, <2>2 DEF PagesHold, Growing
  <1>3. ASSUME NEW a \in acceptances
        PROVE  /\ <<a.t, a.n>> \in shown'
               /\ ~ a.editOpen => /\ a.text \in TextsOf(a.t, a.n)'
                                  /\ versions'[a.t][a.n].frozen
                                  /\ ~ EditIsOpen(a.t, a.n)'
    <2>1. a.t \in Agreements /\ a.n \in Numbers
      BY <1>0, AcceptanceFields
    <2> QED
      BY <1>0, <1>1, <2>1 DEF SignaturesHold, Growing
  <1> QED
    BY <1>2, <1>3 DEF PagesHold, SignaturesHold

(* A step that creates no version and opens no createVersion.              *)
LEMMA NumbersUndisturbed ==
  ASSUME AgreementInv,
         \A u \in Agreements, m \in Numbers : versions'[u][m].exists = versions[u][m].exists,
         \A f \in Editors : editor'[f].op = "number" => editor'[f] = editor[f]
  PROVE  NumbersChosen'
  <1>1. VersionsTypeOK /\ NumbersChosen
    BY DEF AgreementInv
  <1> QED
    BY <1>1, EditorFields DEF NumbersChosen

(* A row of nda_template_version is written.                               *)
LEMMA RowWritten ==
  ASSUME RowsTyped, NEW t \in Agreements, NEW n \in Numbers, NEW row \in VersionRow,
         versions' = [versions EXCEPT ![t] = [versions[t] EXCEPT ![n] = row]]
  PROVE  /\ RowsTyped'
         /\ versions'[t][n] = row
         /\ \A u \in Agreements, m \in Numbers :
               <<u, m>> # <<t, n>> => versions'[u][m] = versions[u][m]
  BY DEF RowsTyped

LEMMA NumberOpenKeeps ==
  ASSUME AgreementInv, Growing, NEW e \in Editors, NEW t \in Agreements, NumberOpen(e, t)
  PROVE  Kept'
  <1>0. /\ VersionsTypeOK /\ RowsTyped /\ editor[e].op = "idle"
        /\ UNCHANGED <<retired, versions, enabledLocales, published, acceptances, page>>
    BY EditorFields DEF AgreementInv, VersionsTypeOK, RowsTyped, NumberOpen, Idle
  <1> DEFINE n == HighestNumber(t) + 1
  <1>1. n \in Numbers /\ \A m \in Numbers : versions[t][m].exists => m < n
    BY <1>0, HighestIsCreated, BoundsAreNaturals DEF NumberOpen, Numbers
  <1> HIDE DEF n
  <1>2. editor' = [editor EXCEPT ![e] = [op |-> "number", t |-> t, n |-> n]]
    BY DEF NumberOpen, n
  <1>3. TypedBut'
    <2>1. [op |-> "number", t |-> t, n |-> n] \in EditorState
      BY <1>1, BoundsAreNaturals DEF EditorState, Numbers
    <2> QED
      BY <1>0, <1>2, <2>1 DEF TypedBut, VersionsTypeOK, RowsTyped
  <1>4. /\ editor'[e].op = "number" /\ editor'[e].t = t /\ editor'[e].n = n
        /\ \A f \in Editors \ {e} : editor'[f] = editor[f]
    BY <1>0, <1>2 DEF VersionsTypeOK
  <1>5. NumbersChosen'
    BY <1>0, <1>1, <1>4 DEF NumbersChosen, NumberOpen, AgreementInv
  <1>6. \A u \in Agreements, m \in Numbers : EditIsOpen(u, m)' <=> EditIsOpen(u, m)
    BY <1>0, <1>4 DEF EditIsOpen
  <1>7. PagesHold' /\ SignaturesHold'
    BY <1>0, <1>6, ReadersUndisturbed
  <1> QED
    BY <1>3, <1>5, <1>7 DEF Kept

LEMMA NumberCommitKeeps ==
  ASSUME AgreementInv, Growing, NEW e \in Editors, NumberCommit(e),
         NEW t, NEW n, t = editor[e].t, n = editor[e].n
  PROVE  Kept'
  <1>0. /\ VersionsTypeOK /\ RowsTyped /\ editor[e].op = "number"
        /\ t \in Agreements /\ n \in Numbers
        /\ UNCHANGED <<retired, enabledLocales, published, acceptances, page>>
    BY EditorFields DEF AgreementInv, VersionsTypeOK, RowsTyped, NumberCommit, NumbersChosen
  <1>1. /\ RowsTyped'
        /\ versions'[t][n].exists
        /\ \A u \in Agreements, m \in Numbers :
              /\ <<u, m>> # <<t, n>> => versions'[u][m] = versions[u][m]
              /\ versions'[u][m].body = versions[u][m].body
              /\ versions'[u][m].frozen = versions[u][m].frozen
    <2> DEFINE row == [versions[t][n] EXCEPT !.exists = TRUE]
    <2>1. versions[t][n] \in VersionRow
      BY <1>0, RowTypes
    <2>2. /\ row \in VersionRow /\ row.exists
          /\ row.body = versions[t][n].body /\ row.frozen = versions[t][n].frozen
      BY ONLY <2>1 DEF VersionRow
    <2>3. versions' = [versions EXCEPT ![t] = [versions[t] EXCEPT ![n] = row]]
      BY <1>0 DEF NumberCommit
    <2> HIDE DEF row
    <2>4. /\ RowsTyped'
          /\ versions'[t][n] = row
          /\ \A u \in Agreements, m \in Numbers :
                <<u, m>> # <<t, n>> => versions'[u][m] = versions[u][m]
      BY ZenonT(40), <1>0, <2>2, <2>3, RowWritten
    <2> QED
      BY <2>2, <2>4
  <1>2. /\ editor' \in [Editors -> EditorState] /\ editor'[e].op = "idle"
        /\ \A f \in Editors \ {e} : editor'[f] = editor[f]
    BY <1>0 DEF NumberCommit, VersionsTypeOK, EditorState, Idle
  <1>3. TypedBut'
    BY <1>0, <1>1, <1>2 DEF TypedBut, VersionsTypeOK, RowsTyped
  <1>4. NumbersChosen'
    <2> SUFFICES ASSUME NEW f \in Editors, editor'[f].op = "number"
                 PROVE  /\ editor'[f].n \in Numbers
                        /\ \A m \in Numbers : versions'[editor'[f].t][m].exists => m < editor'[f].n
                        /\ \A h \in Editors :
                              editor'[h].op = "number" /\ editor'[h].t = editor'[f].t => h = f
      BY DEF NumbersChosen
    <2>1. f # e /\ editor'[f] = editor[f]
      BY <1>2
    <2>2. editor[f].t # t /\ editor[f].t \in Agreements
      BY <1>0, <2>1, EditorFields DEF NumbersChosen, AgreementInv
    <2> QED
      BY <1>1, <1>2, <2>1, <2>2 DEF NumbersChosen, AgreementInv
  <1>5. \A u \in Agreements, m \in Numbers : EditIsOpen(u, m)' <=> EditIsOpen(u, m)
    BY <1>0, <1>2 DEF EditIsOpen
  <1>6. PagesHold' /\ SignaturesHold'
    BY <1>0, <1>1, <1>5, ReadersUndisturbed
  <1> QED
    BY <1>3, <1>4, <1>6 DEF Kept

LEMMA EditOpenKeeps ==
  ASSUME AgreementInv, Growing, NEW e \in Editors, NEW t \in Agreements, NEW n \in Numbers,
         EditOpen(e, t, n)
  PROVE  Kept'
  <1>0. /\ VersionsTypeOK /\ RowsTyped /\ editor[e].op = "idle"
        /\ UNCHANGED <<retired, versions, enabledLocales, published, acceptances, page>>
    BY EditorFields DEF AgreementInv, VersionsTypeOK, RowsTyped, EditOpen, Idle
  <1>1. editor' = [editor EXCEPT ![e] = [op |-> "edit", t |-> t, n |-> n]]
    BY DEF EditOpen
  <1>2. [op |-> "edit", t |-> t, n |-> n] \in EditorState
    BY DEF EditorState
  <1>3. TypedBut'
    BY <1>0, <1>1, <1>2 DEF TypedBut, VersionsTypeOK, RowsTyped
  <1>4. /\ editor'[e].op = "edit" /\ editor'[e].t = t /\ editor'[e].n = n
        /\ \A f \in Editors \ {e} : editor'[f] = editor[f]
    BY <1>0, <1>1 DEF VersionsTypeOK
  <1>5. NumbersChosen'
    BY <1>0, <1>4, NumbersUndisturbed
  <1>6. \A u \in Agreements, m \in Numbers :
            EditIsOpen(u, m)' => EditIsOpen(u, m) \/ ~ versions[u][m].frozen
    BY <1>0, <1>4 DEF EditIsOpen, EditOpen
  <1>7. PagesHold'
    BY <1>0 DEF AgreementInv, PagesHold, Growing, TextsOf
  <1>8. SignaturesHold'
    <2> SUFFICES ASSUME NEW a \in acceptances
                 PROVE  /\ <<a.t, a.n>> \in shown'
                        /\ ~ a.editOpen => /\ a.text \in TextsOf(a.t, a.n)
                                           /\ versions[a.t][a.n].frozen
                                           /\ ~ EditIsOpen(a.t, a.n)'
      BY <1>0 DEF SignaturesHold, TextsOf
    <2> QED
      BY <1>0, <1>6, AcceptanceFields DEF AgreementInv, SignaturesHold, Growing
  <1> QED
    BY <1>3, <1>5, <1>7, <1>8 DEF Kept

LEMMA EditCommitKeeps ==
  ASSUME AgreementInv, Growing, NEW e \in Editors, NEW l \in Languages, NEW text \in Texts,
         EditCommit(e, l, text), NEW t, NEW n, t = editor[e].t, n = editor[e].n
  PROVE  Kept'
  <1>0. /\ VersionsTypeOK /\ RowsTyped /\ editor[e].op = "edit"
        /\ t \in Agreements /\ n \in Numbers
        /\ UNCHANGED <<retired, enabledLocales, published, acceptances>>
    BY EditorFields DEF AgreementInv, VersionsTypeOK, RowsTyped, EditCommit
  <1>1. /\ RowsTyped'
        /\ \A u \in Agreements, m \in Numbers :
              /\ <<u, m>> # <<t, n>> => versions'[u][m] = versions[u][m]
              /\ versions'[u][m].exists = versions[u][m].exists
              /\ versions'[u][m].frozen = versions[u][m].frozen
    <2> DEFINE row == [versions[t][n] EXCEPT !.body = [versions[t][n].body EXCEPT ![l] = text]]
    <2>1. /\ versions[t][n] \in VersionRow
          /\ versions[t][n].body \in [Languages -> Texts \cup {NoText}]
      BY <1>0, RowTypes
    <2>2. [versions[t][n].body EXCEPT ![l] = text] \in [Languages -> Texts \cup {NoText}]
      BY ONLY <2>1, l \in Languages, text \in Texts
    <2>3. /\ row \in VersionRow
          /\ row.exists = versions[t][n].exists /\ row.frozen = versions[t][n].frozen
      BY ONLY <2>1, <2>2 DEF VersionRow
    <2>4. versions' = [versions EXCEPT ![t] = [versions[t] EXCEPT ![n] = row]]
      BY <1>0 DEF EditCommit
    <2> HIDE DEF row
    <2>5. /\ RowsTyped'
          /\ versions'[t][n] = row
          /\ \A u \in Agreements, m \in Numbers :
                <<u, m>> # <<t, n>> => versions'[u][m] = versions[u][m]
      BY ZenonT(40), <1>0, <2>3, <2>4, RowWritten
    <2> QED
      BY <2>3, <2>5
  <1>2. /\ editor' \in [Editors -> EditorState] /\ editor'[e].op = "idle"
        /\ \A f \in Editors \ {e} : editor'[f] = editor[f]
    BY <1>0 DEF EditCommit, VersionsTypeOK, EditorState, Idle
  <1>3. \A g \in Pages :
           /\ page'[g] \in PageState
           /\ page'[g] = page[g] \/ page'[g] = [page[g] EXCEPT !.overtaken = TRUE]
           /\ page[g].op = "checked" /\ page[g].t = t /\ page[g].n = n => page'[g].overtaken
    <2> SUFFICES ASSUME NEW g \in Pages
                 PROVE  /\ page'[g] \in PageState
                        /\ page'[g] = page[g] \/ page'[g] = [page[g] EXCEPT !.overtaken = TRUE]
                        /\ page[g].op = "checked" /\ page[g].t = t /\ page[g].n = n
                              => page'[g].overtaken
      OBVIOUS
    <2>1. page'[g] = IF page[g].op = "checked" /\ page[g].t = t /\ page[g].n = n
                     THEN [page[g] EXCEPT !.overtaken = TRUE] ELSE page[g]
      BY DEF EditCommit
    <2>2. CASE page[g].op = "checked"
      <3>1. page[g] \in [op : {"read", "checked"}, p : Signers, t : Agreements,
                         n : Numbers, text : Texts, overtaken : BOOLEAN]
        BY <1>0, <2>2, PageFields
      <3>2. /\ [page[g] EXCEPT !.overtaken = TRUE] \in
                  [op : {"read", "checked"}, p : Signers, t : Agreements,
                   n : Numbers, text : Texts, overtaken : BOOLEAN]
            /\ [page[g] EXCEPT !.overtaken = TRUE].overtaken
        BY ONLY <3>1
      <3> QED
        BY <2>1, <3>1, <3>2 DEF PageState
    <2>3. CASE page[g].op # "checked"
      BY <1>0, <2>1, <2>3 DEF VersionsTypeOK
    <2> QED
      BY <2>2, <2>3
  <1>4. TypedBut'
    <2>1. page' \in [Pages -> PageState]
      BY <1>3 DEF EditCommit
    <2> QED
      BY <1>0, <1>1, <1>2, <2>1 DEF TypedBut, VersionsTypeOK
  <1>5. NumbersChosen'
    BY <1>1, <1>2, NumbersUndisturbed
  <1>6. PagesHold'
    <2> SUFFICES ASSUME NEW g \in Pages, page'[g].op \in {"read", "checked"}
                 PROVE  /\ <<page'[g].t, page'[g].n>> \in shown'
                        /\ page'[g].op = "checked" /\ ~ page'[g].overtaken =>
                              page'[g].text \in TextsOf(page[g].t, page[g].n)'
      BY DEF PagesHold, TextsOf
    <2>1. /\ page[g].op = page'[g].op /\ page[g].t = page'[g].t /\ page[g].n = page'[g].n
          /\ page[g].text = page'[g].text
          /\ page[g].t \in Agreements /\ page[g].n \in Numbers
          /\ ~ page'[g].overtaken => page'[g] = page[g]
      <3>1. page[g].op # "idle"
        <4>1. CASE page'[g] = page[g]
          BY <4>1
        <4>2. CASE page'[g] = [page[g] EXCEPT !.overtaken = TRUE]
          <5>1. page[g] = Idle => page'[g] = Idle
            BY <4>2 DEF Idle
          <5> QED
            BY <1>0, <5>1, PageFields DEF Idle
        <4> QED
          BY <1>3, <4>1, <4>2
      <3>2. page[g] \in [op : {"read", "checked"}, p : Signers, t : Agreements,
                         n : Numbers, text : Texts, overtaken : BOOLEAN]
        BY <1>0, <3>1, PageFields
      <3> QED
        BY <1>3, <3>2
    <2>2. page'[g].op = "checked" /\ ~ page'[g].overtaken =>
              <<page[g].t, page[g].n>> # <<t, n>>
      BY <1>3, <2>1
    <2>3. <<page[g].t, page[g].n>> \in shown
      BY <1>0, <2>1 DEF AgreementInv, PagesHold
    <2>4. ASSUME page'[g].op = "checked", ~ page'[g].overtaken
          PROVE  page[g].text \in TextsOf(page[g].t, page[g].n)
      BY <2>1, <2>4 DEF AgreementInv, PagesHold
    <2>5. ASSUME page'[g].op = "checked", ~ page'[g].overtaken
          PROVE  versions'[page[g].t][page[g].n] = versions[page[g].t][page[g].n]
      BY <1>1, <2>1, <2>2, <2>5
    <2> QED
      BY <2>1, <2>3, <2>4, <2>5 DEF Growing, TextsOf
  <1>7. SignaturesHold'
    <2>1. \A u \in Agreements, m \in Numbers : EditIsOpen(u, m)' => EditIsOpen(u, m)
      BY <1>2 DEF EditIsOpen
    <2>2. EditIsOpen(t, n)
      BY <1>0 DEF EditIsOpen
    <2> SUFFICES ASSUME NEW a \in acceptances
                 PROVE  /\ <<a.t, a.n>> \in shown'
                        /\ ~ a.editOpen => /\ a.text \in TextsOf(a.t, a.n)'
                                           /\ versions'[a.t][a.n].frozen
                                           /\ ~ EditIsOpen(a.t, a.n)'
      BY <1>0 DEF SignaturesHold
    <2>3. a.t \in Agreements /\ a.n \in Numbers
      BY <1>0, AcceptanceFields
    <2>4. ~ a.editOpen => <<a.t, a.n>> # <<t, n>>
      BY <2>2 DEF AgreementInv, SignaturesHold
    <2>5. ~ a.editOpen => TextsOf(a.t, a.n)' = TextsOf(a.t, a.n)
      BY <1>1, <2>3, <2>4 DEF TextsOf
    <2> QED
      BY <1>1, <2>1, <2>3, <2>5 DEF AgreementInv, SignaturesHold, Growing
  <1> QED
    BY <1>4, <1>5, <1>6, <1>7 DEF Kept

LEMMA PublishOpenKeeps ==
  ASSUME AgreementInv, Growing, NEW e \in Editors, NEW t \in Agreements, NEW n \in Numbers,
         PublishOpen(e, t, n)
  PROVE  Kept'
  <1>0. /\ VersionsTypeOK /\ RowsTyped /\ editor[e].op = "idle"
        /\ UNCHANGED <<retired, versions, enabledLocales, published, acceptances, page>>
    BY EditorFields DEF AgreementInv, VersionsTypeOK, RowsTyped, PublishOpen, Idle
  <1>1. editor' = [editor EXCEPT ![e] = [op |-> "publish", t |-> t, n |-> n]]
    BY DEF PublishOpen
  <1>2. [op |-> "publish", t |-> t, n |-> n] \in EditorState
    BY DEF EditorState
  <1>3. TypedBut'
    BY <1>0, <1>1, <1>2 DEF TypedBut, VersionsTypeOK, RowsTyped
  <1>4. editor'[e].op = "publish" /\ \A f \in Editors \ {e} : editor'[f] = editor[f]
    BY <1>0, <1>1 DEF VersionsTypeOK
  <1>5. NumbersChosen'
    BY <1>0, <1>4, NumbersUndisturbed
  <1>6. \A u \in Agreements, m \in Numbers : EditIsOpen(u, m)' => EditIsOpen(u, m)
    BY <1>4 DEF EditIsOpen
  <1>7. PagesHold' /\ SignaturesHold'
    BY <1>0, <1>6, ReadersUndisturbed
  <1> QED
    BY <1>3, <1>5, <1>7 DEF Kept

LEMMA PublishCommitKeeps ==
  ASSUME AgreementInv, Growing, NEW e \in Editors, PublishCommit(e),
         NEW t, NEW n, t = editor[e].t, n = editor[e].n
  PROVE  Kept'
  <1>0. /\ VersionsTypeOK /\ RowsTyped /\ editor[e].op = "publish"
        /\ t \in Agreements /\ n \in Numbers /\ published \in 0..MaxStamp
        /\ UNCHANGED <<retired, enabledLocales, acceptances, page>>
    BY EditorFields DEF AgreementInv, VersionsTypeOK, RowsTyped, PublishCommit
  <1>1. published' = published + 1 /\ published' \in 0..MaxStamp
    BY <1>0, BoundsAreNaturals DEF PublishCommit
  <1>2. /\ RowsTyped'
        /\ \A u \in Agreements, m \in Numbers :
              /\ versions'[u][m].exists = versions[u][m].exists
              /\ versions'[u][m].frozen = versions[u][m].frozen
              /\ versions'[u][m].body = versions[u][m].body
    <2> DEFINE row == [versions[t][n] EXCEPT !.effectiveFrom = published + 1]
    <2>1. versions[t][n] \in VersionRow
      BY <1>0, RowTypes
    <2>2. /\ row \in VersionRow /\ row.body = versions[t][n].body
          /\ row.exists = versions[t][n].exists /\ row.frozen = versions[t][n].frozen
      BY ONLY <1>1, <2>1 DEF VersionRow
    <2>3. versions' = [versions EXCEPT ![t] = [versions[t] EXCEPT ![n] = row]]
      BY <1>0 DEF PublishCommit
    <2> HIDE DEF row
    <2>4. /\ RowsTyped'
          /\ versions'[t][n] = row
          /\ \A u \in Agreements, m \in Numbers :
                <<u, m>> # <<t, n>> => versions'[u][m] = versions[u][m]
      BY <1>0, <2>2, <2>3, RowWritten
    <2> QED
      BY <2>2, <2>4
  <1>3. /\ editor' \in [Editors -> EditorState] /\ editor'[e].op = "idle"
        /\ \A f \in Editors \ {e} : editor'[f] = editor[f]
    BY <1>0 DEF PublishCommit, VersionsTypeOK, EditorState, Idle
  <1>4. TypedBut'
    BY <1>0, <1>1, <1>2, <1>3 DEF TypedBut, VersionsTypeOK
  <1>5. NumbersChosen'
    BY <1>2, <1>3, NumbersUndisturbed
  <1>6. \A u \in Agreements, m \in Numbers : EditIsOpen(u, m)' => EditIsOpen(u, m)
    BY <1>3 DEF EditIsOpen
  <1>7. PagesHold' /\ SignaturesHold'
    BY <1>0, <1>2, <1>6, ReadersUndisturbed
  <1> QED
    BY <1>4, <1>5, <1>7 DEF Kept

LEMMA PublishIncompleteKeeps ==
  ASSUME AgreementInv, Growing, NEW e \in Editors, PublishIncomplete(e)
  PROVE  Kept'
  <1>0. /\ VersionsTypeOK /\ RowsTyped
        /\ UNCHANGED <<retired, versions, enabledLocales, published, acceptances, page>>
    BY DEF AgreementInv, VersionsTypeOK, RowsTyped, PublishIncomplete
  <1>1. /\ editor' \in [Editors -> EditorState] /\ editor'[e].op = "idle"
        /\ \A f \in Editors \ {e} : editor'[f] = editor[f]
    BY <1>0 DEF PublishIncomplete, VersionsTypeOK, EditorState, Idle
  <1>2. TypedBut'
    BY <1>0, <1>1 DEF TypedBut, VersionsTypeOK, RowsTyped
  <1>3. NumbersChosen'
    BY <1>0, <1>1, NumbersUndisturbed
  <1>4. \A u \in Agreements, m \in Numbers : EditIsOpen(u, m)' => EditIsOpen(u, m)
    BY <1>1 DEF EditIsOpen
  <1>5. PagesHold' /\ SignaturesHold'
    BY <1>0, <1>4, ReadersUndisturbed
  <1> QED
    BY <1>2, <1>3, <1>5 DEF Kept

LEMMA RetireTemplateKeeps ==
  ASSUME AgreementInv, Growing, NEW t \in Agreements, RetireTemplate(t)
  PROVE  Kept'
  <1>0. /\ VersionsTypeOK /\ RowsTyped
        /\ UNCHANGED <<versions, enabledLocales, published, acceptances, editor, page>>
    BY DEF AgreementInv, VersionsTypeOK, RowsTyped, RetireTemplate
  <1>1. TypedBut'
    BY <1>0 DEF TypedBut, VersionsTypeOK, RowsTyped, RetireTemplate
  <1>2. NumbersChosen'
    BY <1>0, NumbersUndisturbed
  <1>3. \A u \in Agreements, m \in Numbers : EditIsOpen(u, m)' => EditIsOpen(u, m)
    BY <1>0 DEF EditIsOpen
  <1>4. PagesHold' /\ SignaturesHold'
    BY <1>0, <1>3, ReadersUndisturbed
  <1> QED
    BY <1>1, <1>2, <1>4 DEF Kept

LEMMA EnableLocaleKeeps ==
  ASSUME AgreementInv, Growing, NEW l \in Languages, EnableLocale(l)
  PROVE  Kept'
  <1>0. /\ VersionsTypeOK /\ RowsTyped
        /\ UNCHANGED <<retired, versions, published, acceptances>>
        /\ enabledLocales' \subseteq Languages
    BY DEF AgreementInv, VersionsTypeOK, RowsTyped, EnableLocale
  <1>1. editor' \in [Editors -> EditorState] /\ \A f \in Editors : editor'[f].op = "idle"
    BY DEF EnableLocale, EditorState, Idle
  <1>2. \A g \in Pages :
           /\ page'[g] \in PageState
           /\ page'[g].op # "checked"
           /\ page'[g].op = "read" =>
                 page'[g].t = page[g].t /\ page'[g].n = page[g].n /\ page[g].op # "idle"
    <2> SUFFICES ASSUME NEW g \in Pages
                 PROVE  /\ page'[g] \in PageState
                        /\ page'[g].op # "checked"
                        /\ page'[g].op = "read" =>
                              page'[g].t = page[g].t /\ page'[g].n = page[g].n /\ page[g].op # "idle"
      OBVIOUS
    <2>1. page'[g] = IF page[g].op = "checked"
                     THEN [page[g] EXCEPT !.op = "read", !.overtaken = FALSE] ELSE page[g]
      BY DEF EnableLocale
    <2>2. CASE page[g].op = "checked"
      <3>1. page[g] \in [op : {"read", "checked"}, p : Signers, t : Agreements,
                         n : Numbers, text : Texts, overtaken : BOOLEAN]
        BY <1>0, <2>2, PageFields
      <3> DEFINE back == [page[g] EXCEPT !.op = "read", !.overtaken = FALSE]
      <3>2. /\ back \in [op : {"read", "checked"}, p : Signers, t : Agreements,
                         n : Numbers, text : Texts, overtaken : BOOLEAN]
            /\ back.op = "read" /\ back.t = page[g].t /\ back.n = page[g].n
        BY ONLY <3>1
      <3>3. page'[g] = back
        BY <2>1, <2>2
      <3> HIDE DEF back
      <3> QED
        BY <2>2, <3>2, <3>3 DEF PageState
    <2>3. CASE page[g].op # "checked"
      BY <1>0, <2>1, <2>3 DEF VersionsTypeOK
    <2> QED
      BY <2>2, <2>3
  <1>3. TypedBut'
    <2>1. page' \in [Pages -> PageState]
      BY <1>2 DEF EnableLocale
    <2> QED
      BY <1>0, <1>1, <2>1 DEF TypedBut, VersionsTypeOK, RowsTyped
  <1>4. NumbersChosen'
    BY <1>1 DEF NumbersChosen
  <1>5. PagesHold'
    <2> SUFFICES ASSUME NEW g \in Pages, page'[g].op \in {"read", "checked"}
                 PROVE  /\ <<page'[g].t, page'[g].n>> \in shown'
                        /\ page'[g].op # "checked"
      BY DEF PagesHold
    <2>1. page[g].op \in {"read", "checked"}
      BY <1>0, <1>2, PageFields
    <2> QED
      BY <1>2, <2>1 DEF AgreementInv, PagesHold, Growing
  <1>6. \A u \in Agreements, m \in Numbers : ~ EditIsOpen(u, m)'
    BY <1>1 DEF EditIsOpen
  <1>7. SignaturesHold'
    <2> SUFFICES ASSUME NEW a \in acceptances
                 PROVE  /\ <<a.t, a.n>> \in shown'
                        /\ ~ a.editOpen => /\ a.text \in TextsOf(a.t, a.n)'
                                           /\ versions'[a.t][a.n].frozen
                                           /\ ~ EditIsOpen(a.t, a.n)'
      BY <1>0 DEF SignaturesHold
    <2>1. TextsOf(a.t, a.n)' = TextsOf(a.t, a.n)
      BY <1>0 DEF TextsOf
    <2> QED
      BY <1>0, <1>6, <2>1, AcceptanceFields DEF AgreementInv, SignaturesHold, Growing
  <1> QED
    BY <1>3, <1>4, <1>5, <1>7 DEF Kept

(* A step of one page: the others are as they were, and nothing else moves.*)
LEMMA PageMoves ==
  ASSUME AgreementInv, Growing, NEW g \in Pages, NEW s \in PageState,
         page' = [page EXCEPT ![g] = s],
         UNCHANGED <<retired, versions, enabledLocales, published, acceptances, editor>>,
         s.op \in {"read", "checked"} =>
            /\ <<s.t, s.n>> \in shown
            /\ s.op = "checked" /\ ~ s.overtaken => s.text \in TextsOf(s.t, s.n)
  PROVE  Kept'
  <1>0. VersionsTypeOK /\ RowsTyped
    BY DEF AgreementInv, VersionsTypeOK, RowsTyped
  <1>1. TypedBut'
    BY <1>0 DEF TypedBut, VersionsTypeOK, RowsTyped
  <1>2. NumbersChosen'
    BY <1>0, NumbersUndisturbed
  <1>3. page'[g] = s /\ \A h \in Pages \ {g} : page'[h] = page[h]
    BY <1>0 DEF VersionsTypeOK
  <1>4. PagesHold'
    BY <1>3 DEF AgreementInv, PagesHold, Growing, TextsOf
  <1>5. SignaturesHold'
    BY ZenonT(40) DEF AgreementInv, SignaturesHold, Growing, TextsOf, EditIsOpen
  <1> QED
    BY <1>1, <1>2, <1>4, <1>5 DEF Kept

LEMMA ShowAgreementKeeps ==
  ASSUME AgreementInv, Growing, NEW g \in Pages, NEW p \in Signers, NEW t \in Agreements,
         NEW text \in Texts, ShowAgreement(g, p, t, text)
  PROVE  Kept'
  <1>1. EffectiveVersion(t) # 0 /\ EffectiveVersion(t) \in Numbers
    <2>1. RowsTyped
      BY DEF AgreementInv, VersionsTypeOK, RowsTyped
    <2> QED
      BY <2>1, EffectiveIsComplete DEF ShowAgreement, Complete, PublishedNumbers
  <1> DEFINE s == [op |-> "read", p |-> p, t |-> t, n |-> EffectiveVersion(t), text |-> text,
                   overtaken |-> FALSE]
  <1>2. s \in PageState /\ s.op = "read" /\ s.t = t /\ s.n = EffectiveVersion(t)
    BY <1>1 DEF PageState
  <1>3. <<t, EffectiveVersion(t)>> \in shown
    BY <1>1 DEF AgreementInv, ShownIsKept, InForceNow
  <1>4. page' = [page EXCEPT ![g] = s]
    BY DEF ShowAgreement
  <1> HIDE DEF s
  <1> QED
    BY <1>2, <1>3, <1>4, PageMoves DEF ShowAgreement

LEMMA SignCheckKeeps ==
  ASSUME AgreementInv, Growing, NEW g \in Pages, SignCheck(g)
  PROVE  Kept'
  <1>0. VersionsTypeOK /\ page[g].op = "read"
    BY DEF AgreementInv, SignCheck
  <1>1. page[g] \in [op : {"read", "checked"}, p : Signers, t : Agreements,
                     n : Numbers, text : Texts, overtaken : BOOLEAN]
    BY <1>0, PageFields
  <1> DEFINE s == [page[g] EXCEPT !.op = "checked"]
  <1>2. /\ s \in [op : {"read", "checked"}, p : Signers, t : Agreements,
                  n : Numbers, text : Texts, overtaken : BOOLEAN]
        /\ s.t = page[g].t /\ s.n = page[g].n /\ s.text = page[g].text
    BY ONLY <1>1
  <1>3. s \in PageState
    BY <1>2 DEF PageState
  <1>4. page' = [page EXCEPT ![g] = s]
    BY DEF SignCheck
  <1> HIDE DEF s
  <1>5. <<s.t, s.n>> \in shown /\ s.text \in TextsOf(s.t, s.n)
    BY <1>0, <1>2 DEF AgreementInv, PagesHold, SignCheck, StillAsRead
  <1> QED
    BY <1>3, <1>4, <1>5, PageMoves DEF SignCheck

LEMMA SignRefusedKeeps ==
  ASSUME AgreementInv, Growing, NEW g \in Pages, SignRefused(g)
  PROVE  Kept'
  <1>1. Idle \in PageState /\ Idle.op \notin {"read", "checked"}
    BY DEF PageState, Idle
  <1> QED
    BY <1>1, PageMoves DEF SignRefused

LEMMA SignCommitKeeps ==
  ASSUME AgreementInv, Growing, NEW g \in Pages, SignCommit(g), NEW s, s = page[g]
  PROVE  Kept'
  <1>0. /\ VersionsTypeOK /\ RowsTyped /\ s.op = "checked"
        /\ s.p \in Signers /\ s.t \in Agreements /\ s.n \in Numbers /\ s.text \in Texts
        /\ s.overtaken \in BOOLEAN
        /\ UNCHANGED <<retired, enabledLocales, published, editor>>
    BY PageFields DEF AgreementInv, VersionsTypeOK, RowsTyped, SignCommit
  <1>1. Idle \in PageState /\ Idle.op \notin {"read", "checked"}
    BY DEF PageState, Idle
  <1>2. page' = [page EXCEPT ![g] = Idle]
    BY DEF SignCommit
  <1>3. CASE AcceptedBy(s.p, s.t, s.n)
    <2>1. UNCHANGED <<acceptances, versions>>
      BY <1>3 DEF SignCommit
    <2> QED
      BY <1>0, <1>1, <1>2, <2>1, PageMoves
  <1>4. CASE ~ AcceptedBy(s.p, s.t, s.n)
    <2> DEFINE a == [p |-> s.p, t |-> s.t, n |-> s.n, text |-> s.text,
                     editOpen |-> EditIsOpen(s.t, s.n) \/ s.overtaken]
    <2>1. /\ acceptances' = acceptances \cup {a}
          /\ versions' = [versions EXCEPT ![s.t][s.n].frozen = TRUE]
      BY <1>4 DEF SignCommit
    <2>2. /\ a \in AcceptanceRow /\ a.t = s.t /\ a.n = s.n /\ a.text = s.text
          /\ ~ a.editOpen => ~ EditIsOpen(s.t, s.n) /\ ~ s.overtaken
      BY <1>0 DEF AcceptanceRow, EditIsOpen
    <2> HIDE DEF a
    <2>3. /\ RowsTyped'
          /\ versions'[s.t][s.n].frozen
          /\ \A u \in Agreements, m \in Numbers :
                /\ versions'[u][m].exists = versions[u][m].exists
                /\ versions'[u][m].body = versions[u][m].body
                /\ versions[u][m].frozen => versions'[u][m].frozen
      <3> DEFINE row == [versions[s.t][s.n] EXCEPT !.frozen = TRUE]
      <3>1. versions[s.t][s.n] \in VersionRow
        BY <1>0, RowTypes
      <3>2. /\ row \in VersionRow /\ row.body = versions[s.t][s.n].body
            /\ row.exists = versions[s.t][s.n].exists /\ row.frozen
        BY ONLY <3>1 DEF VersionRow
      <3>3. versions' = [versions EXCEPT ![s.t] = [versions[s.t] EXCEPT ![s.n] = row]]
        BY <2>1
      <3> HIDE DEF row
      <3>4. /\ RowsTyped'
            /\ versions'[s.t][s.n] = row
            /\ \A u \in Agreements, m \in Numbers :
                  <<u, m>> # <<s.t, s.n>> => versions'[u][m] = versions[u][m]
        <4>1. PICK t \in Agreements, n \in Numbers : t = s.t /\ n = s.n
          BY <1>0
        <4>2. versions' = [versions EXCEPT ![t] = [versions[t] EXCEPT ![n] = row]]
          BY <3>3, <4>1
        <4>3. /\ RowsTyped'
              /\ versions'[t][n] = row
              /\ \A u \in Agreements, m \in Numbers :
                    <<u, m>> # <<t, n>> => versions'[u][m] = versions[u][m]
          BY ZenonT(40), <1>0, <3>2, <4>2, RowWritten
        <4> QED
          BY <4>1, <4>3
      <3> QED
        BY <3>2, <3>4
    <2>4. TypedBut'
      BY <1>0, <1>1, <1>2, <2>1, <2>2, <2>3 DEF TypedBut, VersionsTypeOK
    <2>5. NumbersChosen'
      BY <1>0, <2>3, NumbersUndisturbed
    <2>6. page'[g] = Idle /\ \A h \in Pages \ {g} : page'[h] = page[h]
      BY <1>0, <1>2 DEF VersionsTypeOK
    <2>7. \A u \in Agreements, m \in Numbers :
              TextsOf(u, m)' = TextsOf(u, m) /\ (EditIsOpen(u, m)' <=> EditIsOpen(u, m))
      BY <1>0, <2>3 DEF TextsOf, EditIsOpen
    <2>8. PagesHold'
      <3> SUFFICES ASSUME NEW h \in Pages, page'[h].op \in {"read", "checked"}
                   PROVE  /\ <<page'[h].t, page'[h].n>> \in shown'
                          /\ page'[h].op = "checked" /\ ~ page'[h].overtaken =>
                                page'[h].text \in TextsOf(page[h].t, page[h].n)'
        BY <1>1, <2>6 DEF PagesHold, TextsOf
      <3>1. page'[h] = page[h]
        BY <1>1, <2>6
      <3>2. page[h].t \in Agreements /\ page[h].n \in Numbers
        BY <1>0, <3>1, PageFields
      <3>3. versions'[page[h].t][page[h].n].body = versions[page[h].t][page[h].n].body
        BY <2>3, <3>2
      <3> QED
        BY <3>1, <3>3 DEF AgreementInv, PagesHold, Growing, TextsOf
    <2>9. SignaturesHold'
      <3> SUFFICES ASSUME NEW b \in acceptances'
                   PROVE  /\ <<b.t, b.n>> \in shown'
                          /\ ~ b.editOpen => /\ b.text \in TextsOf(b.t, b.n)'
                                             /\ versions'[b.t][b.n].frozen
                                             /\ ~ EditIsOpen(b.t, b.n)'
        BY DEF SignaturesHold, TextsOf, EditIsOpen
      <3>1. CASE b \in acceptances
        BY <1>0, <2>3, <2>7, <3>1, AcceptanceFields DEF AgreementInv, SignaturesHold, Growing
      <3>2. CASE b = a
        <4>1. <<s.t, s.n>> \in shown /\ (~ s.overtaken => s.text \in TextsOf(s.t, s.n))
          BY <1>0 DEF AgreementInv, PagesHold
        <4> QED
          BY <1>0, <2>2, <2>3, <2>7, <3>2, <4>1 DEF Growing
      <3> QED
        BY <2>1, <3>1, <3>2
    <2> QED
      BY <2>4, <2>5, <2>8, <2>9 DEF Kept
  <1> QED
    BY <1>3, <1>4

LEMMA AgreementStepKeeps == ASSUME AgreementInv, VersionsNext PROVE AgreementInv'
  <1>1. Growing /\ InForceNow' \subseteq shown'
    BY DEF VersionsNext, Growing
  <1>2. Kept'
    <2>1. ASSUME NEW e \in Editors, NEW t \in Agreements, NumberOpen(e, t) PROVE Kept'
      BY <1>1, <2>1, NumberOpenKeeps
    <2>2. ASSUME NEW e \in Editors, NumberCommit(e) PROVE Kept'
      BY <1>1, <2>2, NumberCommitKeeps
    <2>3. ASSUME NEW e \in Editors, NEW t \in Agreements, NEW n \in Numbers, EditOpen(e, t, n)
          PROVE  Kept'
      BY <1>1, <2>3, EditOpenKeeps
    <2>4. ASSUME NEW e \in Editors, NEW t \in Agreements, NEW n \in Numbers, PublishOpen(e, t, n)
          PROVE  Kept'
      BY <1>1, <2>4, PublishOpenKeeps
    <2>5. ASSUME NEW e \in Editors, NEW l \in Languages, NEW text \in Texts, EditCommit(e, l, text)
          PROVE  Kept'
      BY <1>1, <2>5, EditCommitKeeps
    <2>6. ASSUME NEW e \in Editors, PublishCommit(e) PROVE Kept'
      BY <1>1, <2>6, PublishCommitKeeps
    <2>7. ASSUME NEW e \in Editors, PublishIncomplete(e) PROVE Kept'
      BY <1>1, <2>7, PublishIncompleteKeeps
    <2>8. ASSUME NEW t \in Agreements, RetireTemplate(t) PROVE Kept'
      BY <1>1, <2>8, RetireTemplateKeeps
    <2>9. ASSUME NEW l \in Languages, EnableLocale(l) PROVE Kept'
      BY <1>1, <2>9, EnableLocaleKeeps
    <2>10. ASSUME NEW g \in Pages, NEW p \in Signers, NEW t \in Agreements, NEW text \in Texts,
                  ShowAgreement(g, p, t, text)
           PROVE  Kept'
      BY <1>1, <2>10, ShowAgreementKeeps
    <2>11. ASSUME NEW g \in Pages, SignCheck(g) PROVE Kept'
      BY <1>1, <2>11, SignCheckKeeps
    <2>12. ASSUME NEW g \in Pages, SignRefused(g) PROVE Kept'
      BY <1>1, <2>12, SignRefusedKeeps
    <2>13. ASSUME NEW g \in Pages, SignCommit(g) PROVE Kept'
      BY <1>1, <2>13, SignCommitKeeps
    <2> QED
      BY <2>1, <2>2, <2>3, <2>4, <2>5, <2>6, <2>7, <2>8, <2>9, <2>10, <2>11, <2>12, <2>13
      DEF VersionsNext, VersionSteps
  <1>3. shown' \subseteq Agreements \X Numbers
    <2>1. \A t \in Agreements : EffectiveVersion(t)' \in 0..MaxVersions
      BY <1>2, InForceIsNumberNext DEF Kept, TypedBut
    <2>2. InForceNow' \subseteq Agreements \X Numbers
      BY <2>1, BoundsAreNaturals DEF InForceNow, Numbers
    <2> QED
      BY <2>2 DEF VersionsNext, AgreementInv, VersionsTypeOK
  <1> QED
    BY <1>1, <1>2, <1>3 DEF Kept, TypedBut, AgreementInv, VersionsTypeOK, RowsTyped, ShownIsKept

LEMMA AgreementsKept == ASSUME AgreementInv, [VersionsNext]_versionVars PROVE AgreementInv'
  <1>1. CASE VersionsNext
    BY <1>1, AgreementStepKeeps
  <1>2. CASE UNCHANGED versionVars
    <2>1. VersionsTypeOK' /\ NumbersChosen'
      BY <1>2 DEF versionVars, AgreementInv, VersionsTypeOK, NumbersChosen
    <2>2. PagesHold' /\ SignaturesHold'
      BY <1>2 DEF versionVars, AgreementInv, PagesHold, SignaturesHold, TextsOf, EditIsOpen
    <2>3. \A t \in Agreements : EffectiveVersion(t)' = EffectiveVersion(t)
      BY <1>2, EffectiveStays DEF versionVars
    <2>4. ShownIsKept'
      BY <1>2, <2>3 DEF versionVars, AgreementInv, ShownIsKept, InForceNow
    <2> QED
      BY <2>1, <2>2, <2>4 DEF AgreementInv
  <1> QED
    BY <1>1, <1>2

(* The inductive invariant of the agreements: types, numbers, pages,       *)
(* signatures and what has been shown.                                     *)
THEOREM AgreementsInductive == VersionsSpec => []AgreementInv
  <1>1. VersionsInit => AgreementInv
    BY AgreementsStart
  <1>2. AgreementInv /\ [VersionsNext]_versionVars => AgreementInv'
    BY AgreementsKept
  <1> QED
    BY <1>1, <1>2, PTL DEF VersionsSpec

(* Every variable of the agreements, their editors and their pages keeps   *)
(* its type (nda/templates.ts, nda/acceptance.ts).                         *)
THEOREM AgreementTypes == VersionsSpec => []VersionsTypeOK
  <1>1. AgreementInv => VersionsTypeOK
    BY DEF AgreementInv
  <1> QED
    BY <1>1, AgreementsInductive, PTL

(* SignedTextStands: however edits, publications and signatures interleave, *)
(* a signed text is still a body of its version, unless an edit had passed  *)
(* its check when the signature was recorded (setVersionBody,               *)
(* recordAcceptance).                                                       *)
THEOREM SignedTextIsKept == VersionsSpec => []SignedTextStands
  <1>1. AgreementInv => SignedTextStands
    BY AcceptanceFields DEF AgreementInv, SignaturesHold, SignedTextStands
  <1> QED
    BY <1>1, AgreementsInductive, PTL

(* NumbersNeverCollide: the number an open createVersion has chosen is not *)
(* taken by another one, because it holds the lock on the template's row   *)
(* from its read of the highest number to its commit.                      *)
THEOREM NumbersStayFree == VersionsSpec => []NumbersNeverCollide
  <1>1. AgreementInv => NumbersNeverCollide
    BY BoundsAreNaturals DEF AgreementInv, NumbersChosen, NumbersNeverCollide, Numbers
  <1> QED
    BY <1>1, AgreementsInductive, PTL
-----------------------------------------------------------------------------
(* What an admin is told, against what a signatory is shown.               *)
LEMMA ListedIsGreatest ==
  ASSUME RowsTyped, NEW t \in Agreements
  PROVE  /\ ListedVersion(t) # 0 <=> Complete(t) # {}
         /\ Complete(t) # {} => /\ ListedVersion(t) \in Complete(t)
                                /\ \A m \in Complete(t) : m <= ListedVersion(t)
  <1>0. /\ Complete(t) \subseteq 0..MaxVersions /\ 0 \notin Complete(t)
    BY BoundsAreNaturals DEF Complete, PublishedNumbers, Numbers
  <1>1. CASE Complete(t) = {}
    BY <1>1 DEF ListedVersion, Complete
  <1>2. CASE Complete(t) # {}
    <2>1. \E n \in Complete(t) : \A m \in Complete(t) : m <= n
      BY <1>0, <1>2, BoundsAreNaturals, GreatestExists
    <2>2. ListedVersion(t) = CHOOSE n \in Complete(t) : \A m \in Complete(t) : m <= n
      BY <1>2 DEF ListedVersion, Complete
    <2>3. ListedVersion(t) \in Complete(t) /\ \A m \in Complete(t) : m <= ListedVersion(t)
      BY <2>1, <2>2
    <2> QED
      BY <1>0, <1>2, <2>3
  <1> QED
    BY <1>1, <1>2

LEMMA BlockedIsExplained ==
  ASSUME RowsTyped, NEW t \in Agreements
  PROVE  (BlockedLocales(t) # {}) <=> (EffectiveVersion(t) = 0 /\ PublishedNumbers(t) # {})
  <1>1. ListedVersion(t) # 0 <=> EffectiveVersion(t) # 0
    BY ListedIsGreatest, EffectiveIsComplete
  <1>2. CASE ListedVersion(t) # 0 \/ PublishedNumbers(t) = {}
    BY <1>1, <1>2 DEF BlockedLocales
  <1>3. CASE ~ (ListedVersion(t) # 0 \/ PublishedNumbers(t) = {})
    <2> DEFINE n == CHOOSE n \in PublishedNumbers(t) : \A m \in PublishedNumbers(t) : m <= n
    <2>1. PublishedNumbers(t) \subseteq 0..MaxVersions
      BY BoundsAreNaturals DEF PublishedNumbers, Numbers
    <2>2. \E m \in PublishedNumbers(t) : \A k \in PublishedNumbers(t) : k <= m
      BY <1>3, <2>1, BoundsAreNaturals, GreatestExists
    <2>3. n \in PublishedNumbers(t)
      BY <2>2
    <2>4. BlockedLocales(t) = Missing(t, n)
      BY <1>3 DEF BlockedLocales
    <2> HIDE DEF n
    <2>5. Missing(t, n) # {}
      BY <1>3, <2>3, ListedIsGreatest DEF Complete
    <2> QED
      BY <1>1, <1>3, <2>4, <2>5
  <1> QED
    BY <1>2, <1>3

LEMMA InOrderNamesOne ==
  ASSUME RowsTyped, NEW t \in Agreements, PublishedInOrder(t)
  PROVE  ListedVersion(t) = EffectiveVersion(t)
  <1>1. CASE Complete(t) = {}
    BY <1>1, ListedIsGreatest, EffectiveIsComplete
  <1>2. CASE Complete(t) # {}
    <2> DEFINE l == ListedVersion(t)
               v == EffectiveVersion(t)
    <2>1. /\ l \in Complete(t) /\ v \in Complete(t) /\ v <= l
          /\ versions[t][l].effectiveFrom <= versions[t][v].effectiveFrom
      BY <1>2, ListedIsGreatest, EffectiveIsComplete
    <2>2. /\ l \in PublishedNumbers(t) /\ v \in PublishedNumbers(t)
          /\ l \in Numbers /\ v \in Numbers /\ l \in Nat /\ v \in Nat
      BY <2>1, BoundsAreNaturals DEF Complete, PublishedNumbers, Numbers
    <2>3. /\ versions[t][l].effectiveFrom \in Nat /\ versions[t][v].effectiveFrom \in Nat
      BY <2>2, RowTypes, BoundsAreNaturals
    <2>4. v < l => versions[t][v].effectiveFrom < versions[t][l].effectiveFrom
      BY <2>2 DEF PublishedInOrder
    <2> QED
      BY <2>1, <2>2, <2>3, <2>4
  <1> QED
    BY <1>1, <1>2

(* ListedIsInForce: the version the list of agreements names is the one in *)
(* force wherever numbers and publications have one order, and the list    *)
(* names missing locales exactly when a published agreement is not in      *)
(* force (listTemplates against effectiveVersion).                         *)
THEOREM ListNamesWhatIsInForce == VersionsSpec => []ListedIsInForce
  <1>1. AgreementInv => ListedIsInForce
    BY BlockedIsExplained, InOrderNamesOne
    DEF AgreementInv, VersionsTypeOK, RowsTyped, ListedIsInForce
  <1> QED
    BY <1>1, AgreementsInductive, PTL
-----------------------------------------------------------------------------
(* The refinement.                                                         *)
InForce == [t \in Agreements |-> EffectiveVersion(t)]
SignedBy == {<<a.p, a.t, a.n>> : a \in acceptances}

LEMMA PairsAreInForce == RowsTyped => Register!InForcePairs = InForceNow
  <1> SUFFICES ASSUME RowsTyped PROVE Register!InForcePairs = InForceNow
    OBVIOUS
  <1>1. \A u \in Agreements : EffectiveVersion(u) > 0 <=> EffectiveVersion(u) # 0
    BY EffectiveIsComplete, BoundsAreNaturals
  <1>2. Register!InForcePairs = {<<t, InForce[t]>> : t \in {u \in Agreements : InForce[u] > 0}}
    BY DEF Register!InForcePairs, InForce
  <1>3. \A u \in Agreements : InForce[u] = EffectiveVersion(u)
    BY DEF InForce
  <1>4. {u \in Agreements : InForce[u] > 0} = {u \in Agreements : EffectiveVersion(u) # 0}
    BY <1>1, <1>3
  <1> QED
    BY <1>2, <1>3, <1>4 DEF InForceNow

LEMMA PairsAreInForceNext ==
  ASSUME RowsTyped' PROVE Register!InForcePairs' = InForceNow'
  <1>1. (RowsTyped => Register!InForcePairs = InForceNow)'
    BY PairsAreInForce, PTL
  <1> QED
    BY <1>1

LEMMA RegisterStarts == VersionsInit => Register!RegisterInit
  <1> SUFFICES ASSUME VersionsInit PROVE Register!RegisterInit
    OBVIOUS
  <1>1. AgreementInv /\ RowsTyped
    BY AgreementsStart DEF AgreementInv, VersionsTypeOK, RowsTyped
  <1>2. InForceNow = {}
    BY <1>1 DEF AgreementInv, ShownIsKept, VersionsInit
  <1>3. \A t \in Agreements : EffectiveVersion(t) = 0
    BY <1>2 DEF InForceNow
  <1>4. Register!InForcePairs = {}
    BY <1>1, <1>2, PairsAreInForce
  <1> QED
    BY <1>3, <1>4 DEF Register!RegisterInit, VersionsInit

(* A step that records no signature changes what is in force, or nothing.  *)
LEMMA RegisterQuiet ==
  ASSUME AgreementInv, AgreementInv', acceptances' = acceptances, shown' = shown \cup InForceNow'
  PROVE  [Register!RegisterNext]_Register!registerVars
  <1>0. RowsTyped /\ RowsTyped'
    BY DEF AgreementInv, VersionsTypeOK, RowsTyped
  <1>1. CASE InForce' = InForce
    <2>1. \A t \in Agreements : EffectiveVersion(t)' = EffectiveVersion(t)
      BY <1>1 DEF InForce
    <2>2. InForceNow' = InForceNow
      BY <2>1 DEF InForceNow
    <2>3. shown' = shown
      BY <2>2 DEF AgreementInv, ShownIsKept
    <2> QED
      BY <1>1, <2>3 DEF Register!registerVars, InForce
  <1>2. CASE InForce' # InForce
    <2>1. InForce' \in [Agreements -> 0..MaxVersions]
      BY <1>0, InForceIsNumberNext DEF InForce
    <2>2. Register!InForcePairs' = InForceNow'
      BY <1>0, PairsAreInForceNext
    <2>3. Register!Supersede
      BY <1>2, <2>1, <2>2 DEF Register!Supersede, InForce
    <2> QED
      BY <2>3 DEF Register!RegisterNext
  <1> QED
    BY <1>1, <1>2

LEMMA SigningStep ==
  ASSUME AgreementInv, AgreementInv', NEW g \in Pages, SignCommit(g),
         shown' = shown \cup InForceNow', NEW s, s = page[g]
  PROVE  [Register!RegisterNext]_Register!registerVars
  <1>0. /\ VersionsTypeOK /\ RowsTyped /\ s.op = "checked"
        /\ s.p \in Signers /\ s.t \in Agreements /\ s.n \in Numbers
        /\ <<s.t, s.n>> \in shown /\ enabledLocales' = enabledLocales
    BY PageFields DEF AgreementInv, VersionsTypeOK, RowsTyped, SignCommit, PagesHold
  <1>1. CASE acceptances' = acceptances
    BY <1>1, RegisterQuiet
  <1>2. CASE acceptances' # acceptances
    <2> DEFINE a == [p |-> s.p, t |-> s.t, n |-> s.n, text |-> s.text,
                     editOpen |-> EditIsOpen(s.t, s.n) \/ s.overtaken]
    <2>1. /\ acceptances' = acceptances \cup {a}
          /\ versions' = [versions EXCEPT ![s.t][s.n].frozen = TRUE]
      BY <1>2 DEF SignCommit
    <2>8. a.p = s.p /\ a.t = s.t /\ a.n = s.n
      OBVIOUS
    <2> HIDE DEF a
    <2>2. \A u \in Agreements, m \in Numbers :
              /\ versions'[u][m].effectiveFrom = versions[u][m].effectiveFrom
              /\ versions'[u][m].body = versions[u][m].body
      <3>1. PICK t \in Agreements, n \in Numbers : t = s.t /\ n = s.n
        BY <1>0
      <3> DEFINE row == [versions[t][n] EXCEPT !.frozen = TRUE]
      <3>2. versions[t][n] \in VersionRow
        BY <1>0, RowTypes
      <3>3. /\ row \in VersionRow /\ row.body = versions[t][n].body
            /\ row.effectiveFrom = versions[t][n].effectiveFrom
        BY ONLY <3>2 DEF VersionRow
      <3>4. versions' = [versions EXCEPT ![t] = [versions[t] EXCEPT ![n] = row]]
        BY <2>1, <3>1
      <3> HIDE DEF row
      <3>5. /\ RowsTyped'
            /\ versions'[t][n] = row
            /\ \A u \in Agreements, m \in Numbers :
                  <<u, m>> # <<t, n>> => versions'[u][m] = versions[u][m]
        BY ZenonT(40), <1>0, <3>3, <3>4, RowWritten
      <3> QED
        BY <3>3, <3>5
    <2>3. \A t \in Agreements : EffectiveVersion(t)' = EffectiveVersion(t)
      BY <1>0, <2>2, EffectiveStays
    <2>4. InForceNow' = InForceNow /\ InForce' = InForce
      BY <2>3 DEF InForceNow, InForce
    <2>5. shown' = shown
      BY <2>4 DEF AgreementInv, ShownIsKept
    <2>6. SignedBy' = SignedBy \cup {<<s.p, s.t, s.n>>}
      <3>1. SignedBy' = {<<b.p, b.t, b.n>> : b \in acceptances \cup {a}}
        BY <2>1 DEF SignedBy
      <3>2. {<<b.p, b.t, b.n>> : b \in acceptances \cup {a}}
                = {<<b.p, b.t, b.n>> : b \in acceptances} \cup {<<a.p, a.t, a.n>>}
        OBVIOUS
      <3> QED
        BY <2>8, <3>1, <3>2 DEF SignedBy
    <2>7. Register!Sign(s.p, s.t, s.n)
      BY <1>0, <2>4, <2>5, <2>6 DEF Register!Sign, SignedBy, InForce
    <2> QED
      BY <1>0, <2>7, SMT DEF Register!RegisterNext, Numbers
  <1> QED
    BY <1>1, <1>2

LEMMA RegisterSteps ==
  ASSUME AgreementInv, AgreementInv', [VersionsNext]_versionVars
  PROVE  [Register!RegisterNext]_Register!registerVars
  <1>1. CASE UNCHANGED versionVars
    <2>1. \A t \in Agreements : EffectiveVersion(t)' = EffectiveVersion(t)
      BY <1>1, EffectiveStays DEF versionVars
    <2>2. InForce' = InForce /\ SignedBy' = SignedBy /\ shown' = shown
      BY <1>1, <2>1 DEF InForce, SignedBy, versionVars
    <2> QED
      BY <2>2 DEF Register!registerVars, InForce, SignedBy
  <1>2. CASE VersionsNext
    <2>1. shown' = shown \cup InForceNow'
      BY <1>2 DEF VersionsNext
    <2>2. CASE \E g \in Pages : SignCommit(g)
      BY <2>1, <2>2, SigningStep
    <2>3. CASE ~ \E g \in Pages : SignCommit(g)
      <3>1. acceptances' = acceptances
        BY <1>2, <2>3
        DEF VersionsNext, VersionSteps, NumberOpen, NumberCommit, EditOpen, PublishOpen,
            EditCommit, PublishCommit, PublishIncomplete, RetireTemplate, EnableLocale,
            ShowAgreement, SignCheck, SignRefused
      <3> QED
        BY <2>1, <3>1, RegisterQuiet
    <2> QED
      BY <2>2, <2>3
  <1> QED
    BY <1>1, <1>2

(* The agreements implement AgreementRegister, the promise the delivery of *)
(* documents relies on: any version may come into force, only one that has *)
(* been in force is signed, and no signature goes away.                    *)
THEOREM AgreementsAreARegister == VersionsSpec => RegisterKept
  <1>1. VersionsInit => Register!RegisterInit
    BY RegisterStarts
  <1>2. AgreementInv /\ AgreementInv' /\ [VersionsNext]_versionVars
            => [Register!RegisterNext]_Register!registerVars
    BY RegisterSteps
  <1> QED
    BY <1>1, <1>2, AgreementsInductive, PTL DEF VersionsSpec, RegisterKept, Register!RegisterSpec
-----------------------------------------------------------------------------
(* The actions of DeliveryNext, one disjunct each.                         *)
DocumentStep ==
    \/ \E d \in Documents, tier \in Tiers \cup {"public"} : CreateDocument(d, tier)
    \/ \E d \in Documents, tier \in Tiers \cup {"public"} : SaveDocumentRow(d, tier)
    \/ \E d \in Documents, status \in {"withheld", "published"} : SetStatus(d, status)
    \/ \E d \in Documents, members \in SUBSET Groups : SetDocumentGroups(d, members)
    \/ \E d \in Documents : DeleteDocument(d)
    \/ \E g \in Groups : CreateGroup(g)
    \/ \E g \in Groups, template \in MaybeTemplate : UpdateGroup(g, template)
    \/ \E g \in Groups : DeleteGroup(g)
    \/ \E template \in MaybeTemplate : SetDefaultTemplate(template)

GrantStep ==
    \/ \E g \in Grants, p \in Requesters, scope \in Scope, required \in SUBSET Templates,
          waived \in SUBSET Templates : CreateGrant(g, p, scope, required, waived)
    \/ \E g \in Grants : DecideToStart(g)
    \/ \E g \in Grants : StartGrant(g)
    \/ \E g \in Grants : CloseGrant(g)
    \/ \E g \in Grants : EndGrant(g)

DownloadStep ==
    \/ \E s \in Downloads, p \in Requesters, d \in Documents : FindFile(s, p, d)
    \/ \E s \in Downloads : Confer(s)
    \/ \E s \in Downloads : ReadRequirements(s)
    \/ \E s \in Downloads : CheckAgreements(s)
    \/ \E s \in Downloads : FinishDownload(s)

LEMMA DeliverySteps ==
  DeliveryNext => AgreementChanges \/ DocumentStep \/ GrantStep \/ DownloadStep
  BY DEF DeliveryNext, CatalogueSteps, GrantSteps, DownloadSteps,
         DocumentStep, GrantStep, DownloadStep
-----------------------------------------------------------------------------
LEMMA DeliveryStartsTyped == DeliveryInit => DeliveryTypeOK
  <1> SUFFICES ASSUME DeliveryInit PROVE DeliveryTypeOK
    OBVIOUS
  <1>1. RegisterTypeOK
    <2>1. inForce \in [Templates -> {0, 1}] /\ offered = InForcePairs /\ signed = {}
      BY DEF DeliveryInit, RegisterInit
    <2> QED
      BY <2>1, RegisterAssumption DEF RegisterTypeOK, InForcePairs
  <1>2. (CHOOSE p \in Requesters : TRUE) \in Requesters
        /\ (CHOOSE d \in Documents : TRUE) \in Documents
    BY DeliveryAssumption
  <1>3. grant \in [Grants -> GrantRow]
    BY <1>2 DEF DeliveryInit, GrantRow, NoScope, Scope
  <1>4. download \in [Downloads -> DownloadRow]
    BY <1>2 DEF DeliveryInit, IdleDownload, DownloadRow
  <1> QED
    BY <1>1, <1>3, <1>4
    DEF DeliveryInit, DeliveryTypeOK, DocumentRow, GroupRow, MaybeTemplate
LEMMA RegisterTypesKept == ASSUME RegisterTypeOK, RegisterNext PROVE RegisterTypeOK'
  <1>1. CASE Supersede
    <2>1. inForce' \in [Templates -> 0..MaxVersion] /\ signed' = signed
      BY <1>1 DEF Supersede
    <2>2. InForcePairs' \subseteq Templates \X (1..MaxVersion)
      BY <2>1, RegisterAssumption DEF InForcePairs
    <2> QED
      BY <1>1, <2>1, <2>2 DEF Supersede, RegisterTypeOK
  <1>2. ASSUME NEW p \in Requesters, NEW t \in Templates, NEW v \in 1..MaxVersion, Sign(p, t, v)
        PROVE  RegisterTypeOK'
    BY <1>2 DEF Sign, RegisterTypeOK
  <1> QED
    BY <1>1, <1>2 DEF RegisterNext

(* The rows a step of staff leaves as they should be.                      *)
LEMMA CatalogueTypesKept == ASSUME DeliveryTypeOK, DocumentStep PROVE DeliveryTypeOK'
  <1> USE DEF DeliveryTypeOK, RegisterTypeOK, registerVars, DocumentRow, MaybeTemplate
  <1>1. ASSUME NEW d \in Documents, NEW tier \in Tiers \cup {"public"}, CreateDocument(d, tier)
        PROVE  DeliveryTypeOK'
    BY <1>1 DEF CreateDocument
  <1>2. ASSUME NEW d \in Documents, NEW tier \in Tiers \cup {"public"}, SaveDocumentRow(d, tier)
        PROVE  DeliveryTypeOK'
    BY <1>2 DEF SaveDocumentRow
  <1>3. ASSUME NEW d \in Documents, NEW status \in {"withheld", "published"}, SetStatus(d, status)
        PROVE  DeliveryTypeOK'
    BY <1>3 DEF SetStatus
  <1>4. ASSUME NEW d \in Documents, NEW members \in SUBSET Groups, SetDocumentGroups(d, members)
        PROVE  DeliveryTypeOK'
    BY <1>4 DEF SetDocumentGroups
  <1>5. ASSUME NEW d \in Documents, DeleteDocument(d) PROVE DeliveryTypeOK'
    <2>1. grant' \in [Grants -> GrantRow]
      <3>1. ASSUME NEW row \in GrantRow
            PROVE  [row EXCEPT !.scope.documents = @ \ {d}] \in GrantRow
        BY DEF GrantRow, Scope
      <3> QED
        BY <1>5, <3>1 DEF DeleteDocument
    <2> QED
      BY <1>5, <2>1 DEF DeleteDocument
  <1>6. ASSUME NEW g \in Groups, CreateGroup(g) PROVE DeliveryTypeOK'
    BY <1>6 DEF CreateGroup, GroupRow
  <1>7. ASSUME NEW g \in Groups, NEW template \in MaybeTemplate, UpdateGroup(g, template)
        PROVE  DeliveryTypeOK'
    BY <1>7 DEF UpdateGroup, GroupRow
  <1>8. ASSUME NEW g \in Groups, DeleteGroup(g) PROVE DeliveryTypeOK'
    BY <1>8 DEF DeleteGroup, GroupRow
  <1>9. ASSUME NEW template \in MaybeTemplate, SetDefaultTemplate(template) PROVE DeliveryTypeOK'
    BY <1>9 DEF SetDefaultTemplate
  <1> QED
    BY <1>1, <1>2, <1>3, <1>4, <1>5, <1>6, <1>7, <1>8, <1>9 DEF DocumentStep

LEMMA GrantTypesKept == ASSUME DeliveryTypeOK, GrantStep PROVE DeliveryTypeOK'
  <1> USE DEF DeliveryTypeOK, RegisterTypeOK, registerVars, GrantRow
  <1>1. ASSUME NEW g \in Grants, NEW p \in Requesters, NEW scope \in Scope,
               NEW required \in SUBSET Templates, NEW waived \in SUBSET Templates,
               CreateGrant(g, p, scope, required, waived)
        PROVE  DeliveryTypeOK'
    BY <1>1 DEF CreateGrant
  <1>2. ASSUME NEW g \in Grants, StartGrant(g) PROVE DeliveryTypeOK'
    BY <1>2 DEF StartGrant
  <1>3. ASSUME NEW g \in Grants, EndGrant(g) PROVE DeliveryTypeOK'
    BY <1>3 DEF EndGrant
  <1>4. ASSUME NEW g \in Grants, DecideToStart(g) PROVE DeliveryTypeOK'
    BY <1>4 DEF DecideToStart
  <1>5. ASSUME NEW g \in Grants, CloseGrant(g) PROVE DeliveryTypeOK'
    BY <1>5 DEF CloseGrant
  <1> QED
    BY <1>1, <1>2, <1>3, <1>4, <1>5 DEF GrantStep

LEMMA DownloadTypesKept == ASSUME DeliveryTypeOK, DownloadStep PROVE DeliveryTypeOK'
  <1> USE DEF DeliveryTypeOK, RegisterTypeOK, registerVars
  <1>0. IdleDownload \in DownloadRow
    <2>1. (CHOOSE p \in Requesters : TRUE) \in Requesters
          /\ (CHOOSE d \in Documents : TRUE) \in Documents
      BY DeliveryAssumption
    <2> QED
      BY <2>1 DEF IdleDownload, DownloadRow
  <1>1. \A d \in Documents : doc[d].tier \in Tiers \cup {"public"} /\ CarriedBy(d) \in SUBSET Templates
    BY DEF CarriedBy, DocumentRow, GroupRow, MaybeTemplate
  <1>2. ASSUME NEW s \in Downloads, NEW p \in Requesters, NEW d \in Documents, FindFile(s, p, d)
        PROVE  DeliveryTypeOK'
    <2>1. [IdleDownload EXCEPT !.phase = "found", !.by = p, !.of = d,
               !.ended = {g \in Grants : EndedForGood(g)}] \in DownloadRow
      BY <1>0 DEF DownloadRow
    <2> QED
      BY <1>2, <2>1 DEF FindFile
  <1>3. ASSUME NEW s \in Downloads, Confer(s) PROVE DeliveryTypeOK'
    <2> DEFINE d == download[s].of
               rows == Conferring(download[s].by, d)
               phase == IF IsGated(doc[d].tier, CarriedBy(d)) THEN "conferred" ELSE "allowed"
               row == [download[s] EXCEPT !.rows = rows, !.tier = doc[d].tier,
                                          !.carried = CarriedBy(d), !.phase = phase]
    <2>1. row \in DownloadRow
      <3>1. d \in Documents /\ rows \in SUBSET Grants /\ phase \in {"conferred", "allowed"}
        BY DEF DownloadRow, Conferring
      <3>2. download[s] \in DownloadRow
        OBVIOUS
      <3>3. doc[d].tier \in Tiers \cup {"public"} /\ CarriedBy(d) \in SUBSET Templates
        BY <1>1, <3>1
      <3> HIDE DEF d, rows, phase
      <3> QED
        BY ONLY <3>1, <3>2, <3>3 DEF row, DownloadRow
    <2>2. download' = [download EXCEPT ![s] = row]
      BY <1>3 DEF Confer
    <2> QED
      BY <1>3, <2>1, <2>2 DEF Confer
  <1>4. ASSUME NEW s \in Downloads, ReadRequirements(s) PROVE DeliveryTypeOK'
    <2> DEFINE needed == Needed(download[s].tier, download[s].carried, defaultTemplate)
    <2>1. needed \in SUBSET Templates /\ download[s] \in DownloadRow
      BY <1>4 DEF ReadRequirements, Resolvable, Needed, DownloadRow, MaybeTemplate
    <2>2. [download[s] EXCEPT !.phase = "checking", !.needed = needed] \in DownloadRow
      <3> HIDE DEF needed
      <3> QED
        BY ONLY <2>1 DEF DownloadRow
    <2>3. download' = [download EXCEPT ![s] = [download[s] EXCEPT !.phase = "checking",
                                                                  !.needed = needed]]
      BY <1>4 DEF ReadRequirements
    <2> QED
      BY <1>4, <2>2, <2>3 DEF ReadRequirements
  <1>5. ASSUME NEW s \in Downloads, CheckAgreements(s) PROVE DeliveryTypeOK'
    <2> DEFINE left == {g \in download[s].rows :
                           Satisfies(download[s].by, g, download[s].needed)}
    <2>1. left \in SUBSET Grants /\ download[s] \in DownloadRow
      BY DEF DownloadRow
    <2>2. [download[s] EXCEPT !.phase = "allowed", !.rows = left] \in DownloadRow
      <3> HIDE DEF left
      <3> QED
        BY ONLY <2>1 DEF DownloadRow
    <2>3. download' = [download EXCEPT ![s] = [download[s] EXCEPT !.phase = "allowed",
                                                                  !.rows = left]]
      BY <1>5 DEF CheckAgreements
    <2> QED
      BY <1>5, <2>2, <2>3 DEF CheckAgreements
  <1>6. ASSUME NEW s \in Downloads, FinishDownload(s) PROVE DeliveryTypeOK'
    BY <1>0, <1>6 DEF FinishDownload
  <1> QED
    BY <1>2, <1>3, <1>4, <1>5, <1>6 DEF DownloadStep

(* Every row of documents, groups, grants and downloads keeps its type.    *)
THEOREM DeliveryTypes == DeliverySpec => []DeliveryTypeOK
  <1>1. DeliveryTypeOK /\ [DeliveryNext]_deliveryVars => DeliveryTypeOK'
    <2> SUFFICES ASSUME DeliveryTypeOK, [DeliveryNext]_deliveryVars PROVE DeliveryTypeOK'
      OBVIOUS
    <2>1. CASE AgreementChanges
      <3>1. RegisterTypeOK'
        BY <2>1, RegisterTypesKept DEF AgreementChanges, DeliveryTypeOK
      <3> QED
        BY <2>1, <3>1 DEF AgreementChanges, DeliveryTypeOK
    <2>2. CASE UNCHANGED deliveryVars
      BY <2>2 DEF deliveryVars, registerVars, DeliveryTypeOK, RegisterTypeOK
    <2> QED
      BY <2>1, <2>2, DeliverySteps, CatalogueTypesKept, GrantTypesKept, DownloadTypesKept
  <1> QED
    BY <1>1, DeliveryStartsTyped, PTL DEF DeliverySpec
-----------------------------------------------------------------------------
(* What a download has read is still true enough: the grants that had      *)
(* ended for good when it arrived still have, and none of them is among    *)
(* the rows it works with.                                                 *)
EndedStay ==
    \A s \in Downloads :
        /\ download[s].phase # "idle" =>
              \A g \in download[s].ended : EndedForGood(g)
        /\ download[s].phase \in {"conferred", "checking", "allowed"} =>
              download[s].rows # {} /\ download[s].rows \cap download[s].ended = {}

(* No step brings back a grant that has ended for good: whoever decides to *)
(* start one has read it inert.                                            *)
LEMMA EndIsFinal ==
  ASSUME DeliveryTypeOK, [DeliveryNext]_deliveryVars,
         NEW g \in Grants, EndedForGood(g)
  PROVE  EndedForGood(g)'
  <1> USE DEF EndedForGood
  <1>1. CASE DocumentStep
    BY <1>1 DEF DocumentStep, CreateDocument, SaveDocumentRow, SetStatus, SetDocumentGroups,
                DeleteDocument, CreateGroup, UpdateGroup, DeleteGroup, SetDefaultTemplate,
                DeliveryTypeOK, GrantRow
  <1>2. CASE GrantStep
    BY <1>2 DEF GrantStep, CreateGrant, DecideToStart, StartGrant, CloseGrant, EndGrant,
                DeliveryTypeOK, GrantRow
  <1>3. CASE AgreementChanges \/ DownloadStep \/ UNCHANGED deliveryVars
    BY <1>3 DEF AgreementChanges, DownloadStep, FindFile, Confer, ReadRequirements,
                CheckAgreements, FinishDownload, deliveryVars
  <1> QED
    BY <1>1, <1>2, <1>3, DeliverySteps

LEMMA EndedStayKept ==
  ASSUME DeliveryTypeOK, EndedStay, [DeliveryNext]_deliveryVars PROVE EndedStay'
  <1>0. download \in [Downloads -> DownloadRow] /\ \A s \in Downloads : download[s].ended \subseteq Grants
    BY DEF DeliveryTypeOK, DownloadRow
  <1>1. CASE download' = download
    BY <1>0, <1>1, EndIsFinal DEF EndedStay
  <1>2. CASE DownloadStep
    <2> SUFFICES ASSUME NEW s \in Downloads
                 PROVE /\ download'[s].phase # "idle" =>
                             \A g \in download'[s].ended : EndedForGood(g)'
                       /\ download'[s].phase \in {"conferred", "checking", "allowed"} =>
                             /\ download'[s].rows # {}
                             /\ download'[s].rows \cap download'[s].ended = {}
      BY DEF EndedStay
    <2>0. \A g \in Grants : EndedForGood(g)' = EndedForGood(g)
      BY <1>2 DEF EndedForGood, DownloadStep, FindFile, Confer, ReadRequirements, CheckAgreements, FinishDownload
    <2>1. CASE download'[s] = download[s]
      <3>1. \A g \in download[s].ended : g \in Grants
        BY <1>0
      <3> QED
        BY <2>0, <2>1, <3>1 DEF EndedStay
    <2>2. ASSUME NEW p \in Requesters, NEW d \in Documents, FindFile(s, p, d)
          PROVE  /\ download'[s].phase = "found"
                 /\ download'[s].ended = {g \in Grants : EndedForGood(g)}
      BY <1>0, <2>2 DEF FindFile, IdleDownload
    <2>3. ASSUME Confer(s)
          PROVE  /\ download'[s].rows # {} /\ download'[s].ended = download[s].ended
                 /\ \A g \in download'[s].rows : grant[g].state = "active"
                 /\ download[s].phase = "found"
      BY ZenonT(40), <1>0, <2>3 DEF Confer, DownloadRow, Conferring, Confers
    <2>4. ASSUME ReadRequirements(s)
          PROVE  /\ download'[s].rows = download[s].rows /\ download'[s].ended = download[s].ended
                 /\ download[s].phase = "conferred"
      BY <1>0, <2>4 DEF ReadRequirements, DownloadRow
    <2>5. ASSUME CheckAgreements(s)
          PROVE  /\ download'[s].rows \subseteq download[s].rows /\ download'[s].rows # {}
                 /\ download'[s].ended = download[s].ended /\ download[s].phase = "checking"
      BY <1>0, <2>5 DEF CheckAgreements, DownloadRow
    <2>6. ASSUME FinishDownload(s) PROVE download'[s].phase = "idle"
      BY <1>0, <2>6 DEF FinishDownload, IdleDownload
    <2>7. \/ download'[s] = download[s]
          \/ \E p \in Requesters, d \in Documents : FindFile(s, p, d)
          \/ Confer(s) \/ ReadRequirements(s) \/ CheckAgreements(s) \/ FinishDownload(s)
      BY ZenonT(40), <1>0, <1>2 DEF DownloadStep, FindFile, Confer, ReadRequirements, CheckAgreements,
                        FinishDownload
    <2> QED
      <3>1. \A g \in Grants : EndedForGood(g) => grant[g].state # "active"
        BY DEF EndedForGood
      <3>2. \A g \in download[s].ended : g \in Grants
        BY <1>0
      <3> QED
        BY <2>0, <2>1, <2>2, <2>3, <2>4, <2>5, <2>6, <2>7, <3>1, <3>2 DEF EndedStay
  <1>3. download' = download \/ DownloadStep
    BY DeliverySteps DEF AgreementChanges, DocumentStep, CreateDocument, SaveDocumentRow, SetStatus,
       SetDocumentGroups, DeleteDocument, CreateGroup, UpdateGroup, DeleteGroup, SetDefaultTemplate,
       GrantStep, CreateGrant, DecideToStart, StartGrant, CloseGrant, EndGrant, deliveryVars
  <1> QED
    BY <1>1, <1>2, <1>3

(* EndIsImmediate: a download is never allowed on a grant that had expired *)
(* or was revoked when the request arrived, nor on a closed one that no    *)
(* activation in flight had read before (grants.ts grantConfersDocument).  *)
THEOREM EndedServesNothing == DeliverySpec => []EndIsImmediate
  <1>1. DeliveryInit => EndedStay
    <2>1. IdleDownload.phase = "idle"
      BY DEF IdleDownload
    <2>2. DeliveryInit => \A s \in Downloads : download[s] = IdleDownload
      BY DEF DeliveryInit
    <2> QED
      BY <2>1, <2>2 DEF EndedStay
  <1>2. EndedStay => EndIsImmediate
    BY DEF EndedStay, EndIsImmediate
  <1> QED
    BY <1>1, <1>2, EndedStayKept, DeliveryTypes, PTL DEF DeliverySpec
-----------------------------------------------------------------------------
(* The queries agree, whatever the state.                                  *)
LEMMA ProposedIsEnough == ProposalCoversDelivery
  <1> SUFFICES ASSUME NEW g \in Grants, ~ ProposalFails(grant[g].scope),
                      \A t \in Proposal(grant[g].scope) : HoldsValid(grant[g].holder, t),
                      NEW d \in ConferredBy(g)
               PROVE  g \in Narrowed(grant[g].holder, d, {g})
    BY DEF ProposalCoversDelivery
  <1>1. d \in Documents /\ InScope(grant[g].scope, d)
    BY DEF ConferredBy, Confers
  <1>2. Resolvable(doc[d].tier, defaultTemplate)
    BY <1>1 DEF ProposalFails
  <1>3. Needed(doc[d].tier, CarriedBy(d), defaultTemplate) \subseteq Proposal(grant[g].scope)
    BY <1>1 DEF Proposal
  <1>4. Satisfies(grant[g].holder, g, Needed(doc[d].tier, CarriedBy(d), defaultTemplate))
    BY <1>3 DEF Satisfies
  <1> QED
    BY <1>2, <1>4 DEF Narrowed

LEMMA CountsAgree == CountIsExact
  <1>1. ASSUME NEW g \in Grants PROVE CountGrantDocuments(g) = Cardinality(Deliverable(g))
    <2>1. CASE \E d \in ConferredBy(g) : IsGated(doc[d].tier, CarriedBy(d))
      BY <2>1 DEF CountGrantDocuments
    <2>2. CASE ~ \E d \in ConferredBy(g) : IsGated(doc[d].tier, CarriedBy(d))
      <3>1. \A d \in ConferredBy(g) : Narrowed(grant[g].holder, d, {g}) = {g}
        BY <2>2 DEF Narrowed
      <3>2. Deliverable(g) = ConferredBy(g)
        BY <3>1 DEF Deliverable
      <3> QED
        BY <2>2, <3>2 DEF CountGrantDocuments
    <2> QED
      BY <2>1, <2>2
  <1>2. ASSUME NEW p \in Requesters
        PROVE  GrantedDocuments(p) =
                   UNION {Deliverable(g) : g \in {h \in Grants : grant[h].holder = p}}
    <2>1. ASSUME NEW d \in Documents, NEW g \in Grants
          PROVE  g \in Narrowed(p, d, Conferring(p, d)) <=>
                    g \in Conferring(p, d) /\ g \in Narrowed(p, d, {g})
      BY DEF Narrowed
    <2>2. ASSUME NEW d \in Documents
          PROVE  Narrowed(p, d, Conferring(p, d)) \subseteq Grants
      BY DEF Narrowed, Conferring
    <2>3. ASSUME NEW d \in Documents, NEW g \in Grants
          PROVE  Narrowed(p, d, {g}) \subseteq {g}
      BY DEF Narrowed
    <2>4. ASSUME NEW d \in Documents
          PROVE  d \in GrantedDocuments(p) <=>
                    \E g \in Conferring(p, d) : g \in Narrowed(p, d, {g})
      BY <2>1, <2>2 DEF GrantedDocuments, Conferring
    <2>5. ASSUME NEW d \in Documents, NEW g \in Grants, grant[g].holder = p
          PROVE  d \in Deliverable(g) <=> g \in Conferring(p, d) /\ g \in Narrowed(p, d, {g})
      BY <2>3, <2>5 DEF Deliverable, ConferredBy, Conferring
    <2>6. GrantedDocuments(p) \subseteq Documents /\ \A g \in Grants : Deliverable(g) \subseteq Documents
      BY DEF GrantedDocuments, Deliverable, ConferredBy
    <2>7. \A d \in Documents : \A g \in Conferring(p, d) : g \in Grants /\ grant[g].holder = p
      BY DEF Conferring
    <2> QED
      BY ZenonT(40), <2>4, <2>5, <2>6, <2>7
  <1> QED
    BY <1>1, <1>2 DEF CountIsExact

(* ProposalCoversDelivery: what an approver is proposed for a scope is     *)
(* enough to download everything a grant over it confers.                  *)
THEOREM ProposalSuffices == DeliverySpec => []ProposalCoversDelivery
  BY ProposedIsEnough, PTL

(* CountIsExact: the count shown with a grant and the list of the portal   *)
(* are what the grants deliver.                                            *)
THEOREM CountsMatchDelivery == DeliverySpec => []CountIsExact
  BY CountsAgree, PTL
-----------------------------------------------------------------------------
(* File rows and their objects.                                            *)
Keyed == {"stored", "numbered", "record"}

(* What an upload holds is in storage, under a key nobody else has.        *)
UploadsHold ==
    \A u \in Uploads : upload[u].op \in Keyed =>
        /\ upload[u].key \in objects
        /\ upload[u].op # "record" => upload[u].key \in stampable
        /\ upload[u].key \notin Named \cup doomed
        /\ \A w \in Uploads :
              upload[w].op \in Keyed /\ upload[w].key = upload[u].key => w = u

FileKeys == {f.key : f \in files}
RecordKeys == {records[a] : a \in Signatures} \ {NoKey}

(* A key is named once; what is doomed is named no more.                   *)
KeysHold ==
    /\ \A f, h \in files : f.key = h.key => f = h
    /\ \A a, b \in Signatures : records[a] = records[b] /\ records[a] # NoKey => a = b
    /\ FileKeys \cap RecordKeys = {}
    /\ doomed \subseteq drawn
    /\ doomed \cap Named = {}

(* The keys a purge has read are of records of its person and nobody       *)
(* else's, neither of files nor of uploads.                                *)
PurgeHolds ==
    purge.op = "read" =>
        /\ purge.keys \subseteq drawn \ FileKeys
        /\ \A a \in Signatures \ purge.of : records[a] \notin purge.keys
        /\ \A u \in Uploads : upload[u].op \in Keyed => upload[u].key \notin purge.keys

FilesInv == FilesTypeOK /\ UploadsHold /\ KeysHold /\ PurgeHolds /\ RowsHaveObjects

LEMMA NamedKeys == Named = FileKeys \cup RecordKeys
  BY DEF Named, FileKeys, RecordKeys

LEMMA UploadFields ==
  ASSUME FilesTypeOK, NEW u \in Uploads
  PROVE  /\ upload[u].op \in Keyed \cup {"rest", "signed"}
         /\ upload[u].op = "rest" <=> upload[u] = Rest
         /\ upload[u].op \in Keyed => upload[u].key \in Keys
         /\ upload[u].op = "numbered" => upload[u].version \in 1..MaxFileVersion
         /\ upload[u].op \in {"signed", "record"} => upload[u].of \in Signatures
  <1>1. upload[u] \in UploadState
    BY DEF FilesTypeOK
  <1> QED
    BY <1>1 DEF UploadState, Rest, Keyed

LEMMA HighestIsNatural ==
  ASSUME FilesTypeOK
  PROVE  HighestVersion \in 0..MaxFileVersion
  <1> DEFINE V == {f.version : f \in files}
  <1>1. V \subseteq 0..MaxFileVersion /\ MaxFileVersion \in Nat
    BY FilesAssumption DEF FilesTypeOK, FileRow
  <1>2. CASE files = {}
    BY <1>1, <1>2 DEF HighestVersion
  <1>3. CASE files # {}
    <2>1. V # {}
      BY <1>3
    <2>2. \E v \in V : \A w \in V : w <= v
      <3> HIDE DEF V
      <3> QED
        BY <1>1, <2>1, GreatestExists
    <2>3. \E v \in V : \A f \in files : f.version <= v
      BY <2>2
    <2>4. HighestVersion = CHOOSE v \in V : \A f \in files : f.version <= v
      BY <1>3 DEF HighestVersion
    <2>5. HighestVersion \in V
      BY <2>3, <2>4
    <2> QED
      BY <1>1, <2>5
  <1> QED
    BY <1>2, <1>3

LEMMA FilesStart == FilesInit => FilesInv
  <1> SUFFICES ASSUME FilesInit PROVE FilesInv
    OBVIOUS
  <1>1. FilesTypeOK
    BY FilesAssumption DEF FilesInit, FilesTypeOK, UploadState, StreamState,
       PurgeState, Rest
  <1>2. Named = {} /\ FileKeys = {}
    BY FilesAssumption DEF FilesInit, Named, FileKeys
  <1> QED
    BY <1>1, <1>2
    DEF FilesInit, FilesInv, UploadsHold, KeysHold, PurgeHolds, RowsHaveObjects, Rest, Keyed,
        FileKeys, RecordKeys

(* Uploads: a key that was never drawn is put, and then numbered.          *)
LEMMA PutKeeps ==
  ASSUME FilesInv, NEW u \in Uploads, NEW k \in Keys, k \notin drawn, NEW s \in UploadState,
         s.op \in Keyed, s.key = k,
         upload' = [upload EXCEPT ![u] = s], drawn' = drawn \cup {k}, objects' = objects \cup {k},
         stampable' \subseteq stampable \cup {k}, stampable \subseteq stampable',
         s.op # "record" => k \in stampable',
         UNCHANGED <<files, exists, accepted, records, doomed, stream, erasureVars>>
  PROVE  FilesInv'
  <1>0. FilesTypeOK /\ UploadsHold /\ KeysHold /\ PurgeHolds /\ RowsHaveObjects
    BY DEF FilesInv
  <1>1. FilesTypeOK'
    BY <1>0 DEF FilesTypeOK, erasureVars
  <1>2. Named' = Named /\ FileKeys' = FileKeys /\ RecordKeys' = RecordKeys
    BY DEF Named, FileKeys, RecordKeys
  <1>3. upload'[u] = s /\ \A w \in Uploads \ {u} : upload'[w] = upload[w]
    BY <1>0 DEF FilesTypeOK
  <1>4. k \notin Named \cup doomed /\ k \notin objects
    BY <1>0 DEF FilesTypeOK, KeysHold, RowsHaveObjects
  <1>5. UploadsHold'
    <2> SUFFICES ASSUME NEW v \in Uploads, upload'[v].op \in Keyed
                 PROVE  /\ upload'[v].key \in objects'
                        /\ upload'[v].op # "record" => upload'[v].key \in stampable'
                        /\ upload'[v].key \notin Named' \cup doomed'
                        /\ \A w \in Uploads :
                              upload'[w].op \in Keyed /\ upload'[w].key = upload'[v].key => w = v
      BY DEF UploadsHold
    <2>1. CASE v = u
      BY <1>0, <1>2, <1>3, <1>4, <2>1 DEF UploadsHold
    <2>2. CASE v # u
      BY <1>0, <1>2, <1>3, <1>4, <2>2 DEF UploadsHold
    <2> QED
      BY <2>1, <2>2
  <1>6. KeysHold' /\ RowsHaveObjects'
    BY <1>0, <1>2 DEF KeysHold, RowsHaveObjects, FileKeys
  <1>7. PurgeHolds'
    BY <1>0, <1>2, <1>3 DEF PurgeHolds, erasureVars
  <1> QED
    BY <1>1, <1>5, <1>6, <1>7 DEF FilesInv

LEMMA PutObjectKeeps ==
  ASSUME FilesInv, NEW u \in Uploads, NEW k \in Keys, NEW pages \in PageCounts,
         PutObject(u, k, pages)
  PROVE  FilesInv'
  <1> DEFINE s == [op |-> "stored", key |-> k]
  <1>1. s \in UploadState /\ s.op \in Keyed /\ s.key = k
    BY DEF UploadState, Keyed
  <1>2. stampable' = stampable \cup {k}
    BY DEF PutObject, Admitted
  <1>3. upload' = [upload EXCEPT ![u] = s]
    BY DEF PutObject
  <1> HIDE DEF s
  <1> QED
    BY <1>1, <1>2, <1>3, PutKeeps DEF PutObject

LEMMA PutRecordKeeps ==
  ASSUME FilesInv, NEW u \in Uploads, NEW k \in Keys, PutRecord(u, k)
  PROVE  FilesInv'
  <1> DEFINE s == [op |-> "record", key |-> k, of |-> upload[u].of]
  <1>0. upload[u].of \in Signatures
    BY UploadFields DEF FilesInv, PutRecord
  <1>1. s \in UploadState /\ s.op \in Keyed /\ s.key = k /\ s.op = "record"
    BY <1>0 DEF UploadState, Keyed
  <1>2. upload' = [upload EXCEPT ![u] = s] /\ stampable' = stampable
    BY DEF PutRecord
  <1> HIDE DEF s
  <1> QED
    BY <1>1, <1>2, PutKeeps DEF PutRecord

(* An upload moves on under its key, or lets go of it.                     *)
LEMMA UploadMoves ==
  ASSUME FilesInv, NEW u \in Uploads, NEW s \in UploadState,
         upload' = [upload EXCEPT ![u] = s],
         s.op \in Keyed => /\ upload[u].op \in Keyed /\ s.key = upload[u].key
                           /\ s.op # "record" => upload[u].op # "record",
         accepted' \subseteq Signatures,
         UNCHANGED <<objects, stampable, drawn, files, exists, records, doomed, stream, erasureVars>>
  PROVE  FilesInv'
  <1>0. FilesTypeOK /\ UploadsHold /\ KeysHold /\ PurgeHolds /\ RowsHaveObjects
    BY DEF FilesInv
  <1>1. FilesTypeOK'
    BY <1>0 DEF FilesTypeOK, erasureVars
  <1>2. Named' = Named /\ FileKeys' = FileKeys /\ RecordKeys' = RecordKeys
    BY DEF Named, FileKeys, RecordKeys
  <1>3. upload'[u] = s /\ \A w \in Uploads \ {u} : upload'[w] = upload[w]
    BY <1>0 DEF FilesTypeOK
  <1>4. UploadsHold'
    BY <1>0, <1>2, <1>3 DEF UploadsHold
  <1>5. KeysHold' /\ RowsHaveObjects'
    BY <1>0, <1>2 DEF KeysHold, RowsHaveObjects, FileKeys
  <1>6. PurgeHolds'
    BY <1>0, <1>2, <1>3 DEF PurgeHolds, erasureVars
  <1> QED
    BY <1>1, <1>4, <1>5, <1>6 DEF FilesInv

LEMMA SignAgreementKeeps ==
  ASSUME FilesInv, NEW u \in Uploads, NEW a \in Signatures, SignAgreement(u, a)
  PROVE  FilesInv'
  <1> DEFINE s == [op |-> "signed", of |-> a]
  <1>1. s \in UploadState /\ s.op \notin Keyed
    BY DEF UploadState, Keyed
  <1>2. upload' = [upload EXCEPT ![u] = s]
    BY DEF SignAgreement
  <1>3. accepted' \subseteq Signatures
    BY DEF SignAgreement, FilesInv, FilesTypeOK
  <1> HIDE DEF s
  <1> QED
    BY <1>1, <1>2, <1>3, UploadMoves DEF SignAgreement

LEMMA NumberFileKeeps ==
  ASSUME FilesInv, NEW u \in Uploads, NumberFile(u)
  PROVE  FilesInv'
  <1> DEFINE s == [op |-> "numbered", key |-> upload[u].key, version |-> HighestVersion + 1]
  <1>0. FilesTypeOK /\ upload[u].op = "stored"
    BY DEF FilesInv, NumberFile
  <1>1. upload[u].key \in Keys /\ upload[u].op \in Keyed
    BY <1>0, UploadFields DEF Keyed
  <1>2. HighestVersion + 1 \in 1..MaxFileVersion
    BY <1>0, HighestIsNatural, FilesAssumption DEF NumberFile
  <1>3. s \in UploadState /\ s.key = upload[u].key
    BY <1>1, <1>2 DEF UploadState
  <1>4. upload' = [upload EXCEPT ![u] = s]
    BY DEF NumberFile
  <1> HIDE DEF s
  <1> QED
    BY <1>0, <1>1, <1>3, <1>4, UploadMoves DEF NumberFile, FilesTypeOK

LEMMA UploadFailsKeeps ==
  ASSUME FilesInv, NEW u \in Uploads, UploadFails(u)
  PROVE  FilesInv'
  <1>1. Rest \in UploadState /\ Rest.op \notin Keyed
    BY DEF UploadState, Rest, Keyed
  <1> QED
    BY <1>1, UploadMoves DEF UploadFails, FilesInv, FilesTypeOK

(* A key an upload held gets its name.                                     *)
LEMMA NameGiven ==
  ASSUME FilesInv, NEW u \in Uploads, upload[u].op \in Keyed, NEW k, k = upload[u].key,
         upload' = [upload EXCEPT ![u] = Rest],
         UNCHANGED <<objects, stampable, drawn, exists, doomed, stream, erasureVars>>,
         FilesTypeOK', Named' \subseteq Named \cup {k},
         FileKeys' \subseteq stampable,
         \A f, h \in files' : f.key = h.key => f = h,
         \A a, b \in Signatures : records'[a] = records'[b] /\ records'[a] # NoKey => a = b,
         \A a \in Signatures : records'[a] \in {records[a], k},
         FileKeys' \subseteq FileKeys \cup {k},
         FileKeys' \cap RecordKeys' = {}
  PROVE  FilesInv'
  <1>0. FilesTypeOK /\ UploadsHold /\ KeysHold /\ PurgeHolds /\ RowsHaveObjects
    BY DEF FilesInv
  <1>1. k \in objects /\ k \notin doomed
    BY <1>0 DEF UploadsHold
  <1>2. upload'[u] = Rest /\ \A w \in Uploads \ {u} : upload'[w] = upload[w]
    BY <1>0 DEF FilesTypeOK
  <1>3. UploadsHold'
    <2> SUFFICES ASSUME NEW v \in Uploads, upload'[v].op \in Keyed
                 PROVE  /\ upload'[v].key \in objects'
                        /\ upload'[v].op # "record" => upload'[v].key \in stampable'
                        /\ upload'[v].key \notin Named' \cup doomed'
                        /\ \A w \in Uploads :
                              upload'[w].op \in Keyed /\ upload'[w].key = upload'[v].key => w = v
      BY DEF UploadsHold
    <2>1. v # u /\ upload'[v] = upload[v]
      BY <1>2 DEF Rest, Keyed
    <2>2. upload[v].key # k
      BY <1>0, <2>1 DEF UploadsHold
    <2>3. \A w \in Uploads : upload'[w].op \in Keyed => upload'[w] = upload[w]
      BY <1>2 DEF Rest, Keyed
    <2> QED
      BY <1>0, <2>1, <2>2, <2>3 DEF UploadsHold
  <1>4. KeysHold'
    BY <1>0, <1>1 DEF KeysHold
  <1>5. RowsHaveObjects'
    BY <1>0, <1>1 DEF RowsHaveObjects, FileKeys
  <1>6. PurgeHolds'
    <2> SUFFICES ASSUME purge'.op = "read"
                 PROVE  /\ purge'.keys \subseteq drawn' \ FileKeys'
                        /\ \A a \in Signatures \ purge'.of : records'[a] \notin purge'.keys
                        /\ \A v \in Uploads : upload'[v].op \in Keyed =>
                                                   upload'[v].key \notin purge'.keys
      BY DEF PurgeHolds
    <2>1. purge' = purge /\ drawn' = drawn
      BY DEF erasureVars
    <2>2. k \notin purge.keys
      BY <1>0, <2>1 DEF PurgeHolds
    <2>3. \A v \in Uploads : upload'[v].op \in Keyed => upload'[v] = upload[v]
      BY <1>2 DEF Rest, Keyed
    <2>4. \A a \in Signatures \ purge.of : records'[a] \notin purge.keys
      BY <1>0, <2>1, <2>2 DEF PurgeHolds
    <2> QED
      BY <1>0, <2>1, <2>2, <2>3, <2>4 DEF PurgeHolds
  <1> QED
    BY <1>3, <1>4, <1>5, <1>6 DEF FilesInv

LEMMA InsertFileKeeps ==
  ASSUME FilesInv, NEW u \in Uploads, InsertFile(u)
  PROVE  FilesInv'
  <1>0. FilesTypeOK /\ UploadsHold /\ KeysHold /\ PurgeHolds /\ RowsHaveObjects
    BY DEF FilesInv
  <1> DEFINE s == upload[u]
             old == {[f EXCEPT !.current = FALSE] : f \in files}
             new == [key |-> s.key, version |-> s.version, current |-> TRUE]
  <1>1. /\ s.op = "numbered" /\ s.op \in Keyed /\ s.key \in Keys
        /\ s.version \in 1..MaxFileVersion /\ files' = old \cup {new}
        /\ upload' = [upload EXCEPT ![u] = Rest]
        /\ UNCHANGED <<objects, stampable, drawn, exists, accepted, records, doomed,
                       stream, erasureVars>>
    BY <1>0, UploadFields DEF InsertFile, Keyed
  <1>2. \A f \in files : /\ [f EXCEPT !.current = FALSE] \in FileRow
                         /\ [f EXCEPT !.current = FALSE].key = f.key
    BY <1>0 DEF FilesTypeOK, FileRow
  <1>3. new \in FileRow /\ new.key = s.key
    BY <1>1 DEF FileRow
  <1>4. s.key \in objects /\ s.key \in stampable /\ s.key \notin Named
    BY <1>0, <1>1 DEF UploadsHold
  <1>5. files' \subseteq FileRow
    BY <1>1, <1>2, <1>3
  <1>6. FilesTypeOK'
    <2>1. Rest \in UploadState
      BY DEF UploadState
    <2> QED
      BY <1>0, <1>1, <1>5, <2>1 DEF FilesTypeOK, erasureVars
  <1>7. FileKeys' = FileKeys \cup {s.key}
    <2>1. FileKeys' = {f.key : f \in old} \cup {s.key}
      BY <1>1, <1>3 DEF FileKeys
    <2>2. {f.key : f \in old} = FileKeys
      BY <1>2 DEF FileKeys
    <2> QED
      BY <2>1, <2>2
  <1>8. RecordKeys' = RecordKeys
    BY <1>1 DEF RecordKeys
  <1>9. Named' = Named \cup {s.key}
    BY <1>7, <1>8 DEF Named, FileKeys, RecordKeys
  <1>10. \A f, h \in files' : f.key = h.key => f = h
    <2> SUFFICES ASSUME NEW f \in files', NEW h \in files', f.key = h.key PROVE f = h
      OBVIOUS
    <2>1. \A x \in old : x.key \in FileKeys
      BY <1>2 DEF FileKeys
    <2>2. s.key \notin FileKeys
      BY <1>4, NamedKeys
    <2>3. CASE f \in old /\ h \in old
      <3>1. PICK a \in files, b \in files :
                f = [a EXCEPT !.current = FALSE] /\ h = [b EXCEPT !.current = FALSE]
        BY <2>3
      <3>2. a.key = b.key
        BY <1>2, <3>1
      <3> QED
        BY <1>0, <3>1, <3>2 DEF KeysHold
    <2> HIDE DEF old, new
    <2> QED
      BY <1>1, <1>3, <2>1, <2>2, <2>3
  <1>11. FileKeys' \cap RecordKeys' = {}
    BY <1>0, <1>4, <1>7, <1>8, NamedKeys DEF KeysHold
  <1>12. FileKeys' \subseteq stampable
    BY <1>0, <1>4, <1>7 DEF RowsHaveObjects, FileKeys
  <1>13. \A a, b \in Signatures : records'[a] = records'[b] /\ records'[a] # NoKey => a = b
    BY <1>0, <1>1 DEF KeysHold
  <1> HIDE DEF s, old, new
  <1> QED
    BY <1>1, <1>6, <1>7, <1>9, <1>10, <1>11, <1>12, <1>13, NameGiven DEF s

LEMMA PointRecordKeeps ==
  ASSUME FilesInv, NEW u \in Uploads, PointRecord(u)
  PROVE  FilesInv'
  <1>0. FilesTypeOK /\ UploadsHold /\ KeysHold /\ PurgeHolds /\ RowsHaveObjects
    BY DEF FilesInv
  <1> DEFINE k == upload[u].key
             a == upload[u].of
  <1>1. /\ upload[u].op = "record" /\ upload[u].op \in Keyed /\ k \in Keys /\ a \in Signatures
        /\ records' = [records EXCEPT ![a] = k]
        /\ upload' = [upload EXCEPT ![u] = Rest]
        /\ UNCHANGED <<objects, stampable, drawn, files, exists, accepted, doomed, stream, erasureVars>>
    BY <1>0, UploadFields DEF PointRecord, Keyed
  <1>2. k \notin Named
    BY <1>0, <1>1 DEF UploadsHold
  <1>3. FilesTypeOK'
    <2>1. Rest \in UploadState
      BY DEF UploadState
    <2> QED
      BY <1>0, <1>1, <2>1 DEF FilesTypeOK, erasureVars
  <1>4. FileKeys' = FileKeys
    BY <1>1 DEF FileKeys
  <1>5. RecordKeys' \subseteq RecordKeys \cup {k}
    BY <1>0, <1>1 DEF RecordKeys, FilesTypeOK
  <1>6. Named' \subseteq Named \cup {k}
    BY <1>4, <1>5 DEF Named, FileKeys, RecordKeys
  <1>7. FileKeys' \cap RecordKeys' = {}
    BY <1>0, <1>2, <1>4, <1>5, NamedKeys DEF KeysHold
  <1>8. FileKeys' \subseteq stampable
    BY <1>0, <1>4 DEF RowsHaveObjects, FileKeys
  <1>9. \A f, h \in files' : f.key = h.key => f = h
    BY <1>0, <1>1 DEF KeysHold
  <1>10. \A b \in Signatures : records'[b] = IF b = a THEN k ELSE records[b]
    BY <1>0, <1>1 DEF FilesTypeOK
  <1>11. \A b \in Signatures : records[b] # k
    BY <1>1, <1>2, FilesAssumption DEF Named
  <1>12. \A b, c \in Signatures : records'[b] = records'[c] /\ records'[b] # NoKey => b = c
    BY <1>0, <1>10, <1>11 DEF KeysHold
  <1>13. \A b \in Signatures : records'[b] \in {records[b], k}
    BY <1>10
  <1>14. FileKeys' \subseteq FileKeys \cup {k}
    BY <1>4
  <1> HIDE DEF k, a
  <1> QED
    BY <1>1, <1>3, <1>6, <1>7, <1>8, <1>9, <1>12, <1>13, <1>14, NameGiven DEF k

(* Deletions: what loses its name is doomed, what is doomed goes.          *)
LEMMA DeletionKeeps ==
  ASSUME FilesInv, FilesTypeOK', files' \subseteq files, objects' \subseteq objects,
         objects \ objects' \subseteq doomed,
         doomed' \subseteq doomed \cup (FileKeys \ FileKeys'),
         UNCHANGED <<stampable, drawn, records, upload, purge>>
  PROVE  FilesInv'
  <1>0. FilesTypeOK /\ UploadsHold /\ KeysHold /\ PurgeHolds /\ RowsHaveObjects
    BY DEF FilesInv
  <1>1. FileKeys' \subseteq FileKeys /\ RecordKeys' = RecordKeys
    BY DEF FileKeys, RecordKeys
  <1>2. Named' = FileKeys' \cup RecordKeys /\ Named = FileKeys \cup RecordKeys
    BY DEF Named, FileKeys, RecordKeys
  <1>3. Named \subseteq drawn
    BY <1>0 DEF RowsHaveObjects, FilesTypeOK
  <1>4. UploadsHold'
    BY <1>0, <1>1, <1>2 DEF UploadsHold
  <1>5. KeysHold'
    BY <1>0, <1>1, <1>2, <1>3 DEF KeysHold
  <1>6. RowsHaveObjects'
    BY <1>0, <1>1, <1>2 DEF RowsHaveObjects, KeysHold, FileKeys
  <1>7. PurgeHolds'
    BY <1>0, <1>1 DEF PurgeHolds
  <1> QED
    BY <1>4, <1>5, <1>6, <1>7 DEF FilesInv

LEMMA DeleteFileKeeps ==
  ASSUME FilesInv, NEW f \in files, DeleteFile(f)
  PROVE  FilesInv'
  <1>0. FilesTypeOK /\ KeysHold
    BY DEF FilesInv
  <1>1. f.key \in Keys
    BY <1>0 DEF FilesTypeOK, FileRow
  <1>2. FilesTypeOK'
    BY <1>0, <1>1 DEF FilesTypeOK, DeleteFile, erasureVars
  <1>3. f.key \in FileKeys \ FileKeys'
    BY <1>0 DEF FileKeys, DeleteFile, KeysHold
  <1> QED
    BY <1>2, <1>3, DeletionKeeps DEF DeleteFile, erasureVars

LEMMA DeleteDocumentRowKeeps ==
  ASSUME FilesInv, NEW late \in SUBSET files, DeleteDocumentRow(late)
  PROVE  FilesInv'
  <1>0. FilesTypeOK
    BY DEF FilesInv
  <1>1. {f.key : f \in files \ late} \subseteq FileKeys \cap Keys /\ FileKeys' = {}
    BY <1>0 DEF FilesTypeOK, FileRow, FileKeys, DeleteDocumentRow
  <1>2. FilesTypeOK'
    BY <1>0, <1>1 DEF FilesTypeOK, DeleteDocumentRow, erasureVars
  <1> QED
    BY <1>1, <1>2, DeletionKeeps DEF DeleteDocumentRow, erasureVars

LEMMA DeleteObjectKeeps ==
  ASSUME FilesInv, NEW k \in Keys, DeleteObject(k) \/ LeaveObject(k)
  PROVE  FilesInv'
  <1>1. FilesTypeOK'
    BY DEF FilesInv, FilesTypeOK, DeleteObject, LeaveObject, erasureVars
  <1> QED
    BY <1>1, DeletionKeeps DEF DeleteObject, LeaveObject, erasureVars

(* The purge of a person: what it has read, what it nulls and dooms.       *)
LEMMA PurgeReadKeeps ==
  ASSUME FilesInv, NEW S \in SUBSET Signatures, PurgeRead(S)
  PROVE  FilesInv'
  <1>0. FilesTypeOK /\ UploadsHold /\ KeysHold /\ PurgeHolds /\ RowsHaveObjects
    BY DEF FilesInv
  <1> DEFINE keys == {records[a] : a \in S} \ {NoKey}
  <1>1. /\ purge' = [op |-> "read", of |-> S, keys |-> keys]
        /\ UNCHANGED <<objects, stampable, drawn, files, exists, accepted, records, upload,
                       doomed, stream, erased, overtaken>>
    BY DEF PurgeRead
  <1>2. keys \subseteq RecordKeys /\ keys \subseteq Keys
    BY <1>0 DEF RecordKeys, FilesTypeOK
  <1>3. \A a \in Signatures \ S : records[a] \notin keys
    BY <1>0 DEF KeysHold
  <1>4. keys \subseteq Named \ FileKeys /\ Named \subseteq drawn
    BY <1>0, <1>2, NamedKeys DEF KeysHold, RowsHaveObjects, FilesTypeOK
  <1>5. \A u \in Uploads : upload[u].op \in Keyed => upload[u].key \notin keys
    BY <1>0, <1>4 DEF UploadsHold
  <1> HIDE DEF keys
  <1>6. FilesTypeOK'
    <2>1. purge' \in PurgeState
      BY <1>1, <1>2 DEF PurgeState
    <2> QED
      BY <1>0, <1>1, <2>1 DEF FilesTypeOK
  <1>7. PurgeHolds'
    BY <1>1, <1>3, <1>4, <1>5 DEF PurgeHolds, FileKeys
  <1>8. UploadsHold' /\ KeysHold' /\ RowsHaveObjects'
    BY <1>0, <1>1 DEF UploadsHold, KeysHold, RowsHaveObjects, Named, FileKeys, RecordKeys
  <1> QED
    BY <1>6, <1>7, <1>8 DEF FilesInv

LEMMA PurgeCommitKeeps ==
  ASSUME FilesInv, PurgeCommit
  PROVE  FilesInv'
  <1>0. FilesTypeOK /\ UploadsHold /\ KeysHold /\ PurgeHolds /\ RowsHaveObjects
    BY DEF FilesInv
  <1>1. /\ purge.op = "read" /\ purge.of \subseteq Signatures /\ purge.keys \subseteq Keys
        /\ purge' = Rest /\ doomed' = doomed \cup purge.keys
        /\ UNCHANGED <<objects, stampable, drawn, files, exists, accepted, upload, stream>>
    BY <1>0 DEF PurgeCommit, FilesTypeOK, PurgeState, Rest
  <1>2. /\ \A a \in Signatures : records'[a] = IF a \in purge.of THEN NoKey ELSE records[a]
        /\ records' \in [Signatures -> Keys \cup {NoKey}]
    BY <1>0 DEF PurgeCommit, FilesTypeOK
  <1>3. RecordKeys' \subseteq RecordKeys /\ FileKeys' = FileKeys
    BY <1>1, <1>2 DEF RecordKeys, FileKeys
  <1>4. Named' = FileKeys \cup RecordKeys' /\ Named = FileKeys \cup RecordKeys
    BY <1>3 DEF Named, FileKeys, RecordKeys
  <1>5. purge.keys \cap Named' = {}
    <2>1. purge.keys \cap RecordKeys' = {}
      BY <1>0, <1>1, <1>2 DEF PurgeHolds, RecordKeys
    <2> QED
      BY <1>0, <1>1, <1>4, <2>1 DEF PurgeHolds
  <1>6. FilesTypeOK'
    <2>1. overtaken' \subseteq erased' /\ erased' \subseteq Signatures
      BY <1>0, <1>1 DEF PurgeCommit, FilesTypeOK
    <2>2. Rest \in PurgeState
      BY DEF PurgeState
    <2> QED
      BY <1>0, <1>1, <1>2, <2>1, <2>2 DEF FilesTypeOK
  <1>7. UploadsHold'
    <2>1. \A u \in Uploads : upload[u].op \in Keyed =>
              upload[u].key \notin Named' \cup doomed'
      BY <1>0, <1>1, <1>3, <1>4 DEF UploadsHold, PurgeHolds
    <2> QED
      BY <1>0, <1>1, <2>1 DEF UploadsHold
  <1>8. KeysHold'
    <2>1. \A a, b \in Signatures : records'[a] = records'[b] /\ records'[a] # NoKey => a = b
      BY <1>0, <1>2 DEF KeysHold
    <2>2. doomed' \subseteq drawn' /\ doomed' \cap Named' = {}
      BY <1>0, <1>1, <1>3, <1>4, <1>5 DEF KeysHold, PurgeHolds
    <2> QED
      BY <1>0, <1>1, <1>3, <2>1, <2>2 DEF KeysHold
  <1>9. RowsHaveObjects' /\ PurgeHolds'
    BY <1>0, <1>1, <1>3, <1>4 DEF RowsHaveObjects, PurgeHolds, Rest, FileKeys
  <1> QED
    BY <1>6, <1>7, <1>8, <1>9 DEF FilesInv

LEMMA PurgeFailsKeeps ==
  ASSUME FilesInv, PurgeFails
  PROVE  FilesInv'
  <1>1. FilesTypeOK' /\ PurgeHolds'
    BY DEF FilesInv, PurgeFails, FilesTypeOK, PurgeState, PurgeHolds, Rest
  <1>2. UploadsHold' /\ KeysHold' /\ RowsHaveObjects'
    BY DEF FilesInv, PurgeFails, UploadsHold, KeysHold, RowsHaveObjects, Named, FileKeys, RecordKeys
  <1> QED
    BY <1>1, <1>2 DEF FilesInv

(* Downloads change nothing but their own state.                           *)
StreamStep(s) ==
    \/ \E k \in Keys : LookUp(s, k)
    \/ ReadObject(s)
    \/ StreamFails(s)
    \/ RecordDownload(s)
    \/ SendBody(s)

LEMMA StreamStepKeeps ==
  ASSUME FilesInv, NEW s \in Streams, StreamStep(s)
  PROVE  FilesInv'
  <1>0. FilesTypeOK /\ UploadsHold /\ KeysHold /\ PurgeHolds /\ RowsHaveObjects
    BY DEF FilesInv
  <1>1. /\ UNCHANGED <<objects, stampable, drawn, files, exists, accepted, records, upload, doomed>>
        /\ UNCHANGED <<purge, erased, overtaken>>
    BY DEF StreamStep, LookUp, ReadObject, StreamFails, RecordDownload, SendBody, erasureVars
  <1>2. stream' \in [Streams -> StreamState]
    <2>1. stream \in [Streams -> StreamState] /\ stream[s] \in StreamState
      BY <1>0 DEF FilesTypeOK
    <2>2. ASSUME NEW k \in Keys, LookUp(s, k) PROVE stream' \in [Streams -> StreamState]
      BY <2>1, <2>2 DEF LookUp, StreamState
    <2>3. CASE ReadObject(s) \/ RecordDownload(s)
      <3>1. stream[s] \in [op : {"found", "read", "recorded"}, key : Keys]
        BY <2>1, <2>3 DEF ReadObject, RecordDownload, StreamState, Rest
      <3>2. \A op \in {"read", "recorded"} : [stream[s] EXCEPT !.op = op] \in StreamState
        BY <3>1 DEF StreamState
      <3> QED
        BY <2>1, <2>3, <3>2 DEF ReadObject, RecordDownload
    <2>4. CASE StreamFails(s) \/ SendBody(s)
      BY <2>1, <2>4 DEF StreamFails, SendBody, StreamState
    <2> QED
      BY <2>2, <2>3, <2>4 DEF StreamStep
  <1>3. FilesTypeOK'
    BY <1>0, <1>1, <1>2 DEF FilesTypeOK
  <1>4. UploadsHold' /\ KeysHold' /\ PurgeHolds' /\ RowsHaveObjects'
    BY <1>0, <1>1
    DEF UploadsHold, KeysHold, PurgeHolds, RowsHaveObjects, Named, FileKeys, RecordKeys
  <1> QED
    BY <1>3, <1>4 DEF FilesInv

LEMMA FilesKept == ASSUME FilesInv, [FilesNext]_fileVars PROVE FilesInv'
  <1>1. ASSUME NEW u \in Uploads, NEW k \in Keys, NEW pages \in PageCounts, PutObject(u, k, pages)
        PROVE  FilesInv'
    BY <1>1, PutObjectKeeps
  <1>2. ASSUME NEW u \in Uploads, NEW k \in Keys, PutRecord(u, k) PROVE FilesInv'
    BY <1>2, PutRecordKeeps
  <1>3. ASSUME NEW u \in Uploads, NumberFile(u) PROVE FilesInv'
    BY <1>3, NumberFileKeeps
  <1>4. ASSUME NEW u \in Uploads, InsertFile(u) PROVE FilesInv'
    BY <1>4, InsertFileKeeps
  <1>5. ASSUME NEW u \in Uploads, PointRecord(u) PROVE FilesInv'
    BY <1>5, PointRecordKeeps
  <1>6. ASSUME NEW u \in Uploads, UploadFails(u) PROVE FilesInv'
    BY <1>6, UploadFailsKeeps
  <1>7. ASSUME NEW f \in files, DeleteFile(f) PROVE FilesInv'
    BY <1>7, DeleteFileKeeps
  <1>8. ASSUME NEW late \in SUBSET files, DeleteDocumentRow(late) PROVE FilesInv'
    BY <1>8, DeleteDocumentRowKeeps
  <1>9. ASSUME NEW k \in Keys, DeleteObject(k) \/ LeaveObject(k) PROVE FilesInv'
    BY <1>9, DeleteObjectKeeps
  <1>10. ASSUME NEW s \in Streams, StreamStep(s) PROVE FilesInv'
    BY <1>10, StreamStepKeeps
  <1>11. CASE UNCHANGED fileVars
    <2>1. FilesTypeOK' /\ PurgeHolds'
      BY <1>11 DEF FilesInv, FilesTypeOK, PurgeHolds, FileKeys, fileVars, erasureVars
    <2>2. UploadsHold' /\ KeysHold' /\ RowsHaveObjects'
      BY <1>11
      DEF FilesInv, UploadsHold, KeysHold, RowsHaveObjects, Named, FileKeys, RecordKeys, fileVars
    <2> QED
      BY <2>1, <2>2 DEF FilesInv
  <1>12. ASSUME NEW u \in Uploads, NEW a \in Signatures, SignAgreement(u, a) PROVE FilesInv'
    BY <1>12, SignAgreementKeeps
  <1>13. ASSUME NEW S \in SUBSET Signatures, PurgeRead(S) PROVE FilesInv'
    BY <1>13, PurgeReadKeeps
  <1>14. CASE PurgeCommit \/ PurgeFails
    BY <1>14, PurgeCommitKeeps, PurgeFailsKeeps
  <1>15. CASE FilesNext
    BY <1>1, <1>2, <1>3, <1>4, <1>5, <1>6, <1>7, <1>8, <1>9, <1>10, <1>12, <1>13, <1>14, <1>15
    DEF FilesNext, StreamStep
  <1> QED
    BY <1>11, <1>15

(* The inductive invariant of the files: what uploads, rows and downloads  *)
(* hold, and what each key is used for.                                    *)
THEOREM FilesInductive == FilesSpec => []FilesInv
  <1> QED
    BY FilesStart, FilesKept, PTL DEF FilesSpec

(* Every variable of the component stays within its type.                  *)
THEOREM FilesTypes == FilesSpec => []FilesTypeOK
  <1>1. FilesInv => FilesTypeOK
    BY DEF FilesInv
  <1> QED
    BY <1>1, FilesInductive, PTL

(* A file row and a filed record name an object that is there, also while   *)
(* people are purged and their records deleted.                            *)
THEOREM RowsKeepObjects == FilesSpec => []RowsHaveObjects
  <1>1. FilesInv => RowsHaveObjects
    BY DEF FilesInv
  <1> QED
    BY <1>1, FilesInductive, PTL

-----------------------------------------------------------------------------
(* Of an erased person's signatures, only the overtaken ones have a record *)
(* or may yet get one.                                                     *)
ErasedHold ==
    \A a \in erased : records[a] # NoKey \/ Recording(a) => a \in overtaken

(* Only the commit of a purge makes a person an erased one.                *)
LEMMA ErasureStands ==
  [FilesNext]_fileVars /\ ~ PurgeCommit => UNCHANGED <<erased, overtaken>>
  BY DEF FilesNext, fileVars, erasureVars, PutObject, PutRecord, SignAgreement, NumberFile,
         InsertFile, PointRecord, UploadFails, DeleteFile, DeleteDocumentRow, DeleteObject,
         LeaveObject, PurgeRead, PurgeFails, LookUp, ReadObject, StreamFails, RecordDownload,
         SendBody

(* A step of an upload files a record only where one was being filed, and  *)
(* nobody starts to file one for a person who has been erased.             *)
LEMMA FilingIsOld ==
  ASSUME FilesTypeOK, [FilesNext]_fileVars, ~ PurgeCommit, NEW a \in erased
  PROVE  records'[a] # NoKey \/ Recording(a)' => records[a] # NoKey \/ Recording(a)
  <1>0. a \in Signatures /\ erased \subseteq Signatures
    BY DEF FilesTypeOK
  <1>1. ASSUME NEW u \in Uploads, NEW s, upload' = [upload EXCEPT ![u] = s],
               s.op \in {"signed", "record"} => s.of # a \/ Recording(a)
        PROVE  Recording(a)' => Recording(a)
    <2>1. \A w \in Uploads : w # u => upload'[w] = upload[w]
      BY <1>1 DEF FilesTypeOK
    <2>2. upload'[u] = s
      BY <1>1 DEF FilesTypeOK
    <2> QED
      BY <1>1, <2>1, <2>2 DEF Recording
  <1>2. ASSUME NEW u \in Uploads, NEW k \in Keys, NEW pages \in PageCounts, PutObject(u, k, pages)
        PROVE  Recording(a)' => Recording(a)
    BY <1>1, <1>2 DEF PutObject
  <1>3. ASSUME NEW u \in Uploads, NEW k \in Keys, PutRecord(u, k)
        PROVE  Recording(a)' => Recording(a)
    <2>1. upload[u].of = a => Recording(a)
      BY <1>3 DEF PutRecord, Recording
    <2> QED
      BY <1>1, <1>3, <2>1 DEF PutRecord
  <1>4. ASSUME NEW u \in Uploads, NEW b \in Signatures, SignAgreement(u, b)
        PROVE  Recording(a)' => Recording(a)
    BY <1>1, <1>4 DEF SignAgreement
  <1>5. ASSUME NEW u \in Uploads, NumberFile(u) PROVE Recording(a)' => Recording(a)
    BY <1>1, <1>5 DEF NumberFile
  <1>6. ASSUME NEW u \in Uploads, InsertFile(u) \/ PointRecord(u) \/ UploadFails(u)
        PROVE  Recording(a)' => Recording(a)
    BY <1>1, <1>6 DEF InsertFile, PointRecord, UploadFails, Rest
  <1>7. ASSUME upload' = upload PROVE Recording(a)' => Recording(a)
    BY <1>7 DEF Recording
  <1>8. ASSUME NEW u \in Uploads, PointRecord(u)
        PROVE  records'[a] # NoKey => records[a] # NoKey \/ Recording(a)
    BY <1>0, <1>8 DEF PointRecord, Recording, FilesTypeOK
  <1>9. \/ upload' = upload
        \/ \E u \in Uploads :
              \/ \E k \in Keys, pages \in PageCounts : PutObject(u, k, pages)
              \/ \E k \in Keys : PutRecord(u, k)
              \/ \E b \in Signatures : SignAgreement(u, b)
              \/ NumberFile(u) \/ InsertFile(u) \/ PointRecord(u) \/ UploadFails(u)
    BY DEF FilesNext, fileVars, DeleteFile, DeleteDocumentRow, DeleteObject, LeaveObject, PurgeRead,
           PurgeFails, LookUp, ReadObject, StreamFails, RecordDownload, SendBody
  <1>10. records' = records \/ \E u \in Uploads : PointRecord(u)
    BY DEF FilesNext, fileVars, PutObject, PutRecord, SignAgreement, NumberFile, InsertFile,
           UploadFails, DeleteFile, DeleteDocumentRow, DeleteObject, LeaveObject, PurgeRead,
           PurgeFails, LookUp, ReadObject, StreamFails, RecordDownload, SendBody
  <1>11. Recording(a)' => Recording(a)
    BY <1>2, <1>3, <1>4, <1>5, <1>6, <1>7, <1>9
  <1>12. records'[a] # NoKey => records[a] # NoKey \/ Recording(a)
    BY <1>8, <1>10
  <1> QED
    BY <1>11, <1>12

LEMMA ErasedHoldKept ==
  ASSUME FilesTypeOK, ErasedHold, [FilesNext]_fileVars PROVE ErasedHold'
  <1>1. CASE ~ PurgeCommit
    <2>1. erased' = erased /\ overtaken' = overtaken
      BY <1>1, ErasureStands
    <2>2. \A a \in erased : records'[a] # NoKey \/ Recording(a)' =>
                               records[a] # NoKey \/ Recording(a)
      BY <1>1, FilingIsOld
    <2>3. \A a \in erased : records'[a] # NoKey \/ Recording(a)' => a \in overtaken
      BY <2>2 DEF ErasedHold
    <2> QED
      BY <2>1, <2>3 DEF ErasedHold
  <1>2. CASE PurgeCommit
    <2> SUFFICES ASSUME NEW a \in erased', records'[a] # NoKey \/ Recording(a)'
                 PROVE  a \in overtaken'
      BY DEF ErasedHold
    <2>1. purge.of \subseteq Signatures /\ erased \subseteq Signatures
      BY <1>2 DEF PurgeCommit, FilesTypeOK, PurgeState, Rest
    <2>2. Recording(a)' = Recording(a)
      BY <1>2 DEF PurgeCommit, Recording
    <2>3. /\ erased' = erased \cup purge.of
          /\ overtaken' = overtaken \cup {b \in purge.of : Recording(b)}
          /\ records'[a] = IF a \in purge.of THEN NoKey ELSE records[a]
      BY <1>2, <2>1 DEF PurgeCommit
    <2> QED
      BY <2>2, <2>3 DEF ErasedHold
  <1> QED
    BY <1>1, <1>2

(* ErasedKeepNoRecord: once a person is purged, none of their signatures   *)
(* names a record, but for one that was being filed when the purge         *)
(* committed, however the two interleave (purge.ts, record.ts).            *)
THEOREM ErasureTakesRecords == FilesSpec => []ErasedKeepNoRecord
  <1>1. FilesInit => ErasedHold
    BY DEF FilesInit, ErasedHold
  <1>2. ErasedHold => ErasedKeepNoRecord
    BY DEF ErasedHold, ErasedKeepNoRecord
  <1> QED
    BY <1>1, <1>2, ErasedHoldKept, FilesTypes, PTL DEF FilesSpec

----------------------------------------------------------------------------
(* The three parts side by side: a behaviour of the whole is one of each     *)
(* part, which moves when `part` says so and stands still otherwise.         *)

(* The parts start as they do alone, and each step of the whole is a step    *)
(* of one of them that leaves the others' rows as they were.                 *)
LEMMA PartsStart == Init => VersionsInit /\ DeliveryInit /\ FilesInit
BY DEF Init

LEMMA PartsMove ==
    [Next]_partVars => /\ [VersionsNext]_versionVars
                       /\ [DeliveryNext]_deliveryVars
                       /\ [FilesNext]_fileVars
<1>1. CASE Next /\ part = "agreements" BY <1>1 DEF Next
<1>2. CASE Next /\ part = "delivery" BY <1>2 DEF Next
<1>3. CASE Next /\ part = "files" BY <1>3 DEF Next
<1>4. CASE UNCHANGED partVars BY <1>4 DEF partVars
<1> QED BY <1>1, <1>2, <1>3, <1>4 DEF Next

(* Agreements, delivery and files keep their types side by side, from the    *)
(* type theorem of each part.                                                *)
THEOREM DocumentsTypes == Spec => []TypeOK
<1>1. Spec => VersionsSpec BY PartsStart, PartsMove, PTL DEF Spec, VersionsSpec
<1>2. Spec => DeliverySpec BY PartsStart, PartsMove, PTL DEF Spec, DeliverySpec
<1>3. Spec => FilesSpec BY PartsStart, PartsMove, PTL DEF Spec, FilesSpec
<1>4. VersionsTypeOK /\ DeliveryTypeOK /\ FilesTypeOK => TypeOK BY DEF TypeOK
<1> QED BY <1>1, <1>2, <1>3, <1>4, AgreementTypes, DeliveryTypes, FilesTypes, PTL
=============================================================================

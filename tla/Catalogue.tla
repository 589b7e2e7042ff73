----------------------------- MODULE Catalogue -----------------------------
(***************************************************************************)
(* What the public pages offer while staff edit it (src/lib/server/content *)
(* documents.ts, controls.ts, certifications.ts, answers.ts, i18n/locale.ts *)
(* pickTranslation, admin/actions.ts and the pages of both sides).         *)
(*                                                                         *)
(* A page reads its rows in one query and their names, titles and links in *)
(* later ones that run side by side, so a document may be withdrawn, moved *)
(* to another tier or deleted in between.  An editor's form is a row       *)
(* update, a replaced link set in a transaction of its own, and one upsert *)
(* per language.  Documents are `paper` here, and controls, certifications *)
(* and answers are `exhibit`: the three have the same life.  Of a text     *)
(* only the languages it exists in are kept.                               *)
(***************************************************************************)
EXTENDS Naturals, FiniteSets

CONSTANTS
    Papers,        \* document ids
    Exhibits,      \* control, certification and answer ids
    ExhibitKind,   \* [Exhibits -> {"control", "certification", "answer"}]
    Categories,    \* document_category ids
    ControlGroups, \* control_group ids
    Langs, HomeLang, \* enabled locales, and DEFAULT_LOCALE
    NoHeading      \* certifications and answers stand under none

ASSUME CatalogueAssumption == HomeLang \in Langs /\ Categories # {}

VARIABLES
    heading,       \* document_category and control_group rows with their names
    paper,         \* document rows with translations and current files
    exhibit,       \* control, certification and answer rows
    page           \* a public page being rendered

catalogueVars == <<heading, paper, exhibit, page>>

Headings == Categories \cup ControlGroups
(* Of files, the languages with a current one; shut is history: those whose *)
(* current file the document has never been public with.                   *)
PaperRow == [status : {"none", "withheld", "published"}, tier : {"public", "request", "nda"},
             under : Categories, titles : SUBSET Langs, files : SUBSET Langs,
             shut : SUBSET Langs]
ExhibitRow == [exists : BOOLEAN, published : BOOLEAN, under : ControlGroups \cup {NoHeading},
               titles : SUBSET Langs, cites : SUBSET Papers]
NoPaper == [status |-> "none", tier |-> "public", under |-> CHOOSE h \in Categories : TRUE,
            titles |-> {}, files |-> {}, shut |-> {}]
NoExhibit == [exists |-> FALSE, published |-> FALSE, under |-> NoHeading,
              titles |-> {}, cites |-> {}]

(* What a page has read: rows with heading, tier and certificate; then     *)
(* names and titles (languages) and links (row, paper, language).  The     *)
(* rest is history: what was public since it was opened, which files were  *)
(* uploaded since, and which shut ones it has links to.                    *)
Listed == [id : Papers \cup Exhibits, under : Headings \cup {NoHeading},
           free : BOOLEAN, cites : SUBSET Papers]
PageKinds == {"document", "control", "certification", "answer"}
Reads == {"names", "titles", "links"}
NoPage == [kind |-> "none", lang |-> HomeLang, rows |-> {}, unread |-> {}, names |-> {},
           titles |-> {}, links |-> {}, offered |-> {}, wasPublic |-> {}, since |-> {}, shut |-> {}]

FaultyIsPublic(p) == paper[p].status = "published"
IsPublic(p) == paper[p].status = "published" /\ paper[p].tier = "public"
Public == {p \in Papers : paper[p].status = "published" /\ paper[p].tier = "public"}

(* Every step of an editor, with the history of the page being rendered.   *)
Watched == page' = [page EXCEPT !.wasPublic =
    IF page.kind = "none" THEN {}
    ELSE @ \cup {p \in Papers : paper'[p].status = "published" /\ paper'[p].tier = "public"}]

CatalogueInit ==
    /\ heading = [h \in Headings |-> [exists |-> FALSE, names |-> {}]]
    /\ paper = [p \in Papers |-> NoPaper]
    /\ exhibit = [e \in Exhibits |-> NoExhibit]
    /\ page = NoPage
-----------------------------------------------------------------------------
Headed(h) == heading' = [heading EXCEPT ![h] = [exists |-> TRUE, names |-> {}]]
Named(h, l) == heading' = [heading EXCEPT ![h].names = @ \cup {l}]

CreateCategory(h) ==
    /\ h \in Categories /\ ~ heading[h].exists
    /\ Headed(h)
    /\ UNCHANGED <<paper, exhibit, page>>

CreateControlGroup(h) ==
    /\ h \in ControlGroups /\ ~ heading[h].exists
    /\ Headed(h)
    /\ UNCHANGED <<paper, exhibit, page>>

(* setCategoryTranslation, setControlGroupTranslation: upserts.            *)
SetCategoryName(h, l) ==
    /\ h \in Categories /\ heading[h].exists
    /\ Named(h, l)
    /\ UNCHANGED <<paper, exhibit, page>>

SetControlGroupName(h, l) ==
    /\ h \in ControlGroups /\ heading[h].exists
    /\ Named(h, l)
    /\ UNCHANGED <<paper, exhibit, page>>

(* Rows a deletion reaches: certificates are set null, evidence cascades.  *)
Uncited(papers) == [e \in Exhibits |-> [exhibit[e] EXCEPT !.cites = @ \ papers]]

(* deleteCategory: the documents under it cascade, and what cites them.    *)
DeleteCategory(h) ==
    LET gone == {p \in Papers : paper[p].status # "none" /\ paper[p].under = h}
    IN  /\ h \in Categories /\ heading[h].exists
        /\ heading' = [heading EXCEPT ![h] = [exists |-> FALSE, names |-> {}]]
        /\ paper' = [p \in Papers |-> IF p \in gone THEN NoPaper ELSE paper[p]]
        /\ exhibit' = Uncited(gone)
        /\ Watched

(* deleteControlGroup: the controls under it cascade.                      *)
DeleteControlGroup(h) ==
    /\ h \in ControlGroups /\ heading[h].exists
    /\ heading' = [heading EXCEPT ![h] = [exists |-> FALSE, names |-> {}]]
    /\ exhibit' = [e \in Exhibits |-> IF exhibit[e].under = h THEN NoExhibit ELSE exhibit[e]]
    /\ UNCHANGED <<paper, page>>

(* createDocument: a draft, in a tier the form names.                      *)
CreatePaper(p, h, tier) ==
    /\ paper[p].status = "none" /\ heading[h].exists
    /\ paper' = [paper EXCEPT ![p] = [NoPaper EXCEPT !.status = "withheld",
                                      !.tier = tier, !.under = h]]
    /\ UNCHANGED <<heading, exhibit>> /\ Watched

(* updateDocument, from saveMeta (tier, category) and from setStatus.      *)
UpdatePaper(p, status, tier, h) ==
    /\ paper[p].status # "none" /\ heading[h].exists
    /\ paper' = [paper EXCEPT ![p].status = status, ![p].tier = tier, ![p].under = h,
           ![p].shut = IF status = "published" /\ tier = "public" THEN {} ELSE @]
    /\ UNCHANGED <<heading, exhibit>> /\ Watched

DeletePaper(p) ==
    /\ paper[p].status # "none"
    /\ paper' = [paper EXCEPT ![p] = NoPaper]
    /\ exhibit' = Uncited({p})
    /\ UNCHANGED heading /\ Watched

SetPaperTitle(p, l) ==
    /\ paper[p].status # "none"
    /\ paper' = [paper EXCEPT ![p].titles = @ \cup {l}]
    /\ UNCHANGED <<heading, exhibit>> /\ Watched

(* addDocumentFile: the new file is the current one of its language (how   *)
(* versions are numbered is DocumentFiles).                                *)
AddPaperFile(p, l) ==
    /\ paper[p].status # "none"
    /\ paper' = [paper EXCEPT ![p].files = @ \cup {l},
                     ![p].shut = IF IsPublic(p) THEN @ \ {l} ELSE @ \cup {l}]
    /\ page' = [page EXCEPT !.since = IF page.kind = "none" THEN {} ELSE @ \cup {<<p, l>>}]
    /\ UNCHANGED <<heading, exhibit>>

(* deleteDocumentFile, of the current one: no other takes its place.       *)
RemovePaperFile(p, l) ==
    /\ l \in paper[p].files
    /\ paper' = [paper EXCEPT ![p].files = @ \ {l}, ![p].shut = @ \ {l}]
    /\ UNCHANGED <<heading, exhibit, page>>

(* createControl, createCertification, createAnswer: not public yet.       *)
Drafted(e, h, cites) ==
    /\ ~ exhibit[e].exists
    /\ exhibit' = [exhibit EXCEPT ![e] =
                      [NoExhibit EXCEPT !.exists = TRUE, !.under = h, !.cites = cites]]
    /\ UNCHANGED <<heading, paper, page>>

CreateControl(e, h) ==
    /\ ExhibitKind[e] = "control" /\ heading[h].exists
    /\ Drafted(e, h, {})

CreateCertification(e, cites) ==
    /\ ExhibitKind[e] = "certification" /\ Cardinality(cites) <= 1
    /\ \A p \in cites : paper[p].status # "none"
    /\ Drafted(e, NoHeading, cites)

CreateAnswer(e) == ExhibitKind[e] = "answer" /\ Drafted(e, NoHeading, {})

(* saveMeta of a control: the row, with the group it stands in, and the    *)
(* evidence later (SetEvidence).                                           *)
UpdateControl(e, published, h) ==
    /\ exhibit[e].exists /\ ExhibitKind[e] = "control" /\ heading[h].exists
    /\ exhibit' = [exhibit EXCEPT ![e].published = published, ![e].under = h]
    /\ UNCHANGED <<heading, paper, page>>

(* setControlEvidence: the whole set; a document deleted meanwhile makes   *)
(* the insert, and with it the transaction, fail.                          *)
SetEvidence(e, cites) ==
    /\ exhibit[e].exists /\ ExhibitKind[e] = "control"
    /\ \A p \in cites : paper[p].status # "none"
    /\ exhibit' = [exhibit EXCEPT ![e].cites = cites]
    /\ UNCHANGED <<heading, paper, page>>

(* saveMeta of a certification: its one certificate is on the row.         *)
UpdateCertification(e, published, cites) ==
    /\ exhibit[e].exists /\ ExhibitKind[e] = "certification" /\ Cardinality(cites) <= 1
    /\ \A p \in cites : paper[p].status # "none"
    /\ exhibit' = [exhibit EXCEPT ![e].published = published, ![e].cites = cites]
    /\ UNCHANGED <<heading, paper, page>>

(* updateAnswer: visibility public or internal.                            *)
UpdateAnswer(e, published) ==
    /\ exhibit[e].exists /\ ExhibitKind[e] = "answer"
    /\ exhibit' = [exhibit EXCEPT ![e].published = published]
    /\ UNCHANGED <<heading, paper, page>>

(* saveTranslationsAction: one upsert per language, side by side.          *)
SetExhibitTitle(e, l) ==
    /\ exhibit[e].exists
    /\ exhibit' = [exhibit EXCEPT ![e].titles = @ \cup {l}]
    /\ UNCHANGED <<heading, paper, page>>

(* deleteControl, deleteCertification, deleteAnswer.                       *)
DeleteExhibit(e) ==
    /\ exhibit[e].exists
    /\ exhibit' = [exhibit EXCEPT ![e] = NoExhibit]
    /\ UNCHANGED <<heading, paper, page>>
-----------------------------------------------------------------------------
(* The first query of a page: documents of every portal tier, gated ones   *)
(* without their file, or the published exhibits of one kind.              *)
ListedPapers ==
    {[id |-> p, under |-> paper[p].under, free |-> paper[p].tier = "public", cites |-> {}] :
        p \in {q \in Papers : paper[q].status = "published"}}
ListedExhibits(kind) ==
    {[id |-> e, under |-> exhibit[e].under, free |-> FALSE,
      cites |-> IF kind = "certification" THEN exhibit[e].cites ELSE {}] :
        e \in {f \in Exhibits : exhibit[f].published /\ ExhibitKind[f] = kind}}

OpenPage(kind, lang) ==
    /\ page.kind = "none"
    /\ page' = [NoPage EXCEPT !.kind = kind, !.lang = lang, !.unread = Reads,
                    !.rows = IF kind = "document" THEN ListedPapers ELSE ListedExhibits(kind),
                    !.wasPublic = Public]
    /\ UNCHANGED <<heading, paper, exhibit>>

RowIds == {r.id : r \in page.rows}

(* The later queries, in any order.                                        *)
ReadNames ==
    /\ "names" \in page.unread
    /\ page' = [page EXCEPT !.unread = @ \ {"names"},
           !.names = {n \in {r.under : r \in page.rows} \X Langs :
                         n[1] \in Headings /\ n[2] \in heading[n[1]].names}]
    /\ UNCHANGED <<heading, paper, exhibit>>

ReadTitles ==
    /\ "titles" \in page.unread
    /\ page' = [page EXCEPT !.unread = @ \ {"titles"},
           !.titles = {n \in RowIds \X Langs :
                          n[2] \in IF n[1] \in Papers THEN paper[n[1]].titles
                                  ELSE exhibit[n[1]].titles}]
    /\ UNCHANGED <<heading, paper, exhibit>>

(* Files of the documents that were public, evidence whose document is     *)
(* public, and files of certificates whose document is public.             *)
Links ==
    CASE page.kind = "document" ->
           {t \in RowIds \X Papers \X Langs :
               t[1] = t[2] /\ (\E r \in page.rows : r.id = t[1] /\ r.free)
               /\ t[3] \in paper[t[2]].files}
      [] page.kind = "control" ->
           {t \in RowIds \X Papers \X Langs :
               t[2] \in exhibit[t[1]].cites /\ IsPublic(t[2]) /\ t[3] \in paper[t[2]].titles}
      [] page.kind = "certification" ->
           {t \in RowIds \X Papers \X Langs :
               (\E r \in page.rows : r.id = t[1] /\ t[2] \in r.cites)
               /\ IsPublic(t[2]) /\ t[3] \in paper[t[2]].files}
      [] OTHER -> {}

ReadLinks ==
    /\ "links" \in page.unread
    /\ page' = [page EXCEPT !.unread = @ \ {"links"}, !.links = Links,
           !.shut = {f \in Papers \X Langs :
                        /\ page.kind # "control" /\ f[2] \in paper[f[1]].shut
                        /\ \E t \in Links : t[2] = f[1] /\ t[3] = f[2]}]
    /\ UNCHANGED <<heading, paper, exhibit>>

(* pickTranslation: the wanted language, or the default one, or nothing.   *)
PickTranslation(langs) == IF page.lang \in langs THEN {page.lang} ELSE langs \cap {HomeLang}

(* Rows without a name for their heading, or a title, are left out.        *)
IsShown(r) ==
    /\ r.under # NoHeading => PickTranslation({l \in Langs : <<r.under, l>> \in page.names}) # {}
    /\ PickTranslation({l \in Langs : <<r.id, l>> \in page.titles}) # {}

ShowPage ==
    /\ page.kind # "none" /\ page.unread = {} /\ page.rows # {}
    /\ page' = [page EXCEPT !.rows = {},
           !.offered = {p \in Papers : \E r \in page.rows :
               /\ IsShown(r)
               /\ PickTranslation({l \in Langs : <<r.id, p, l>> \in page.links}) # {}}]
    /\ UNCHANGED <<heading, paper, exhibit>>

ClosePage ==
    /\ page.kind # "none" /\ page.rows = {}
    /\ page' = NoPage
    /\ UNCHANGED <<heading, paper, exhibit>>

(* The actions of the editors' pages.                                      *)
CategorySteps(h) ==
    CreateCategory(h) \/ DeleteCategory(h) \/ \E l \in Langs : SetCategoryName(h, l)
ControlGroupSteps(h) ==
    CreateControlGroup(h) \/ DeleteControlGroup(h) \/ \E l \in Langs : SetControlGroupName(h, l)

PaperSteps(p) ==
    \/ \E h \in Categories, tier \in {"public", "request", "nda"} :
          \/ CreatePaper(p, h, tier)
          \/ \E status \in {"withheld", "published"} : UpdatePaper(p, status, tier, h)
    \/ DeletePaper(p)
    \/ \E l \in Langs : SetPaperTitle(p, l) \/ AddPaperFile(p, l) \/ RemovePaperFile(p, l)

ControlSteps(e) ==
    \/ \E h \in ControlGroups :
          CreateControl(e, h) \/ \E published \in BOOLEAN : UpdateControl(e, published, h)
    \/ \E cites \in SUBSET Papers : SetEvidence(e, cites)

CertificationSteps(e) ==
    \E cites \in SUBSET Papers :
        CreateCertification(e, cites) \/ \E published \in BOOLEAN : UpdateCertification(e, published, cites)

AnswerSteps(e) == CreateAnswer(e) \/ \E published \in BOOLEAN : UpdateAnswer(e, published)

EditorSteps ==
    \/ \E h \in Headings : CategorySteps(h) \/ ControlGroupSteps(h)
    \/ \E p \in Papers : PaperSteps(p)
    \/ \E e \in Exhibits :
          \/ ControlSteps(e) \/ CertificationSteps(e) \/ AnswerSteps(e)
          \/ DeleteExhibit(e) \/ \E l \in Langs : SetExhibitTitle(e, l)

PageSteps ==
    \/ \E kind \in PageKinds, lang \in Langs : OpenPage(kind, lang)
    \/ ReadNames
    \/ ReadTitles
    \/ ReadLinks
    \/ ShowPage
    \/ ClosePage

CatalogueNext == EditorSteps \/ PageSteps

CatalogueSpec == CatalogueInit /\ [][CatalogueNext]_catalogueVars

CatalogueTypeOK ==
    /\ heading \in [Headings -> [exists : BOOLEAN, names : SUBSET Langs]]
    /\ paper \in [Papers -> PaperRow]
    /\ exhibit \in [Exhibits -> ExhibitRow]
    /\ page.kind \in PageKinds \cup {"none"} /\ page.lang \in Langs
    /\ page.rows \subseteq Listed /\ page.unread \subseteq Reads
    /\ page.offered \subseteq Papers /\ page.wasPublic \subseteq Papers

(* A document a public page links to, as a file, as evidence or as a       *)
(* certificate, was public and published at some moment while the page was *)
(* rendered, however the queries fell between the editors' steps           *)
(* (documents.ts:51, controls.ts:75, certifications.ts:56).  A file that   *)
(* the document was never public with is no certificate, and the page of   *)
(* documents links to one only if it was uploaded after the page's first   *)
(* query, to a document that had been gated in between (documents.ts:57,   *)
(* README, section 5).                                                     *)
OfferedWasPublic ==
    /\ page.offered \subseteq page.wasPublic
    /\ page.shut # {} => page.kind = "document" /\ page.shut \subseteq page.since
=============================================================================

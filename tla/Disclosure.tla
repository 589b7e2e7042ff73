----------------------------- MODULE Disclosure -----------------------------
(***************************************************************************)
(* Subprocessors and the posts that announce them (src/lib/server/content  *)
(* subprocessors.ts, updates.ts, and the editors of both).                 *)
(*                                                                         *)
(* Staff enter subprocessors with a start and an end, and posts that name  *)
(* them with a date of publication, past or future; saving a post is two   *)
(* transactions, the row and then its links.  Whether a published change   *)
(* was announced is kept nowhere: it is computed from the dates each time. *)
(* A date is a day, and time passes.                                       *)
(***************************************************************************)
EXTENDS Integers

CONSTANTS
    Vendors,       \* subprocessor ids
    Notices,       \* update_post ids
    Undated,       \* no date: never started, not ended, a draft
    LastDay        \* bound of the clock

ASSUME LastDayAssumption == LastDay \in Nat

VARIABLES
    vendor,        \* subprocessor rows
    notice,        \* update_post rows with their update_post_subprocessor rows
    today

disclosureVars == <<vendor, notice, today>>

Dates == 0 .. LastDay
VendorRow == [exists : BOOLEAN, published : BOOLEAN,
              started : Dates \cup {Undated}, ended : Dates \cup {Undated}]
NoticeRow == [exists : BOOLEAN, at : Dates \cup {Undated}, about : SUBSET Vendors]
NoVendor == [exists |-> FALSE, published |-> FALSE, started |-> Undated, ended |-> Undated]
NoNotice == [exists |-> FALSE, at |-> Undated, about |-> {}]

(* livePost: a draft or a scheduled post has told nobody anything.         *)
LivePost(n) == notice[n].exists /\ notice[n].at # Undated /\ notice[n].at <= today

(* listPublicSubprocessors: published ones, split by whether they ended.   *)
Former(v) == vendor[v].published /\ vendor[v].ended # Undated /\ vendor[v].ended <= today

(* noticeCoverage: the removal first; a post counts for the addition only  *)
(* before the removal.                                                     *)
CoveringPublishedAt(v) == {notice[n].at : n \in {m \in Notices : LivePost(m) /\ v \in notice[m].about}}
FaultyCovers(v, lower, upper) ==
    \E at \in CoveringPublishedAt(v) : lower = Undated \/ at >= lower
Covers(v, lower, upper) ==
    \E at \in CoveringPublishedAt(v) :
        /\ lower = Undated \/ at >= lower
        /\ upper = Undated \/ at < upper
NoticeCoverage(v) ==
    IF ~ vendor[v].published THEN "none"
    ELSE IF vendor[v].ended # Undated /\ ~ Covers(v, vendor[v].ended, Undated)
      THEN "removal-unannounced"
    ELSE IF ~ Covers(v, vendor[v].started, vendor[v].ended) THEN "addition-unannounced"
    ELSE "none"

DisclosureInit ==
    /\ vendor = [v \in Vendors |-> NoVendor]
    /\ notice = [n \in Notices |-> NoNotice]
    /\ today = 0
-----------------------------------------------------------------------------
(* createSubprocessor: not published yet.                                  *)
CreateSubprocessor(v, started, ended) ==
    /\ ~ vendor[v].exists
    /\ vendor' = [vendor EXCEPT ![v] = [exists |-> TRUE, published |-> FALSE,
                                        started |-> started, ended |-> ended]]
    /\ UNCHANGED <<notice, today>>

(* updateSubprocessor: the whole form; nothing orders the two dates.       *)
UpdateSubprocessor(v, published, started, ended) ==
    /\ vendor[v].exists
    /\ vendor' = [vendor EXCEPT ![v] = [exists |-> TRUE, published |-> published,
                                        started |-> started, ended |-> ended]]
    /\ UNCHANGED <<notice, today>>

(* deleteSubprocessor: its links cascade.                                  *)
DeleteSubprocessor(v) ==
    /\ vendor[v].exists
    /\ vendor' = [vendor EXCEPT ![v] = NoVendor]
    /\ notice' = [n \in Notices |-> [notice[n] EXCEPT !.about = @ \ {v}]]
    /\ UNCHANGED today

CreateUpdate(n, at) ==
    /\ ~ notice[n].exists
    /\ notice' = [notice EXCEPT ![n] = [exists |-> TRUE, at |-> at, about |-> {}]]
    /\ UNCHANGED <<vendor, today>>

(* saveMeta of a post: updateUpdate, then setUpdateSubprocessors.          *)
UpdateUpdate(n, at) ==
    /\ notice[n].exists
    /\ notice' = [notice EXCEPT ![n].at = at]
    /\ UNCHANGED <<vendor, today>>

SetUpdateSubprocessors(n, about) ==
    /\ notice[n].exists
    /\ \A v \in about : vendor[v].exists
    /\ notice' = [notice EXCEPT ![n].about = about]
    /\ UNCHANGED <<vendor, today>>

(* deleteUpdate.                                                           *)
DeleteNotice(n) ==
    /\ notice[n].exists
    /\ notice' = [notice EXCEPT ![n] = NoNotice]
    /\ UNCHANGED <<vendor, today>>

NextDay ==
    /\ today < LastDay
    /\ today' = today + 1
    /\ UNCHANGED <<vendor, notice>>

(* The actions of the two editors.                                         *)
VendorSteps(v) ==
    \/ \E started, ended \in Dates \cup {Undated} :
          \/ CreateSubprocessor(v, started, ended)
          \/ \E published \in BOOLEAN : UpdateSubprocessor(v, published, started, ended)
    \/ DeleteSubprocessor(v)

NoticeSteps(n) ==
    \/ \E at \in Dates \cup {Undated} : CreateUpdate(n, at) \/ UpdateUpdate(n, at)
    \/ \E about \in SUBSET Vendors : SetUpdateSubprocessors(n, about)
    \/ DeleteNotice(n)

DisclosureNext ==
    \/ \E v \in Vendors : VendorSteps(v)
    \/ \E n \in Notices : NoticeSteps(n)
    \/ NextDay

DisclosureSpec == DisclosureInit /\ [][DisclosureNext]_disclosureVars
-----------------------------------------------------------------------------
(* Every variable keeps its type.                                          *)
DisclosureTypeOK ==
    /\ vendor \in [Vendors -> VendorRow]
    /\ notice \in [Notices -> NoticeRow]
    /\ today \in Dates

(* A post that is public and names the subprocessor.                       *)
Tells(n, v) == LivePost(n) /\ v \in notice[n].about

(* A warning about an addition goes away for good only when the row itself *)
(* is saved or a post about it, dated before the removal, becomes live or  *)
(* moves: never because the removal was announced (subprocessors.ts:136,   *)
(* P4.22).  A warning about a removal needs a post dated since.  One comes *)
(* up only for a saved row or a post that went away, never because days    *)
(* pass (subprocessors.ts:125).  And what the portal lists as former with  *)
(* nobody told since is always warned about.                               *)
WarningsHaveReasons ==
    [][\A v \in Vendors :
          /\ vendor'[v] = vendor[v] =>
                /\ (NoticeCoverage(v) = "addition-unannounced" /\ NoticeCoverage(v)' = "none") =>
                      \E n \in Notices :
                          /\ Tells(n, v)'
                          /\ ~ Tells(n, v) \/ notice'[n].at # notice[n].at
                          /\ vendor[v].ended = Undated \/ notice'[n].at < vendor[v].ended
                /\ (NoticeCoverage(v) = "removal-unannounced"
                      /\ NoticeCoverage(v)' # "removal-unannounced") =>
                      \E n \in Notices : Tells(n, v)' /\ notice'[n].at >= vendor[v].ended
                /\ (NoticeCoverage(v) = "none" /\ NoticeCoverage(v)' # "none") =>
                      \E n \in Notices :
                          Tells(n, v) /\ (~ Tells(n, v)' \/ notice'[n].at # notice[n].at)
          /\ (Former(v) /\ \A n \in Notices : Tells(n, v) => notice[n].at < vendor[v].ended) =>
                NoticeCoverage(v) = "removal-unannounced"
    ]_disclosureVars
=============================================================================

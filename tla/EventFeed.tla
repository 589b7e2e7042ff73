------------------------------ MODULE EventFeed ------------------------------
(***************************************************************************)
(* What the event log promises its readers, whoever they are: an entry     *)
(* that becomes final is owed to every feed then open, and stops being     *)
(* owed only because it was handed over, because the feed was told to      *)
(* skip it, or because a newer version of the entry took its place.        *)
(*                                                                         *)
(* Nothing is said of transactions, of cursors or of batches: those are    *)
(* how EventFanout (src/lib/server/egress/fanout.ts) keeps the promise.    *)
(***************************************************************************)
EXTENDS TLAPS

CONSTANT Feeds          \* the readers of the log

VARIABLES
  log,       \* the final entries, each in its current version
  open,      \* the feeds that exist
  owed,      \* owed[f]: entries f has still to be given
  handed,    \* handed[f]: entries f has been given
  excused    \* excused[f]: entries f was told to skip

feedVars == <<log, open, owed, handed, excused>>

Init ==
  /\ log = {}
  /\ open = {}
  /\ owed = [f \in Feeds |-> {}]
  /\ handed = [f \in Feeds |-> {}]
  /\ excused = [f \in Feeds |-> {}]

Fresh == log' \ log     \* the entries a step makes final
Gone  == log \ log'     \* the entries a step replaces by newer versions

Unhanded == \A f \in Feeds : handed[f] \cap Fresh = {}

(* What a change of the log does to a feed: if open, it is owed the rest.  *)
Follows(f) ==
  /\ owed'[f] = IF f \in open THEN (owed[f] \ Gone) \cup Fresh ELSE owed[f]
  /\ excused'[f] = excused[f] \ Gone
  /\ handed'[f] = handed[f]

(* Entries become final, or are replaced: the one thing every feed sees.   *)
Publish ==
  /\ Unhanded
  /\ \A f \in Feeds : Follows(f)
  /\ UNCHANGED open

(* Feeds are given entries, some perhaps in a version that has since been  *)
(* replaced; what stops being owed has been given, or was excused before.  *)
Take ==
  /\ \A f \in Feeds :
       /\ handed[f] \subseteq handed'[f]
       /\ owed'[f] \subseteq log
       /\ owed[f] \subseteq owed'[f] \cup handed'[f] \cup excused[f]
  /\ UNCHANGED <<log, open, excused>>

(* One feed opens, is repositioned, or closes; the log may grow meanwhile. *)
Among(f) ==
  /\ Unhanded
  /\ log \subseteq log'
  /\ \A g \in Feeds \ {f} : Follows(g)

(* A feed opens on the log as it is: every entry is owed or excused.       *)
Open(f) ==
  /\ f \notin open
  /\ open' = open \cup {f}
  /\ log' = owed'[f] \cup excused'[f]
  /\ handed'[f] = {}
  /\ Among(f)

(* A feed is repositioned: what it then no longer gets, it was excused.    *)
Seek(f) ==
  /\ f \in open
  /\ owed'[f] \cup excused'[f] \subseteq log'
  /\ excused[f] \subseteq excused'[f]
  /\ owed[f] \cup Fresh \subseteq owed'[f] \cup excused'[f]
  /\ handed'[f] = handed[f]
  /\ UNCHANGED open
  /\ Among(f)

Close(f) ==
  /\ f \in open
  /\ open' = open \ {f}
  /\ owed'[f] = {}
  /\ handed'[f] = {}
  /\ excused'[f] = {}
  /\ Among(f)

Next ==
  \/ Publish
  \/ Take
  \/ \E f \in Feeds : Open(f) \/ Seek(f) \/ Close(f)

Spec == Init /\ [][Next]_feedVars

------------------------------------------------------------------------------

(* No entry is lost: a final entry is owed to, was handed to, or was       *)
(* skipped by every open feed ("delay, not loss", fanout.ts).              *)
NothingDropped ==
  \A f \in Feeds : f \in open =>
    log \subseteq owed[f] \cup handed[f] \cup excused[f]

(* A step of the log loses no entry for any feed.                          *)
LEMMA NextKeepsEntries == NothingDropped /\ [Next]_feedVars => NothingDropped'
<1> SUFFICES ASSUME NothingDropped, [Next]_feedVars,
                    NEW f \in Feeds, f \in open'
             PROVE  log' \subseteq owed'[f] \cup handed'[f] \cup excused'[f]
  BY DEF NothingDropped
<1>1. CASE Publish
  BY <1>1 DEF Publish, Follows, Fresh, Gone, NothingDropped
<1>2. CASE Take
  BY <1>2 DEF Take, NothingDropped
<1>3. ASSUME NEW g \in Feeds, Open(g) PROVE log' \subseteq owed'[f] \cup handed'[f] \cup excused'[f]
  BY <1>3 DEF Open, Among, Follows, Fresh, Gone, NothingDropped
<1>4. ASSUME NEW g \in Feeds, Seek(g) PROVE log' \subseteq owed'[f] \cup handed'[f] \cup excused'[f]
  BY <1>4 DEF Seek, Among, Follows, Fresh, Gone, NothingDropped
<1>5. ASSUME NEW g \in Feeds, Close(g) PROVE log' \subseteq owed'[f] \cup handed'[f] \cup excused'[f]
  BY <1>5 DEF Close, Among, Follows, Fresh, Gone, NothingDropped
<1>6. CASE UNCHANGED feedVars
  BY <1>6 DEF feedVars, NothingDropped
<1> QED BY <1>1, <1>2, <1>3, <1>4, <1>5, <1>6 DEF Next

(* Whatever keeps EventFeed's promise step by step loses no entry.         *)
THEOREM NothingIsDropped == Spec => []NothingDropped
<1>1. Init => NothingDropped
  BY DEF Init, NothingDropped
<1> QED BY <1>1, NextKeepsEntries, PTL DEF Spec
==============================================================================

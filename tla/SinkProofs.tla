----------------------------- MODULE SinkProofs -----------------------------
(***************************************************************************)
(* That the second copy of the audit log is complete, for any number of    *)
(* writers, rows, batches, sinks, ticks and restarts.                      *)
(*                                                                         *)
(* The argument has three parts.  What a window may take is below the      *)
(* horizon, and every writer that still runs or is yet to start is at or   *)
(* above it (HorizonsHold): so a row version that becomes visible later    *)
(* never falls into the range of a batch that is cut (ChainHolds), and a   *)
(* body made of the rows of a range, at whatever moment, has all of those  *)
(* that stand later (CopiesHold).  Third, the ranges of the chain leave no *)
(* gap, so a key at or below a cursor is in the range of one batch of it.  *)
(***************************************************************************)
EXTENDS AuditSink, TLAPS, WellFoundedInduction

ShipmentRow == [state : {"absent", "due", "later", "shipped"}, digest : SUBSET LogRow]
BatchRow == [prev : CursorType, cursor : CursorType, digest : SUBSET LogRow]
Copy == [at : BatchIds \X Sinks, body : SUBSET LogRow]
ShiftType ==
    [pc : {"idle", "reading", "built", "unlocked", "shipping"}, horizon : 0..(MaxXid + 1),
     claims : SUBSET (BatchIds \X Sinks), prebuilt : SUBSET BatchIds,
     stopped : SUBSET Sinks, wrote : SUBSET Copy]

LogTypes ==
    /\ logged \subseteq LogRow /\ drafts \subseteq LogRow
    /\ running \subseteq Xids /\ nextXid \in 1..(MaxXid + 1) /\ nextSeq \in 1..(MaxSeq + 1)
TableTypes ==
    /\ batches \in Seq(BatchRow) /\ Len(batches) <= MaxBatches
    /\ shipment \in [BatchIds \X Sinks -> ShipmentRow]
    /\ received \subseteq Copy
ProcessTypes ==
    /\ shelf \in [claimed : SUBSET (BatchIds \X Sinks), prebuilt : SUBSET BatchIds]
    /\ shift \in [Shifts -> ShiftType]
    /\ sinkLock \in {NoShift} \cup Shifts
    /\ adapters \subseteq Sinks /\ sinkStarts \in 0..MaxSinkStarts

(* The transactions that may still make a row version visible.             *)
Live == running \cup {nextXid}
(* What a range is to hold of the log is in the body.                      *)
CoversTo(b, body) ==
    \A r \in logged : KeyIn(RowKey(r), batches[b].prev, batches[b].cursor) => r \in body

(* A transaction has begun, what is visible is not of one that runs, and a *)
(* seq is one row's.                                                       *)
WritersHold ==
    /\ \A x \in running : x < nextXid
    /\ \A r \in drafts : r.xmin \in running
    /\ \A r \in logged : r.xmin < nextXid /\ r.xmin \notin running
    /\ \A r \in logged \cup drafts : r.seq < nextSeq
    /\ \A r, q \in logged \cup drafts : r.seq = q.seq => r = q
HorizonsHold ==
    \A t \in Shifts : shift[t].pc = "reading" => \A y \in Live : shift[t].horizon <= y
(* A batch continues the one before it, ends below all that is still to be *)
(* written, and its digest is of every row of its range.                   *)
ChainHolds ==
    \A b \in 1..Len(batches) :
        /\ batches[b].prev = IF b = 1 THEN <<0, 0>> ELSE batches[b - 1].cursor
        /\ \A y \in Live : batches[b].cursor[1] < y
        /\ CoversTo(b, batches[b].digest)
CopiesHold ==
    \A m \in received : m.at[1] \in 1..Len(batches) /\ CoversTo(m.at[1], m.body)
ShippedHold ==
    \A p \in BatchIds \X Sinks :
        shipment[p].state = "shipped" => \E m \in received : m.at = p
ShiftsHold ==
    /\ shelf.claimed \subseteq (1..Len(batches)) \X Sinks
    /\ \A t \in Shifts : /\ shift[t].claims \subseteq (1..Len(batches)) \X Sinks
                         /\ shift[t].wrote \subseteq received

SinkInv ==
    /\ LogTypes /\ TableTypes /\ ProcessTypes
    /\ WritersHold /\ HorizonsHold /\ ChainHolds
    /\ CopiesHold /\ ShippedHold /\ ShiftsHold
-----------------------------------------------------------------------------
LEMMA SinkBounds == /\ MaxXid \in Nat /\ MaxXid > 0 /\ MaxSeq \in Nat /\ MaxSeq > 0
                    /\ MaxBatches \in Nat /\ MaxSinkStarts \in Nat
  BY SinkAssumption

LEMMA RowFields ==
  ASSUME NEW r \in LogRow
  PROVE  r.seq \in 1..MaxSeq /\ r.xmin \in 1..MaxXid /\ RowKey(r) = <<r.xmin, r.seq>>
         /\ RowKey(r)[1] = r.xmin /\ RowKey(r)[2] = r.seq
  BY DEF LogRow, Xids, RowKey

LEMMA ChainRows ==
  ASSUME TableTypes, NEW b \in 1..Len(batches)
  PROVE  /\ batches[b] \in BatchRow /\ b \in BatchIds
         /\ batches[b].cursor \in CursorType /\ batches[b].prev \in CursorType
         /\ batches[b].cursor[1] \in Nat /\ batches[b].cursor[2] \in Nat
         /\ batches[b].digest \subseteq LogRow
  <1>1. batches[b] \in BatchRow /\ b \in BatchIds
    BY SinkBounds DEF TableTypes, BatchIds
  <1>2. batches[b].cursor \in CursorType /\ batches[b].prev \in CursorType
        /\ batches[b].digest \subseteq LogRow
    BY <1>1 DEF BatchRow
  <1> QED
    BY <1>1, <1>2, SinkBounds DEF CursorType

LEMMA OffShiftTyped == OffShift \in ShiftType
  BY SinkBounds DEF OffShift, ShiftType

LEMMA SinkStart == SinkInit => SinkInv
  <1> SUFFICES ASSUME SinkInit PROVE SinkInv
    OBVIOUS
  <1>1. LogTypes /\ WritersHold
    BY SinkBounds DEF SinkInit, LogTypes, WritersHold
  <1>2. TableTypes
    BY SinkBounds DEF SinkInit, TableTypes, ShipmentRow
  <1>3. ProcessTypes
    BY SinkBounds, OffShiftTyped DEF SinkInit, ProcessTypes, EmptyShelf
  <1>4. HorizonsHold /\ ShiftsHold
    BY DEF SinkInit, HorizonsHold, ShiftsHold, OffShift, EmptyShelf
  <1>5. ChainHolds /\ CopiesHold /\ ShippedHold
    BY DEF SinkInit, ChainHolds, CopiesHold, ShippedHold
  <1> QED
    BY <1>1, <1>2, <1>3, <1>4, <1>5 DEF SinkInv
-----------------------------------------------------------------------------
(* Writers.  What becomes visible is of a transaction that was live, and   *)
(* the transactions that are live only move up.                            *)
LEMMA LogMoves ==
  ASSUME SinkInv, LogTypes', WritersHold',
         \A y \in Live' : \E z \in Live : z <= y,
         \A r \in logged' \ logged : r.xmin \in Live,
         UNCHANGED <<tableVars, processVars>>
  PROVE  SinkInv'
  <1>0. LogTypes /\ TableTypes /\ ProcessTypes /\ WritersHold /\ HorizonsHold /\ ChainHolds
        /\ CopiesHold /\ ShippedHold /\ ShiftsHold
    BY DEF SinkInv
  <1>1. TableTypes' /\ ProcessTypes' /\ ShippedHold' /\ ShiftsHold'
    BY <1>0 DEF tableVars, processVars, TableTypes, ProcessTypes, ShippedHold, ShiftsHold
  <1>2. batches' = batches /\ received' = received /\ shift' = shift
    BY DEF tableVars, processVars
  <1>3. Live \subseteq Nat /\ Live' \subseteq Nat
    BY <1>0 DEF Live, LogTypes, Xids
  <1>4. HorizonsHold'
    <2>1. \A t \in Shifts : shift[t].horizon \in Nat
      BY <1>0, SinkBounds DEF ProcessTypes, ShiftType
    <2> QED
      BY <1>0, <1>2, <1>3, <2>1 DEF HorizonsHold
  <1>5. ASSUME NEW b \in 1..Len(batches), NEW body, CoversTo(b, body) PROVE CoversTo(b, body)'
    <2>2. batches[b].cursor[1] \in Nat
      BY <1>0, ChainRows
    <2>3. ASSUME NEW r \in logged' \ logged
          PROVE  ~KeyIn(RowKey(r), batches[b].prev, batches[b].cursor)
      <3>1. r \in LogRow /\ batches[b].cursor[1] < r.xmin
        BY <1>0, <2>3 DEF LogTypes, ChainHolds
      <3>2. Precedes(batches[b].cursor, RowKey(r))
        BY <3>1, <2>2, RowFields DEF Precedes
      <3> QED
        BY <3>2 DEF KeyIn
    <2> QED
      BY <1>2, <1>5, <2>3 DEF CoversTo
  <1>6. ChainHolds'
    <2>1. \A b \in 1..Len(batches) : batches[b].cursor[1] \in Nat
      BY <1>0, ChainRows
    <2>2. \A b \in 1..Len(batches) : \A y \in Live' : batches[b].cursor[1] < y
      BY <1>0, <1>3, <2>1 DEF ChainHolds
    <2> QED
      BY <1>0, <1>2, <1>5, <2>2 DEF ChainHolds
  <1>7. CopiesHold'
    BY <1>0, <1>2, <1>5 DEF CopiesHold
  <1> QED
    BY <1>0, <1>1, <1>4, <1>6, <1>7 DEF SinkInv

LEMMA BeginWriterKeeps == ASSUME SinkInv, BeginWriter PROVE SinkInv'
  <1>0. LogTypes /\ WritersHold
    BY DEF SinkInv
  <1>1. LogTypes'
    BY <1>0, SinkBounds DEF BeginWriter, LogTypes, Xids
  <1>2. WritersHold'
    <2>1. \A r \in logged : r.xmin \in Nat
      BY <1>0, RowFields DEF LogTypes
    <2>2. \A r \in logged' : r.xmin < nextXid' /\ r.xmin \notin running'
      BY <1>0, <2>1 DEF BeginWriter, LogTypes, WritersHold
    <2>3. \A x \in running' : x < nextXid'
      BY <1>0 DEF BeginWriter, LogTypes, Xids, WritersHold
    <2> QED
      BY <1>0, <2>2, <2>3 DEF BeginWriter, WritersHold
  <1>3. \A y \in Live' : \E z \in Live : z <= y
    BY <1>0 DEF BeginWriter, LogTypes, Xids, Live
  <1> QED
    BY <1>1, <1>2, <1>3, LogMoves DEF BeginWriter

LEMMA AppendEventKeeps ==
  ASSUME SinkInv, NEW x \in running, AppendEvent(x) PROVE SinkInv'
  <1>0. LogTypes /\ WritersHold
    BY DEF SinkInv
  <1> DEFINE d == [seq |-> nextSeq, xmin |-> x, erased |-> FALSE]
  <1>1. d \in LogRow /\ d.seq = nextSeq /\ d.xmin = x
    BY <1>0, SinkBounds DEF AppendEvent, LogTypes, LogRow, Xids
  <1>2. drafts' = drafts \cup {d} /\ nextSeq' = nextSeq + 1 /\ logged' = logged
        /\ running' = running /\ nextXid' = nextXid /\ UNCHANGED <<tableVars, processVars>>
    BY DEF AppendEvent
  <1> HIDE DEF d
  <1>3. LogTypes'
    BY <1>0, <1>1, <1>2, SinkBounds DEF AppendEvent, LogTypes
  <1>4. \A r \in logged \cup drafts : r.seq \in Nat
    BY <1>0, RowFields DEF LogTypes
  <1>5. WritersHold'
    <2>1. \A r \in logged' \cup drafts' : r.seq < nextSeq'
      BY <1>0, <1>1, <1>2, <1>4, SinkBounds DEF LogTypes, WritersHold
    <2>2. \A r, q \in logged' \cup drafts' : r.seq = q.seq => r = q
      BY <1>0, <1>1, <1>2, <1>4, SinkBounds DEF LogTypes, WritersHold
    <2> QED
      BY <1>0, <1>1, <1>2, <2>1, <2>2 DEF WritersHold
  <1>6. \A y \in Live' : \E z \in Live : z <= y
    BY <1>0, <1>2 DEF LogTypes, Xids, Live
  <1> QED
    BY <1>2, <1>3, <1>5, <1>6, LogMoves

LEMMA EndWriterKeeps ==
  ASSUME SinkInv, NEW x \in running, NEW kept \in BOOLEAN, EndWriter(x, kept) PROVE SinkInv'
  <1>0. LogTypes /\ WritersHold
    BY DEF SinkInv
  <1>1. LogTypes' /\ WritersHold'
    BY <1>0 DEF EndWriter, LogTypes, WritersHold, DraftsOf
  <1>2. \A y \in Live' : \E z \in Live : z <= y
    BY <1>0 DEF EndWriter, LogTypes, Xids, Live
  <1>3. \A r \in logged' \ logged : r.xmin \in Live
    BY <1>0 DEF EndWriter, Live, DraftsOf
  <1> QED
    BY <1>1, <1>2, <1>3, LogMoves DEF EndWriter

LEMMA CommitErasureKeeps ==
  ASSUME SinkInv, NEW x \in running, NEW S \in SUBSET logged, CommitErasure(x, S)
  PROVE  SinkInv'
  <1>0. LogTypes /\ WritersHold
    BY DEF SinkInv
  <1> DEFINE e(r) == [r EXCEPT !.xmin = x, !.erased = TRUE]
             E == {e(r) : r \in S}
  <1>1. \A r \in S : e(r) \in LogRow /\ e(r).seq = r.seq /\ e(r).xmin = x
    BY <1>0 DEF LogTypes, LogRow
  <1>2. /\ logged' = (logged \ S) \cup DraftsOf(x) \cup E
        /\ drafts' = drafts \ DraftsOf(x) /\ running' = running \ {x}
        /\ UNCHANGED <<nextXid, nextSeq, tableVars, processVars>>
    BY DEF CommitErasure
  <1>7. DraftsOf(x) \subseteq drafts /\ \A d \in DraftsOf(x) : d.xmin = x
    BY DEF DraftsOf
  <1>8. \A q \in E : \E r \in S : q \in LogRow /\ q.seq = r.seq /\ q.xmin = x
    BY <1>1
  <1>9. \A q, w \in E : q.seq = w.seq => q = w
    <2>1. \A r, t \in S : r.seq = t.seq => r = t
      BY <1>0 DEF WritersHold
    <2> SUFFICES ASSUME NEW r \in S, NEW t \in S, e(r).seq = e(t).seq PROVE e(r) = e(t)
      OBVIOUS
    <2> HIDE DEF e
    <2> QED
      BY <1>1, <2>1
  <1> HIDE DEF e, E
  <1>3. LogTypes'
    BY <1>0, <1>2, <1>7, <1>8 DEF LogTypes
  <1>4. WritersHold'
    <2>1. \A y \in running' : y < nextXid'
      BY <1>0, <1>2 DEF WritersHold
    <2>2. \A q \in drafts' : q.xmin \in running'
      BY <1>0, <1>2 DEF WritersHold, DraftsOf
    <2>3. \A q \in logged' : q.xmin < nextXid' /\ q.xmin \notin running'
      BY <1>0, <1>2, <1>7, <1>8 DEF WritersHold
    <2>4. \A q \in logged' \cup drafts' : q.seq < nextSeq'
      BY <1>0, <1>2, <1>7, <1>8 DEF WritersHold
    <2>5. \A q \in (logged \ S) \cup drafts, w \in E : q.seq # w.seq
      <3> SUFFICES ASSUME NEW q \in (logged \ S) \cup drafts, NEW w \in E, q.seq = w.seq
                   PROVE  FALSE
        OBVIOUS
      <3>1. PICK r \in S : w.seq = r.seq
        BY <1>8
      <3>2. q = r
        BY <1>0, <3>1 DEF WritersHold
      <3>3. r.xmin \notin running /\ \A d \in drafts : d.xmin \in running
        BY <1>0 DEF WritersHold
      <3> QED
        BY <3>2, <3>3
    <2>6. \A q, w \in (logged \ S) \cup drafts : q.seq = w.seq => q = w
      BY <1>0 DEF WritersHold
    <2>7. logged' \cup drafts' \subseteq (logged \ S) \cup drafts \cup E
      BY <1>2, <1>7
    <2>8. \A q, w \in logged' \cup drafts' : q.seq = w.seq => q = w
      BY <1>9, <2>5, <2>6, <2>7
    <2> QED
      BY <2>1, <2>2, <2>3, <2>4, <2>8 DEF WritersHold
  <1>5. \A y \in Live' : \E z \in Live : z <= y
    BY <1>0, <1>2 DEF LogTypes, Xids, Live
  <1>6. \A q \in logged' \ logged : q.xmin \in Live
    BY <1>2, <1>7, <1>8 DEF Live
  <1> QED
    BY <1>2, <1>3, <1>4, <1>5, <1>6, LogMoves
-----------------------------------------------------------------------------

(* The last row of a cut gives the batch its cursor.                       *)
LEMMA GreatestBelow ==
  ASSUME NEW N \in Nat, NEW D \in SUBSET (0..N), D # {}
  PROVE  \E d \in D : \A e \in D : e <= d
  <1> DEFINE R == {ss \in Nat \X Nat : ss[1] < ss[2]}
             T == {N - d : d \in D}
  <1>0. IsWellFoundedOn(R, Nat)
    BY NatLessThanWellFounded DEF OpToRel
  <1>1. T \subseteq Nat /\ T # {}
    <2>1. \A d \in D : N - d \in Nat
      OBVIOUS
    <2> QED
      BY <2>1
  <1>2. PICK x \in T : \A y \in T : ~ (<<y, x>> \in R)
    <2> HIDE DEF T, R
    <2> QED
      BY <1>0, <1>1, WFMin
  <1>3. PICK d \in D : x = N - d
    OBVIOUS
  <1>4. ASSUME NEW e \in D PROVE e <= d
    <2>1. N - e \in T /\ N - e \in Nat /\ x \in Nat
      BY <1>1
    <2>2. ~ (N - e < x)
      BY <1>2, <2>1
    <2> QED
      BY <1>3, <2>2
  <1> QED
    BY <1>4

LEMMA LastKeyIsLast ==
  ASSUME NEW R \in SUBSET LogRow, R # {}
  PROVE  \E r \in R : LastKey(R) = RowKey(r)
  <1> DEFINE X == {r.xmin : r \in R}
  <1>1. X \subseteq 0..MaxXid /\ X # {}
    BY RowFields, SinkBounds
  <1>2. PICK x \in X : \A y \in X : y <= x
    <2> HIDE DEF X
    <2> QED
      BY <1>1, GreatestBelow, SinkBounds
  <1> DEFINE S == {r.seq : r \in {q \in R : q.xmin = x}}
  <1>3. S \subseteq 0..MaxSeq /\ S # {}
    BY <1>2, RowFields, SinkBounds
  <1>4. PICK n \in S : \A m \in S : m <= n
    <2> HIDE DEF S
    <2> QED
      BY <1>3, GreatestBelow, SinkBounds
  <1>5. PICK r \in R : r.xmin = x /\ r.seq = n
    BY <1>4
  <1>6. ASSUME NEW q \in R PROVE ~Precedes(RowKey(r), RowKey(q))
    <2>1. q.xmin <= r.xmin /\ q.xmin \in Nat /\ r.xmin \in Nat
      BY <1>2, <1>5, RowFields
    <2>2. q.xmin = r.xmin => q.seq <= r.seq
      BY <1>4, <1>5
    <2>3. q.seq \in Nat /\ r.seq \in Nat
      BY RowFields
    <2> QED
      BY <2>1, <2>2, <2>3, RowFields DEF Precedes
  <1>7. \E k \in {RowKey(q) : q \in R} : \A q \in R : ~Precedes(k, RowKey(q))
    BY <1>5, <1>6
  <1>8. LastKey(R) \in {RowKey(q) : q \in R}
    BY <1>7 DEF LastKey
  <1> QED
    BY <1>8

(* What is written on the batches that are there stays.                    *)
LEMMA BuildBatchKeeps ==
  ASSUME SinkInv, NEW t \in Shifts, NEW R \in SUBSET FinalRows(t), BuildBatch(t, R)
  PROVE  SinkInv'
  <1>0. LogTypes /\ TableTypes /\ ProcessTypes /\ WritersHold /\ HorizonsHold /\ ChainHolds
        /\ CopiesHold /\ ShippedHold /\ ShiftsHold
    BY DEF SinkInv
  <1> DEFINE b == [prev |-> HeadOf(batches), cursor |-> LastKey(R), digest |-> R]
  <1>n. PICK n \in Nat : n = Len(batches)
    BY <1>0 DEF TableTypes
  <1>1. /\ shift[t].pc = "reading" /\ n < MaxBatches /\ IsCut(R, FinalRows(t))
        /\ batches' = Append(batches, b)
        /\ shelf' = [shelf EXCEPT !.prebuilt = {n + 1}]
        /\ shift' = [shift EXCEPT ![t].pc = "built"]
        /\ UNCHANGED <<logVars, shipment, received, sinkLock, adapters, sinkStarts>>
    BY <1>n DEF BuildBatch
  <1>2. R \subseteq logged /\ R \subseteq LogRow /\ R # {}
    BY <1>0, <1>1 DEF IsCut, FinalRows, LogTypes
  <1>3. PICK r \in R : LastKey(R) = RowKey(r)
    BY <1>2, LastKeyIsLast
  <1>4. HeadOf(batches) = (IF n = 0 THEN <<0, 0>> ELSE batches[n].cursor)
        /\ HeadOf(batches) \in CursorType
    <2>1. n = 0 <=> batches = <<>>
      BY <1>0, <1>n DEF TableTypes
    <2>2. <<0, 0>> \in CursorType
      BY SinkBounds DEF CursorType
    <2> QED
      BY <1>0, <1>n, <2>1, <2>2, ChainRows DEF HeadOf
  <1>5. b \in BatchRow /\ b.prev = HeadOf(batches) /\ b.cursor = RowKey(r) /\ b.digest = R
    <2>1. RowKey(r) \in CursorType
      BY <1>2, RowFields, SinkBounds DEF CursorType
    <2> QED
      BY <1>2, <1>3, <1>4, <2>1 DEF BatchRow
  <1> HIDE DEF b
  <1>6. Len(batches') = n + 1 /\ batches'[n + 1] = b
        /\ (\A i \in 1..n : batches'[i] = batches[i]) /\ batches' \in Seq(BatchRow)
    BY <1>0, <1>n, <1>1, <1>5 DEF TableTypes
  <1>7. LogTypes' /\ WritersHold' /\ Live' = Live
    BY <1>0, <1>1 DEF LogTypes, WritersHold, logVars, Live
  <1>8. TableTypes'
    BY <1>0, <1>1, <1>6, SinkBounds DEF TableTypes
  <1>9. /\ \A w \in Shifts : /\ shift'[w].claims = shift[w].claims
                             /\ shift'[w].wrote = shift[w].wrote
                             /\ shift'[w].horizon = shift[w].horizon
                             /\ (shift'[w].pc = "reading" => shift[w].pc = "reading")
        /\ shift' \in [Shifts -> ShiftType]
    <2>1. /\ shift \in [Shifts -> ShiftType] /\ shift[t].pc = "reading"
          /\ shift' = [shift EXCEPT ![t] = [shift[t] EXCEPT !.pc = "built"]]
      BY <1>0, <1>1 DEF ProcessTypes
    <2>2. shift[t] \in ShiftType /\ [shift[t] EXCEPT !.pc = "built"] \in ShiftType
      BY <2>1 DEF ShiftType
    <2>3. shift' \in [Shifts -> ShiftType]
      BY <2>1, <2>2
    <2>4. shift'[t] = [shift[t] EXCEPT !.pc = "built"] /\ \A w \in Shifts \ {t} : shift'[w] = shift[w]
      BY <2>1
    <2>5. /\ shift'[t].claims = shift[t].claims /\ shift'[t].wrote = shift[t].wrote
          /\ shift'[t].horizon = shift[t].horizon /\ shift'[t].pc = "built"
      BY <2>2, <2>4 DEF ShiftType
    <2> QED
      BY <2>3, <2>4, <2>5
  <1>10. ProcessTypes' /\ shelf'.claimed = shelf.claimed
    <2>1. {n + 1} \in SUBSET BatchIds
      BY <1>1, SinkBounds DEF BatchIds
    <2>2. shelf' \in [claimed : SUBSET (BatchIds \X Sinks), prebuilt : SUBSET BatchIds]
          /\ shelf'.claimed = shelf.claimed
      BY <1>0, <1>1, <2>1 DEF ProcessTypes
    <2> QED
      BY <1>0, <1>1, <1>9, <2>2 DEF ProcessTypes
  <1>11. HorizonsHold'
    BY <1>0, <1>7, <1>9 DEF HorizonsHold
  <1>12. ShippedHold'
    BY <1>0, <1>1 DEF ShippedHold
  <1>13. ShiftsHold'
    BY <1>0, <1>n, <1>1, <1>6, <1>9, <1>10 DEF ShiftsHold
  <1>14. ASSUME NEW i \in 1..n, NEW body, CoversTo(i, body) PROVE CoversTo(i, body)'
    BY <1>1, <1>6, <1>14 DEF CoversTo, logVars
  <1>15. CopiesHold'
    BY <1>0, <1>n, <1>1, <1>6, <1>14 DEF CopiesHold
  <1>16. CoversTo(n + 1, R)'
    <2>1. SUFFICES ASSUME NEW q \in logged, KeyIn(RowKey(q), b.prev, b.cursor) PROVE q \in R
      BY <1>1, <1>6 DEF CoversTo, logVars
    <2>2. q \in LogRow /\ r \in LogRow /\ r \in logged
      BY <1>0, <1>2 DEF LogTypes
    <2>3. Precedes(HeadOf(batches), RowKey(q)) /\ ~Precedes(RowKey(r), RowKey(q))
      BY <1>5, <2>1 DEF KeyIn
    <2>4. q.xmin <= r.xmin /\ (q.xmin = r.xmin => q.seq <= r.seq)
      BY <2>2, <2>3, RowFields DEF Precedes
    <2>5. q \in FinalRows(t)
      <3>1. r.xmin < shift[t].horizon /\ shift[t].horizon \in Nat
        BY <1>0, SinkBounds DEF FinalRows, ProcessTypes, ShiftType
      <3>2. q.xmin < shift[t].horizon
        BY <2>2, <2>4, <3>1, RowFields
      <3> QED
        BY <2>3, <3>2 DEF FinalRows
    <2>6. CASE Precedes(RowKey(q), RowKey(r))
      BY <1>1, <2>5, <2>6 DEF IsCut
    <2>7. CASE ~Precedes(RowKey(q), RowKey(r))
      <3>1. q.seq = r.seq
        BY <2>2, <2>4, <2>7, RowFields DEF Precedes
      <3> QED
        BY <1>0, <2>2, <3>1 DEF WritersHold
    <2> QED
      BY <2>6, <2>7
  <1>17. \A y \in Live : b.cursor[1] < y
    <2>1. r \in LogRow /\ b.cursor[1] = r.xmin /\ r.xmin < shift[t].horizon
      BY <1>2, <1>5, RowFields DEF FinalRows
    <2>2. shift[t].horizon \in Nat /\ Live \subseteq Nat
      BY <1>0, SinkBounds DEF ProcessTypes, ShiftType, Live, LogTypes, Xids
    <2> QED
      BY <1>0, <1>1, <2>1, <2>2, RowFields DEF HorizonsHold
  <1>18. ChainHolds'
    <2>1. ASSUME NEW i \in 1..n
          PROVE  /\ batches'[i].prev = IF i = 1 THEN <<0, 0>> ELSE batches'[i - 1].cursor
                 /\ \A y \in Live' : batches'[i].cursor[1] < y
                 /\ CoversTo(i, batches[i].digest)'
      BY <1>0, <1>n, <1>6, <1>7, <1>14 DEF ChainHolds
    <2>2. batches'[n + 1].prev = IF n + 1 = 1 THEN <<0, 0>> ELSE batches'[n].cursor
      BY <1>4, <1>5, <1>6
    <2>3. \A y \in Live' : batches'[n + 1].cursor[1] < y
      BY <1>6, <1>7, <1>17
    <2>4. CoversTo(n + 1, batches[n + 1].digest)'
      BY <1>5, <1>6, <1>16
    <2>5. \A i \in 1..Len(batches') : i \in 1..n \/ i = n + 1
      BY <1>6
    <2> QED
      BY <2>1, <2>2, <2>3, <2>4, <2>5 DEF ChainHolds
  <1> QED
    BY <1>7, <1>8, <1>10, <1>11, <1>12, <1>13, <1>15, <1>18 DEF SinkInv
-----------------------------------------------------------------------------
(* The ticks, by what a step of one leaves and sets.                       *)
LEMMA ProcessMoves ==
  ASSUME SinkInv, UNCHANGED <<logVars, batches>>, ProcessTypes',
         shipment' \in [BatchIds \X Sinks -> ShipmentRow],
         received \subseteq received', received' \subseteq Copy,
         \A m \in received' \ received : m.at[1] \in 1..Len(batches) /\ CoversTo(m.at[1], m.body),
         HorizonsHold', ShippedHold', ShiftsHold'
  PROVE  SinkInv'
  <1>0. LogTypes /\ TableTypes /\ WritersHold /\ ChainHolds /\ CopiesHold
    BY DEF SinkInv
  <1>1. LogTypes' /\ TableTypes' /\ WritersHold'
    BY <1>0 DEF logVars, LogTypes, TableTypes, WritersHold
  <1>2. ChainHolds'
    BY <1>0 DEF logVars, ChainHolds, CoversTo, Live
  <1>3. CopiesHold'
    BY <1>0 DEF logVars, CopiesHold, CoversTo
  <1> QED
    BY <1>1, <1>2, <1>3 DEF SinkInv

LEMMA ShiftMoves ==
  ASSUME SinkInv, NEW t \in Shifts, NEW x \in ShiftType, shift' = [shift EXCEPT ![t] = x],
         UNCHANGED <<logVars, batches, adapters, sinkStarts>>,
         shipment' \in [BatchIds \X Sinks -> ShipmentRow],
         received \subseteq received', received' \subseteq Copy,
         \A m \in received' \ received : m.at[1] \in 1..Len(batches) /\ CoversTo(m.at[1], m.body),
         ShippedHold',
         x.pc = "reading" => \A y \in Live : x.horizon <= y,
         x.claims \subseteq (1..Len(batches)) \X Sinks, x.wrote \subseteq received',
         shelf' \in [claimed : SUBSET (BatchIds \X Sinks), prebuilt : SUBSET BatchIds],
         shelf'.claimed \subseteq (1..Len(batches)) \X Sinks,
         sinkLock' \in {NoShift} \cup Shifts
  PROVE  SinkInv'
  <1>0. ProcessTypes /\ HorizonsHold /\ ShiftsHold
    BY DEF SinkInv
  <1>1. ProcessTypes'
    BY <1>0 DEF ProcessTypes
  <1>2. shift'[t] = x /\ \A w \in Shifts \ {t} : shift'[w] = shift[w]
    BY <1>0 DEF ProcessTypes
  <1>3. HorizonsHold'
    BY <1>0, <1>2 DEF logVars, HorizonsHold, Live
  <1>4. ShiftsHold'
    BY <1>0, <1>2 DEF ShiftsHold
  <1> QED
    BY <1>1, <1>3, <1>4, ProcessMoves

(* A body holds what its range is to hold, prebuilt or made again.         *)
LEMMA BodyCovers ==
  ASSUME SinkInv, NEW t \in Shifts, NEW p \in (1..Len(batches)) \X Sinks
  PROVE  /\ CoversTo(p[1], BodyFor(t, p[1])) /\ BodyFor(t, p[1]) \subseteq LogRow
         /\ [at |-> p, body |-> BodyFor(t, p[1])] \in Copy
  <1>0. LogTypes /\ TableTypes /\ ChainHolds /\ p[1] \in 1..Len(batches)
    BY DEF SinkInv
  <1>1. CoversTo(p[1], BodyFor(t, p[1]))
    BY <1>0 DEF ChainHolds, BodyFor, Rebuilt, CoversTo
  <1>2. BodyFor(t, p[1]) \subseteq LogRow
    BY <1>0, ChainRows DEF BodyFor, Rebuilt, LogTypes
  <1>3. p \in BatchIds \X Sinks
    BY <1>0, SinkBounds DEF TableTypes, BatchIds
  <1> QED
    BY <1>1, <1>2, <1>3 DEF Copy

LEMMA OpenShiftKeeps ==
  ASSUME SinkInv, NEW t \in Shifts, OpenShift(t) PROVE SinkInv'
  <1>0. LogTypes /\ TableTypes /\ ProcessTypes /\ WritersHold /\ HorizonsHold /\ ShippedHold
        /\ ShiftsHold
    BY DEF SinkInv
  <1>1. EmptyShelf \in [claimed : SUBSET (BatchIds \X Sinks), prebuilt : SUBSET BatchIds]
        /\ EmptyShelf.claimed = {}
    BY DEF EmptyShelf
  <1>2. shelf' = EmptyShelf /\ UNCHANGED <<logVars, tableVars, adapters, sinkStarts>>
    BY DEF OpenShift
  <1>3. ShippedHold'
    BY <1>0, <1>2 DEF ShippedHold, tableVars
  <1>4. CASE adapters = {}
    <2>1. UNCHANGED <<shift, sinkLock>>
      BY <1>4 DEF OpenShift
    <2>2. ProcessTypes' /\ HorizonsHold' /\ ShiftsHold'
      BY <1>0, <1>1, <1>2, <2>1
      DEF ProcessTypes, HorizonsHold, ShiftsHold, logVars, tableVars, Live
    <2> QED
      BY <1>0, <1>2, <1>3, <2>2, ProcessMoves DEF tableVars, TableTypes
  <1>5. CASE adapters # {}
    <2>1. PICK h \in 1..(MaxXid + 1) :
              /\ Horizon(h) /\ sinkLock' = t
              /\ shift' = [shift EXCEPT ![t].pc = "reading", ![t].horizon = h]
      BY <1>5 DEF OpenShift
    <2> DEFINE x == [shift[t] EXCEPT !.pc = "reading", !.horizon = h]
    <2>2. x \in ShiftType /\ x.horizon = h /\ x.claims = shift[t].claims
          /\ x.wrote = shift[t].wrote
      <3>1. shift[t] \in ShiftType /\ h \in 0..(MaxXid + 1)
        BY <1>0, SinkBounds DEF ProcessTypes
      <3> QED
        BY ONLY <3>1 DEF ShiftType
    <2>3. shift' = [shift EXCEPT ![t] = x]
      BY <1>0, <2>1 DEF ProcessTypes
    <2>4. \A y \in Live : h <= y
      BY <1>0, <2>1 DEF Horizon, Live, LogTypes, Xids, WritersHold
    <2>5. x.claims \subseteq (1..Len(batches)) \X Sinks /\ x.wrote \subseteq received
      BY <1>0, <2>2 DEF ShiftsHold
    <2> HIDE DEF x
    <2> QED
      BY <1>0, <1>1, <1>2, <1>3, <2>1, <2>2, <2>3, <2>4, <2>5, ShiftMoves
      DEF tableVars, TableTypes
  <1> QED
    BY <1>4, <1>5

LEMMA BuildNothingKeeps ==
  ASSUME SinkInv, NEW t \in Shifts, BuildNothing(t) PROVE SinkInv'
  <1>0. TableTypes /\ ProcessTypes /\ ShippedHold /\ ShiftsHold
    BY DEF SinkInv
  <1> DEFINE x == [shift[t] EXCEPT !.pc = "built"]
  <1>1. x \in ShiftType /\ x.pc = "built" /\ x.claims = shift[t].claims
        /\ x.wrote = shift[t].wrote
    BY <1>0 DEF ProcessTypes, ShiftType
  <1>2. shift' = [shift EXCEPT ![t] = x]
        /\ UNCHANGED <<logVars, tableVars, shelf, sinkLock, adapters, sinkStarts>>
    BY <1>0 DEF BuildNothing
  <1>3. x.claims \subseteq (1..Len(batches)) \X Sinks /\ x.wrote \subseteq received
    BY <1>0, <1>1 DEF ShiftsHold
  <1> HIDE DEF x
  <1> QED
    BY <1>0, <1>1, <1>2, <1>3, ShiftMoves
    DEF tableVars, TableTypes, ProcessTypes, ShippedHold, ShiftsHold

LEMMA ClaimShipmentsKeeps ==
  ASSUME SinkInv, NEW t \in Shifts, NEW New \in SUBSET Unplanned,
         NEW C \in SUBSET (New \cup InState(DOMAIN shipment, "due")),
         ClaimShipments(t, New, C)
  PROVE  SinkInv'
  <1>0. TableTypes /\ ProcessTypes /\ ShippedHold /\ ShiftsHold
    BY DEF SinkInv
  <1> DEFINE x == [shift[t] EXCEPT !.pc = "unlocked"]
  <1>1. x \in ShiftType /\ x.pc = "unlocked" /\ x.claims = shift[t].claims
        /\ x.wrote = shift[t].wrote
    BY <1>0 DEF ProcessTypes, ShiftType
  <1>2. shift' = [shift EXCEPT ![t] = x] /\ sinkLock' = NoShift
        /\ shelf' = [shelf EXCEPT !.claimed = C]
        /\ UNCHANGED <<logVars, batches, received, adapters, sinkStarts>>
    BY <1>0 DEF ClaimShipments
  <1>3. x.claims \subseteq (1..Len(batches)) \X Sinks /\ x.wrote \subseteq received
    BY <1>0, <1>1 DEF ShiftsHold
  <1> HIDE DEF x
  <1>4. C \subseteq (1..Len(batches)) \X Sinks
    BY <1>0 DEF ClaimShipments, IsOldest, Unplanned, InState, ProcessTypes
  <1>5. (1..Len(batches)) \X Sinks \subseteq BatchIds \X Sinks
    BY <1>0, SinkBounds DEF TableTypes, BatchIds
  <1>6. shelf' \in [claimed : SUBSET (BatchIds \X Sinks), prebuilt : SUBSET BatchIds]
        /\ shelf'.claimed = C
    BY <1>0, <1>2, <1>4, <1>5 DEF ProcessTypes
  <1>7. shipment' = [p \in BatchIds \X Sinks |->
           IF p \in C THEN [shipment[p] EXCEPT !.state = "later"]
           ELSE IF p \in New THEN [shipment[p] EXCEPT !.state = "due"] ELSE shipment[p]]
    BY <1>0 DEF ClaimShipments, TableTypes
  <1>8. \A p \in BatchIds \X Sinks : /\ shipment'[p] \in ShipmentRow
                                     /\ (shipment'[p].state = "shipped" => shipment[p].state = "shipped")
    BY <1>0, <1>7 DEF TableTypes, ShipmentRow
  <1>9. shipment' \in [BatchIds \X Sinks -> ShipmentRow]
    BY <1>7, <1>8
  <1>10. ShippedHold'
    BY <1>0, <1>2, <1>8 DEF ShippedHold
  <1> QED
    BY <1>0, <1>1, <1>2, <1>3, <1>4, <1>6, <1>9, <1>10, ShiftMoves DEF TableTypes

LEMMA StartShippingKeeps ==
  ASSUME SinkInv, NEW t \in Shifts, StartShipping(t) PROVE SinkInv'
  <1>0. TableTypes /\ ProcessTypes /\ ShippedHold /\ ShiftsHold
    BY DEF SinkInv
  <1> DEFINE x == [shift[t] EXCEPT !.pc = "shipping", !.claims = shelf.claimed,
                                   !.prebuilt = shelf.prebuilt]
  <1>1. x \in ShiftType /\ x.pc = "shipping" /\ x.claims = shelf.claimed
        /\ x.wrote = shift[t].wrote
    BY ZenonT(40), <1>0 DEF ProcessTypes, ShiftType
  <1>2. shift' = [shift EXCEPT ![t] = x]
        /\ UNCHANGED <<logVars, tableVars, shelf, sinkLock, adapters, sinkStarts>>
    BY <1>0 DEF StartShipping
  <1>3. x.claims \subseteq (1..Len(batches)) \X Sinks /\ x.wrote \subseteq received
    BY <1>0, <1>1 DEF ShiftsHold
  <1> HIDE DEF x
  <1> QED
    BY <1>0, <1>1, <1>2, <1>3, ShiftMoves
    DEF tableVars, TableTypes, ProcessTypes, ShippedHold, ShiftsHold

LEMMA ShipBatchKeeps ==
  ASSUME SinkInv, NEW t \in Shifts, NEW p \in shift[t].claims, ShipBatch(t, p) PROVE SinkInv'
  <1>0. TableTypes /\ ProcessTypes /\ ShippedHold /\ ShiftsHold
    BY DEF SinkInv
  <1> DEFINE m == [at |-> p, body |-> BodyFor(t, p[1])]
             x == [shift[t] EXCEPT !.wrote = @ \cup {m}]
  <1>1. m \in Copy /\ m.at = p /\ p[1] \in 1..Len(batches) /\ CoversTo(m.at[1], m.body)
    BY <1>0, BodyCovers DEF ShiftsHold
  <1>2. received' = received \cup {m}
        /\ UNCHANGED <<logVars, batches, shipment, shelf, sinkLock, adapters, sinkStarts>>
    BY DEF ShipBatch, Receive
  <1>3. shift' = [shift EXCEPT ![t] = x]
    BY <1>0 DEF ShipBatch
  <1> HIDE DEF m
  <1>4. x \in ShiftType /\ x.pc = shift[t].pc /\ x.claims = shift[t].claims
        /\ x.wrote = shift[t].wrote \cup {m}
    BY ZenonT(40), <1>0, <1>1 DEF ProcessTypes, ShiftType
  <1>5. x.pc # "reading"
    BY <1>4 DEF ShipBatch, Facing
  <1> HIDE DEF x
  <1>6. x.claims \subseteq (1..Len(batches)) \X Sinks /\ x.wrote \subseteq received'
    BY <1>0, <1>2, <1>4 DEF ShiftsHold
  <1>7. received' \subseteq Copy /\ \A w \in received' \ received : w = m
    BY <1>0, <1>1, <1>2 DEF TableTypes
  <1>8. ShippedHold'
    BY <1>0, <1>2 DEF ShippedHold
  <1> QED
    BY <1>0, <1>1, <1>2, <1>3, <1>4, <1>5, <1>6, <1>7, <1>8, ShiftMoves
    DEF TableTypes, ProcessTypes, ShiftsHold

LEMMA RecordShipmentKeeps ==
  ASSUME SinkInv, NEW t \in Shifts, NEW w \in shift[t].wrote, RecordShipment(t, w)
  PROVE  SinkInv'
  <1>0. TableTypes /\ ProcessTypes /\ HorizonsHold /\ ShippedHold /\ ShiftsHold
    BY DEF SinkInv
  <1>1. w \in Copy /\ w \in received
    BY <1>0 DEF ShiftsHold, TableTypes
  <1>2. w.at \in BatchIds \X Sinks /\ w.body \subseteq LogRow
    BY <1>1 DEF Copy
  <1> DEFINE x == [shift[t] EXCEPT !.wrote = @ \ {w}, !.claims = @ \ {w.at}]
  <1>3. x \in ShiftType /\ x.pc = shift[t].pc /\ x.horizon = shift[t].horizon
        /\ x.claims \subseteq shift[t].claims /\ x.wrote \subseteq shift[t].wrote
    BY <1>0 DEF ProcessTypes, ShiftType
  <1>4. shift' = [shift EXCEPT ![t] = x]
        /\ shipment' = [shipment EXCEPT ![w.at] = [state |-> "shipped", digest |-> w.body]]
        /\ UNCHANGED <<logVars, batches, received, shelf, sinkLock, adapters, sinkStarts>>
    BY <1>0 DEF RecordShipment
  <1> HIDE DEF x
  <1>5. x.claims \subseteq (1..Len(batches)) \X Sinks /\ x.wrote \subseteq received
        /\ (x.pc = "reading" => \A y \in Live : x.horizon <= y)
    BY <1>0, <1>3 DEF ShiftsHold, HorizonsHold
  <1>6. [state |-> "shipped", digest |-> w.body] \in ShipmentRow
    BY <1>2 DEF ShipmentRow
  <1>7. shipment' \in [BatchIds \X Sinks -> ShipmentRow]
        /\ \A p \in BatchIds \X Sinks : p # w.at => shipment'[p] = shipment[p]
    BY <1>0, <1>2, <1>4, <1>6 DEF TableTypes
  <1>8. ShippedHold'
    BY <1>0, <1>1, <1>4, <1>7 DEF ShippedHold
  <1> QED
    BY <1>0, <1>3, <1>4, <1>5, <1>7, <1>8, ShiftMoves DEF TableTypes, ProcessTypes, ShiftsHold

LEMMA FailShipmentKeeps ==
  ASSUME SinkInv, NEW t \in Shifts, NEW taken \in BOOLEAN, NEW p \in shift[t].claims,
         FailShipment(t, p, taken)
  PROVE  SinkInv'
  <1>0. TableTypes /\ ProcessTypes /\ ShippedHold /\ ShiftsHold
    BY DEF SinkInv
  <1> DEFINE m == [at |-> p, body |-> BodyFor(t, p[1])]
             x == [shift[t] EXCEPT !.stopped = @ \cup {p[2]}]
  <1>1. m \in Copy /\ m.at = p /\ p \in (1..Len(batches)) \X Sinks /\ CoversTo(m.at[1], m.body)
    BY <1>0, BodyCovers DEF ShiftsHold
  <1>2. received' \in {received, received \cup {m}}
        /\ shipment' = [shipment EXCEPT ![p] = PushedBack(p)]
        /\ UNCHANGED <<logVars, batches, shelf, sinkLock, adapters, sinkStarts>>
    BY DEF FailShipment, Receive
  <1> HIDE DEF m
  <1>3. shift' = [shift EXCEPT ![t] = x]
    BY <1>0 DEF FailShipment
  <1>4. x \in ShiftType /\ x.pc = shift[t].pc /\ x.claims = shift[t].claims
        /\ x.wrote = shift[t].wrote
    BY <1>0, <1>1 DEF ProcessTypes, ShiftType
  <1>5. x.pc # "reading"
    BY <1>4 DEF FailShipment, Facing
  <1> HIDE DEF x
  <1>6. x.claims \subseteq (1..Len(batches)) \X Sinks /\ x.wrote \subseteq received'
    BY <1>0, <1>2, <1>4 DEF ShiftsHold
  <1>7. received \subseteq received' /\ received' \subseteq Copy
        /\ \A w \in received' \ received : w = m
    BY <1>0, <1>1, <1>2 DEF TableTypes
  <1>8. p \in BatchIds \X Sinks /\ PushedBack(p) \in ShipmentRow
        /\ (PushedBack(p).state = "shipped" => shipment[p].state = "shipped")
    BY SMTT(30), <1>0, <1>1, SinkBounds DEF TableTypes, BatchIds, ShipmentRow, PushedBack
  <1>9. shipment' \in [BatchIds \X Sinks -> ShipmentRow]
        /\ \A q \in BatchIds \X Sinks :
               shipment'[q].state = "shipped" => shipment[q].state = "shipped"
    BY <1>0, <1>2, <1>8 DEF TableTypes
  <1>10. ShippedHold'
    BY <1>0, <1>7, <1>9 DEF ShippedHold
  <1> QED
    BY <1>0, <1>1, <1>2, <1>3, <1>4, <1>5, <1>6, <1>7, <1>9, <1>10, ShiftMoves
    DEF TableTypes, ProcessTypes, ShiftsHold

LEMMA EndShiftKeeps ==
  ASSUME SinkInv, NEW t \in Shifts, EndShift(t) PROVE SinkInv'
  <1>0. TableTypes /\ ProcessTypes /\ ShippedHold /\ ShiftsHold
    BY DEF SinkInv
  <1>1. EmptyShelf \in [claimed : SUBSET (BatchIds \X Sinks), prebuilt : SUBSET BatchIds]
        /\ EmptyShelf.claimed = {}
    BY DEF EmptyShelf
  <1>2. OffShift.pc = "idle" /\ OffShift.claims = {} /\ OffShift.wrote = {}
    BY DEF OffShift
  <1>3. ShippedHold'
    BY <1>0 DEF EndShift, ShippedHold
  <1> QED
    BY <1>0, <1>1, <1>2, <1>3, OffShiftTyped, ShiftMoves
    DEF EndShift, TableTypes, ProcessTypes, ShiftsHold

LEMMA FallsDueKeeps ==
  ASSUME SinkInv, NEW p \in DOMAIN shipment, ShipmentFallsDue(p) PROVE SinkInv'
  <1>0. TableTypes /\ ProcessTypes /\ HorizonsHold /\ ShippedHold /\ ShiftsHold
    BY DEF SinkInv
  <1>1. p \in BatchIds \X Sinks /\ shipment' = [shipment EXCEPT ![p].state = "due"]
        /\ UNCHANGED <<logVars, batches, received, processVars>>
    BY <1>0 DEF TableTypes, ShipmentFallsDue
  <1>2. shipment' \in [BatchIds \X Sinks -> ShipmentRow]
        /\ \A q \in BatchIds \X Sinks :
               shipment'[q].state = "shipped" => shipment[q].state = "shipped"
    BY <1>0, <1>1 DEF TableTypes, ShipmentRow
  <1>3. ShippedHold'
    BY <1>0, <1>1, <1>2 DEF ShippedHold
  <1>4. ProcessTypes' /\ HorizonsHold' /\ ShiftsHold'
    BY <1>0, <1>1 DEF ProcessTypes, HorizonsHold, ShiftsHold, logVars, processVars, Live
  <1> QED
    BY <1>0, <1>1, <1>2, <1>3, <1>4, ProcessMoves DEF TableTypes

LEMMA RestartSinkKeeps ==
  ASSUME SinkInv, NEW A \in SUBSET Sinks, RestartSink(A) PROVE SinkInv'
  <1>0. TableTypes /\ ProcessTypes /\ ShippedHold
    BY DEF SinkInv
  <1>1. ProcessTypes'
    BY <1>0, OffShiftTyped, SinkBounds DEF RestartSink, ProcessTypes, EmptyShelf
  <1>2. HorizonsHold' /\ ShiftsHold'
    BY DEF RestartSink, HorizonsHold, ShiftsHold, OffShift, EmptyShelf
  <1>3. ShippedHold'
    BY <1>0 DEF RestartSink, tableVars, ShippedHold
  <1> QED
    BY <1>0, <1>1, <1>2, <1>3, ProcessMoves DEF RestartSink, tableVars, TableTypes
-----------------------------------------------------------------------------
LEMMA SinkKept == ASSUME SinkInv, [SinkNext]_sinkVars PROVE SinkInv'
  <1>1. CASE BeginWriter
    BY <1>1, BeginWriterKeeps
  <1>2. CASE \E x \in running : AppendEvent(x)
    BY <1>2, AppendEventKeeps
  <1>3. CASE \E x \in running, kept \in BOOLEAN : EndWriter(x, kept)
    BY <1>3, EndWriterKeeps
  <1>4. CASE \E x \in running : \E S \in SUBSET logged : CommitErasure(x, S)
    BY <1>4, CommitErasureKeeps
  <1>5. CASE \E t \in Shifts : OpenShift(t)
    BY <1>5, OpenShiftKeeps
  <1>6. CASE \E t \in Shifts : \E R \in SUBSET FinalRows(t) : BuildBatch(t, R)
    BY <1>6, BuildBatchKeeps
  <1>7. CASE \E t \in Shifts : BuildNothing(t)
    BY <1>7, BuildNothingKeeps
  <1>8. CASE \E t \in Shifts : \E New \in SUBSET Unplanned :
                 \E C \in SUBSET (New \cup InState(DOMAIN shipment, "due")) :
                     ClaimShipments(t, New, C)
    BY <1>8, ClaimShipmentsKeeps
  <1>9. CASE \E t \in Shifts : StartShipping(t)
    BY <1>9, StartShippingKeeps
  <1>10. CASE \E t \in Shifts : \E p \in shift[t].claims : ShipBatch(t, p)
    BY <1>10, ShipBatchKeeps
  <1>11. CASE \E t \in Shifts : \E w \in shift[t].wrote : RecordShipment(t, w)
    BY <1>11, RecordShipmentKeeps
  <1>12. CASE \E t \in Shifts, taken \in BOOLEAN :
                  \E p \in shift[t].claims : FailShipment(t, p, taken)
    BY <1>12, FailShipmentKeeps
  <1>13. CASE \E t \in Shifts : EndShift(t)
    BY <1>13, EndShiftKeeps
  <1>14. CASE \E p \in DOMAIN shipment : ShipmentFallsDue(p)
    BY <1>14, FallsDueKeeps
  <1>15. CASE \E A \in SUBSET Sinks : RestartSink(A)
    BY <1>15, RestartSinkKeeps
  <1>16. CASE UNCHANGED sinkVars
    <2>1. TableTypes /\ ProcessTypes /\ HorizonsHold /\ ShippedHold /\ ShiftsHold
      BY DEF SinkInv
    <2>2. ProcessTypes' /\ HorizonsHold' /\ ShippedHold' /\ ShiftsHold'
      BY <1>16, <2>1
      DEF ProcessTypes, HorizonsHold, ShippedHold, ShiftsHold, sinkVars, logVars, tableVars,
          processVars, Live
    <2> QED
      BY <1>16, <2>1, <2>2, ProcessMoves DEF sinkVars, tableVars, TableTypes
  <1> QED
    BY <1>1, <1>2, <1>3, <1>4, <1>5, <1>6, <1>7, <1>8, <1>9, <1>10, <1>11, <1>12, <1>13,
       <1>14, <1>15, <1>16
    DEF SinkNext

(* The inductive invariant of the sink holds of every reachable state.     *)
THEOREM SinkInductive == SinkSpec => []SinkInv
  <1> QED
    BY SinkStart, SinkKept, PTL DEF SinkSpec

(* Every variable of the sink keeps its type.                              *)
THEOREM SinkTypes == SinkSpec => []SinkTypeOK
  <1>1. SinkInv => SinkTypeOK
    <2> SUFFICES ASSUME SinkInv PROVE SinkTypeOK
      OBVIOUS
    <2>1. LogTypes /\ TableTypes /\ ProcessTypes
      BY DEF SinkInv
    <2>2. batches \in Seq([prev : CursorType, cursor : CursorType, digest : SUBSET LogRow])
      BY <2>1 DEF TableTypes, BatchRow
    <2>3. \A p \in BatchIds \X Sinks : /\ shipment[p].state \in {"absent", "due", "later", "shipped"}
                                       /\ shipment[p].digest \subseteq LogRow
      BY <2>1 DEF TableTypes, ShipmentRow
    <2>4. \A m \in received : m.at \in BatchIds \X Sinks /\ m.body \subseteq LogRow
      BY <2>1 DEF TableTypes, Copy
    <2>5. \A t \in Shifts : shift[t].pc \in {"idle", "reading", "built", "unlocked", "shipping"}
      BY <2>1 DEF ProcessTypes, ShiftType
    <2> QED
      BY <2>1, <2>2, <2>3, <2>4, <2>5 DEF LogTypes, ProcessTypes, SinkTypeOK
  <1> QED
    BY <1>1, SinkInductive, PTL

(* A key at or below the cursor of a batch is in the range of one that     *)
(* comes no later in the chain.                                            *)
LEMMA ChainLeavesNoGap ==
  ASSUME SinkInv, NEW n \in 1..Len(batches), NEW r \in logged,
         ~Precedes(batches[n].cursor, RowKey(r))
  PROVE  \E b \in 1..n : KeyIn(RowKey(r), batches[b].prev, batches[b].cursor)
  <1>0. LogTypes /\ TableTypes /\ ChainHolds /\ r \in LogRow
    BY DEF SinkInv, LogTypes
  <1> DEFINE S == {b \in 1..n : ~Precedes(batches[b].cursor, RowKey(r))}
             Less == {ss \in Nat \X Nat : ss[1] < ss[2]}
  <1>1. S \subseteq Nat /\ S # {}
    OBVIOUS
  <1>2. IsWellFoundedOn(Less, Nat)
    BY NatLessThanWellFounded DEF OpToRel
  <1>3. PICK b \in S : \A c \in S : ~(<<c, b>> \in Less)
    <2> HIDE DEF S, Less
    <2> QED
      BY <1>1, <1>2, WFMin
  <1>4. b \in 1..n /\ b \in 1..Len(batches) /\ ~Precedes(batches[b].cursor, RowKey(r))
    BY <1>0 DEF TableTypes
  <1>5. Precedes(batches[b].prev, RowKey(r))
    <2>1. CASE b = 1
      BY <1>0, <1>4, <2>1, RowFields DEF ChainHolds, Precedes
    <2>2. CASE b # 1
      <3>1. b - 1 \in 1..n /\ b - 1 < b /\ b - 1 \in Nat /\ b \in Nat
        BY <1>4, <2>2
      <3>2. b - 1 \notin S
        <4>1. <<b - 1, b>> \in Less
          BY <3>1
        <4> QED
          BY <1>3, <4>1
      <3>3. batches[b].prev = batches[b - 1].cursor
        BY <1>0, <1>4, <2>2 DEF ChainHolds
      <3> QED
        BY <3>1, <3>2, <3>3
    <2> QED
      BY <2>1, <2>2
  <1> QED
    BY <1>4, <1>5 DEF KeyIn

(* The copy is complete (reader.ts, ship.ts): the row versions that stand  *)
(* at or below the cursor have all been taken by a sink once the batches   *)
(* up to there are recorded as shipped to it.                              *)
THEOREM SinkIsComplete == SinkSpec => []SinkKeepsLog
  <1>1. ASSUME SinkInv PROVE SinkKeepsLog
    <2>0. LogTypes /\ TableTypes /\ CopiesHold /\ ShippedHold
      BY <1>1 DEF SinkInv
    <2> SUFFICES ASSUME NEW s \in Sinks, NEW n \in BatchIds, n <= Len(batches),
                        \A b \in 1..n : shipment[<<b, s>>].state = "shipped",
                        NEW r \in logged, ~Precedes(batches[n].cursor, RowKey(r))
                 PROVE  \E m \in received : m.at[1] <= n /\ m.at[2] = s /\ r \in m.body
      BY DEF SinkKeepsLog
    <2>1. n \in 1..Len(batches)
      BY <2>0, SinkBounds DEF TableTypes, BatchIds
    <2>2. PICK b \in 1..n : KeyIn(RowKey(r), batches[b].prev, batches[b].cursor)
      BY <1>1, <2>1, ChainLeavesNoGap
    <2>3. <<b, s>> \in BatchIds \X Sinks
      BY <2>1, SinkBounds DEF BatchIds
    <2>4. PICK m \in received : m.at = <<b, s>>
      BY <2>0, <2>3 DEF ShippedHold
    <2>5. m.at[1] = b /\ m.at[2] = s /\ b <= n
      BY <2>1, <2>4
    <2>6. r \in m.body
      BY <2>0, <2>2, <2>5 DEF CopiesHold, CoversTo
    <2> QED
      BY <2>5, <2>6
  <1> QED
    BY <1>1, SinkInductive, PTL
=============================================================================

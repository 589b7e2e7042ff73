-------------------------- MODULE EventFanoutProofs --------------------------
(***************************************************************************)
(* The fan-out loses no event, for every number of endpoints, transactions *)
(* and events, every window and every threshold.  The argument is IInv of  *)
(* EventFanout: whatever can still become visible has a key greater than   *)
(* every position read or stored so far, so a position once reached stays  *)
(* reached.                                                                *)
(***************************************************************************)
EXTENDS EventFanout, TLAPS, FiniteSetTheorems, FunctionTheorems

(* What a step of the database leaves to a reader: nothing older than what *)
(* was running can start, and what becomes visible is as young as that.    *)
Younger(active, active2) == \A y \in active2 : \E x \in active : x <= y
Appears(vis, vis2, active) ==
  \A r \in vis2 : r \in vis \/ (r.xmin \in active /\ r \in RowsOf)
DbStep == Younger(Active, Active') /\ Appears(Visible, Visible', Active)

LEMMA StaysAtMost ==
  ASSUME NEW active \in SUBSET Int, NEW active2 \in SUBSET Int, Younger(active, active2),
         NEW h \in Int, AtMost(h, active)
  PROVE  AtMost(h, active2)
BY DEF Younger, AtMost

LEMMA StaysBehind ==
  ASSUME NEW active \in SUBSET Int, NEW active2 \in SUBSET Int, Younger(active, active2),
         NEW c \in Int \X Int, Behind(c, active)
  PROVE  Behind(c, active2)
<1> SUFFICES ASSUME NEW y \in active2 PROVE Before(c, <<y, 1>>)
  BY DEF Behind
<1>1. PICK x \in active : x <= y
  BY DEF Younger
<1>2. Before(c, <<x, 1>>)
  BY DEF Behind
<1> QED BY <1>1, <1>2 DEF Before

(* A position reached stays reached, though rows appear, the floor rises,  *)
(* fewer kinds stay wanted, and more is handed over and queued.            *)
LEMMA StaysCovered ==
  ASSUME NEW active \in SUBSET Int, NEW vis, NEW vis2, Appears(vis, vis2, active),
         NEW e, NEW c \in Int \X Int, Behind(c, active),
         NEW floor \in Int, NEW floor2 \in Int, floor <= floor2,
         NEW steady, NEW steady2, steady2 \subseteq steady,
         NEW given, NEW given2, given \subseteq given2,
         NEW queue, NEW queue2, queue \subseteq queue2,
         vis2 \subseteq RowsOf,
         Covered(e, c, vis, floor, steady, given, queue)
  PROVE  Covered(e, c, vis2, floor2, steady2, given2, queue2)
<1> SUFFICES ASSUME NEW r \in vis2, ~Before(c, Key(r)), floor2 <= r.xmin
             PROVE  Key(r) \in given2 /\ (r.kind \in steady2 => <<e, r.seq>> \in queue2)
  BY DEF Covered
<1>0. r.xmin \in Int /\ r.seq \in Int /\ 1 <= r.seq
  BY DEF RowsOf, Xids, Seqs
<1>1. CASE r \in vis
  <2>1. floor <= r.xmin
    BY <1>0
  <2> QED BY <1>1, <2>1 DEF Covered
<1>2. CASE r.xmin \in active
  <2>1. Before(c, <<r.xmin, 1>>)
    BY <1>2 DEF Behind
  <2> QED BY <2>1, <1>0 DEF Before, Key
<1> QED BY <1>1, <1>2 DEF Appears

(* Where a new or repositioned cursor stands, all is below the floor.      *)
LEMMA StartIsCovered ==
  ASSUME NEW vis \in SUBSET RowsOf, NEW h \in Int, NEW floor \in Int, h <= floor,
         NEW e, NEW steady, NEW given, NEW queue
  PROVE  Covered(e, <<h, 0>>, vis, floor, steady, given, queue)
<1> SUFFICES ASSUME NEW r \in vis, ~Before(<<h, 0>>, Key(r)), floor <= r.xmin PROVE FALSE
  BY DEF Covered
<1>1. r.xmin \in Int /\ r.seq \in Int /\ 1 <= r.seq
  BY DEF RowsOf, Xids, Seqs
<1> QED BY <1>1 DEF Before, Key

LEMMA StartIsBehind ==
  ASSUME NEW active \in SUBSET Int, NEW h \in Int, AtMost(h, active)
  PROVE  Behind(<<h, 0>>, active)
BY DEF AtMost, Behind, Before
------------------------------------------------------------------------------
(* What each step of a writer does to the log.                             *)

LEMMA ActiveTyped == TypeOK => Active \in SUBSET Int /\ Visible \in SUBSET RowsOf
BY BoundAssumption DEF TypeOK, Active, Visible, Committed, Xids

LEMMA ActiveTypedNext == TypeOK' => Active' \in SUBSET Int /\ Visible' \in SUBSET RowsOf
BY BoundAssumption DEF TypeOK, Active, Visible, Committed, Xids

LEMMA NoDbStep == ASSUME TypeOK, UNCHANGED db PROVE DbStep
<1>1. Active' = Active /\ Visible' = Visible
  BY DEF db, Active, Visible, Committed
<1>2. Visible \subseteq RowsOf /\ \A x \in Active : x <= x
  BY ActiveTyped
<1> QED BY <1>1, <1>2 DEF DbStep, Younger, Appears

LEMMA BeginDb == ASSUME TypeOK, IdsOK, Begin PROVE DbStep /\ IdsOK' /\ TypeOK'
<1>0. nextXid \in Int /\ nextXid + 1 \in Xids /\ nextXid \in Xids
  BY BoundAssumption DEF TypeOK, Begin, Xids
<1>1. Active' = Active \cup {nextXid + 1}
  BY DEF Begin, Active
<1>2. Visible' \subseteq Visible
  BY DEF Begin, Visible, Committed
<1>3. DbStep
  BY <1>0, <1>1, <1>2, ActiveTyped DEF DbStep, Younger, Appears, Active
<1>4. IdsOK'
  BY <1>0, BoundAssumption DEF Begin, IdsOK, TypeOK, RowsOf, Xids
<1>5. TypeOK'
  BY <1>0 DEF Begin, TypeOK, deliveries
<1> QED BY <1>3, <1>4, <1>5

LEMMA RecordDb ==
  ASSUME TypeOK, IdsOK, NEW x \in running, NEW kind \in Kinds, Record(x, kind)
  PROVE  DbStep /\ IdsOK' /\ TypeOK'
<1> DEFINE new == Row(nextSeq, x, kind)
<1>0. /\ nextSeq \in Seqs /\ nextSeq + 1 \in 1 .. MaxSeq + 1
      /\ x \in Xids /\ new \in RowsOf /\ new.seq = nextSeq /\ new.xmin = x
  BY BoundAssumption DEF TypeOK, Record, Xids, Seqs, Row, RowsOf
<1>1. Active' = Active /\ Visible' = Visible
  BY <1>0 DEF Record, Active, Visible, Committed
<1>2. DbStep
  BY <1>1, ActiveTyped DEF DbStep, Younger, Appears
<1>3. rows' = rows \cup {new} /\ nextSeq' = nextSeq + 1
  BY DEF Record
<1>4. IdsOK'
  <2>1. \A r \in rows : r.seq < nextSeq /\ r.seq \in Int
    BY DEF IdsOK, TypeOK, RowsOf, Seqs
  <2>2. x < nextXid
    BY DEF IdsOK
  <2>3. nextSeq \in Int
    BY DEF TypeOK
  <2> HIDE DEF new
  <2> QED BY <1>0, <1>3, <2>1, <2>2, <2>3 DEF Record, IdsOK
<1>5. TypeOK'
  <2> HIDE DEF new
  <2> QED BY <1>0, <1>3 DEF Record, TypeOK, deliveries
<1> QED BY <1>2, <1>4, <1>5

LEMMA RewriteDb ==
  ASSUME TypeOK, IdsOK, NEW x \in running, NEW S, Rewrite(x, S)
  PROVE  DbStep /\ IdsOK' /\ TypeOK'
<1>1. Active' = Active /\ Visible' = Visible
  BY DEF Rewrite, Active, Visible, Committed
<1>2. DbStep
  BY <1>1, ActiveTyped DEF DbStep, Younger, Appears
<1>3. IdsOK'
  BY DEF Rewrite, IdsOK
<1>4. rewrites' \subseteq Xids \X Seqs
  <2>1. x \in Xids /\ \A r \in S : r.seq \in Seqs
    BY ActiveTyped DEF TypeOK, Rewrite, RowsOf
  <2> QED BY <2>1 DEF Rewrite, TypeOK
<1>5. TypeOK'
  BY <1>4 DEF Rewrite, TypeOK, deliveries
<1> QED BY <1>2, <1>3, <1>5

LEMMA CommitDb ==
  ASSUME TypeOK, IdsOK, NEW x \in running, Commit(x)
  PROVE  DbStep /\ IdsOK' /\ TypeOK'
<1>0. x \in Xids /\ x < nextXid
  BY DEF TypeOK, IdsOK
<1>1. \A r \in RowsOf :
        /\ Rekeyed(x, r) \in RowsOf /\ Rekeyed(x, r).seq = r.seq
        /\ Rekeyed(x, r) = r \/ Rekeyed(x, r).xmin = x
  BY <1>0 DEF Rekeyed, RowsOf
<1>2. Active' \subseteq Active
  BY DEF Commit, Active
<1>3. rows' = {Rekeyed(x, r) : r \in rows} /\ rows \subseteq RowsOf
  BY DEF Commit, TypeOK
<1>4. ASSUME NEW q \in Visible' PROVE q \in Visible \/ (q.xmin \in Active /\ q \in RowsOf)
  <2>1. PICK r \in rows : q = Rekeyed(x, r)
    BY <1>3 DEF Visible, Committed
  <2>2. q \in RowsOf /\ (q = r \/ q.xmin = x)
    BY <1>1, <1>3, <2>1
  <2>3. q.xmin \notin running \ {x}
    BY DEF Visible, Committed, Commit
  <2> QED BY <2>1, <2>2, <2>3 DEF Visible, Committed, Active
<1>5. DbStep
  BY <1>2, <1>4, ActiveTyped DEF DbStep, Younger, Appears
<1>6. IdsOK'
  <2>1. ASSUME NEW q \in rows' PROVE q.xmin < nextXid /\ q.seq < nextSeq
    <3>1. PICK r \in rows : q = Rekeyed(x, r)
      BY <1>3
    <3> QED BY <1>0, <1>1, <1>3, <3>1 DEF IdsOK
  <2>2. ASSUME NEW q \in rows', NEW p \in rows', q.seq = p.seq PROVE q = p
    <3>1. PICK r \in rows : q = Rekeyed(x, r)
      BY <1>3
    <3>2. PICK s \in rows : p = Rekeyed(x, s)
      BY <1>3
    <3>3. r.seq = s.seq
      BY <1>1, <1>3, <2>2, <3>1, <3>2
    <3> QED BY <3>1, <3>2, <3>3 DEF IdsOK
  <2> QED BY <2>1, <2>2 DEF IdsOK, Commit
<1>7. rows' \subseteq RowsOf
  BY <1>1, <1>3
<1>8. TypeOK'
  BY <1>7 DEF Commit, TypeOK, deliveries
<1> QED BY <1>5, <1>6, <1>8

LEMMA AbortDb ==
  ASSUME TypeOK, IdsOK, NEW x \in running, Abort(x)
  PROVE  DbStep /\ IdsOK' /\ TypeOK'
<1>1. Active' \subseteq Active /\ Visible' \subseteq Visible
  BY DEF Abort, Active, Visible, Committed
<1>2. DbStep
  BY <1>1, ActiveTyped DEF DbStep, Younger, Appears
<1>3. IdsOK'
  BY DEF Abort, IdsOK
<1>4. TypeOK'
  BY DEF Abort, TypeOK, deliveries
<1> QED BY <1>2, <1>3, <1>4

(* The event an operation on an endpoint records in its own transaction.   *)
LEMMA RecordedDb ==
  ASSUME TypeOK, IdsOK, Recorded
  PROVE  /\ DbStep /\ IdsOK'
         /\ nextXid' \in Xids /\ nextSeq' \in 1 .. MaxSeq + 1 /\ running' \subseteq Xids
         /\ rows' \subseteq RowsOf /\ rewrites' \subseteq Xids \X Seqs
<1> DEFINE new == Row(nextSeq, nextXid, EndpointKind)
<1>0. /\ nextSeq \in Seqs /\ nextSeq + 1 \in 1 .. MaxSeq + 1
      /\ nextXid \in Xids /\ nextXid + 1 \in Xids /\ nextXid \in Int
      /\ new \in RowsOf /\ new.seq = nextSeq /\ new.xmin = nextXid
  BY BoundAssumption, KindAssumption DEF TypeOK, Recorded, Xids, Seqs, Row, RowsOf
<1>1. /\ rows' = rows \cup {new} /\ nextSeq' = nextSeq + 1 /\ nextXid' = nextXid + 1
      /\ running' = running /\ rewrites' = rewrites
  BY DEF Recorded
<1> HIDE DEF new
<1>2. DbStep
  <2>1. Younger(Active, Active')
    BY <1>0, <1>1, ActiveTyped DEF Younger, Active
  <2>2. Appears(Visible, Visible', Active)
    BY <1>0, <1>1 DEF Appears, Active, Visible, Committed
  <2> QED BY <2>1, <2>2 DEF DbStep
<1>3. IdsOK'
  <2>1. \A r \in rows : r.seq < nextSeq /\ r.seq \in Int /\ r.xmin < nextXid /\ r.xmin \in Int
    BY DEF IdsOK, TypeOK, RowsOf, Seqs, Xids
  <2>2. nextSeq \in Int /\ \A x \in running : x \in Int /\ x < nextXid
    BY DEF IdsOK, TypeOK, Xids
  <2> QED BY <1>0, <1>1, <2>1, <2>2 DEF IdsOK
<1>4. rows' \subseteq RowsOf
  BY <1>0, <1>1 DEF TypeOK
<1> QED BY <1>0, <1>1, <1>2, <1>3, <1>4 DEF TypeOK
------------------------------------------------------------------------------
(* Positions under a step.                                                 *)

Kept(e) ==
  /\ endpoint[e].floor <= endpoint'[e].floor
  /\ endpoint'[e].steady \subseteq endpoint[e].steady

EndpointRow ==
  [state : {"new", "enabled", "disabled", "gone"}, cursor : Keys, wants : SUBSET Kinds,
   since : 0 .. MaxXid + 1, floor : 0 .. MaxXid + 1, steady : SUBSET Kinds]

LEMMA NumbersTyped == Keys \subseteq Int \X Int /\ 0 .. MaxXid + 1 \subseteq Int
BY BoundAssumption DEF Keys

LEMMA Typed ==
  TypeOK =>
    /\ endpoint \in [Endpoints -> EndpointRow]
    /\ \A e \in Endpoints : endpoint[e].cursor \in Int \X Int /\ endpoint[e].floor \in Int
    /\ \A e \in Endpoints : tick.seen[e] \in Int \X Int /\ tick.last[e] \in Int \X Int
    /\ \A e \in Endpoints : handed[e] \subseteq Int \X Int
    /\ admin.horizon \in Int /\ tick.horizon \in Int
BY NumbersTyped DEF TypeOK, EndpointRow

LEMMA TypedNext ==
  TypeOK' =>
    /\ endpoint' \in [Endpoints -> EndpointRow]
    /\ \A e \in Endpoints : endpoint'[e].floor \in Int
    /\ \A e \in Endpoints : handed'[e] \subseteq Int \X Int
    /\ admin'.horizon \in Int /\ tick'.horizon \in Int
BY NumbersTyped DEF TypeOK, EndpointRow

LEMMA StaysReached ==
  ASSUME TypeOK, TypeOK', DbStep, NEW e \in Endpoints, Kept(e),
         NEW c \in Int \X Int,
         NEW given, NEW given2, given \subseteq given2,
         NEW queue, NEW queue2, queue \subseteq queue2,
         Reached(e, c, given, queue)
  PROVE  /\ Behind(c, Active')
         /\ Covered(e, c, Visible', endpoint'[e].floor, endpoint'[e].steady, given2, queue2)
<1>1. Active \in SUBSET Int /\ Visible \in SUBSET RowsOf
  BY ActiveTyped
<1>2. Active' \in SUBSET Int /\ Visible' \in SUBSET RowsOf
  BY ActiveTypedNext
<1>3. endpoint[e].floor \in Int /\ endpoint'[e].floor \in Int
  BY Typed, TypedNext
<1>4. Behind(c, Active) /\ Covered(e, c, Visible, endpoint[e].floor, endpoint[e].steady, given, queue)
  BY DEF Reached
<1>5. Younger(Active, Active') /\ Appears(Visible, Visible', Active)
  BY DEF DbStep
<1>6. Behind(c, Active')
  BY <1>1, <1>2, <1>4, <1>5, StaysBehind
<1>7. Covered(e, c, Visible', endpoint'[e].floor, endpoint'[e].steady, given2, queue2)
  BY <1>1, <1>2, <1>3, <1>4, <1>5, StaysCovered DEF Kept
<1> QED BY <1>6, <1>7

(* What a step may do to the horizons that have been read.                 *)
HorizonStep ==
  /\ admin'.open => (admin' = admin \/ AtMost(admin'.horizon, Active))
  /\ tick'.pc # "idle" =>
       \/ tick.pc # "idle" /\ tick'.horizon = tick.horizon
       \/ AtMost(tick'.horizon, Active)
  /\ \A e \in Endpoints :
       \/ endpoint'[e].floor = endpoint[e].floor
       \/ AtMost(endpoint'[e].floor, Active)
  /\ \A e \in Endpoints : \A k \in handed'[e] : k \in handed[e] \/ AtMost(k[1] + 1, Active)

LEMMA HorizonsStay ==
  ASSUME TypeOK, TypeOK', DbStep, HorizonsOK, HorizonStep
  PROVE  HorizonsOK'
<1>1. Active \in SUBSET Int /\ Active' \in SUBSET Int /\ Younger(Active, Active')
  BY ActiveTyped, ActiveTypedNext DEF DbStep
<1>2. \A h \in Int : AtMost(h, Active) => AtMost(h, Active')
  BY <1>1, StaysAtMost
<1>3. admin'.open => AtMost(admin'.horizon, Active')
  <2>1. admin'.horizon \in Int
    BY TypedNext
  <2> QED BY <1>2, <2>1 DEF HorizonStep, HorizonsOK
<1>4. tick'.pc # "idle" => AtMost(tick'.horizon, Active')
  <2>1. tick'.horizon \in Int
    BY TypedNext
  <2> QED BY <1>2, <2>1 DEF HorizonStep, HorizonsOK
<1>5. ASSUME NEW e \in Endpoints PROVE AtMost(endpoint'[e].floor, Active')
  <2>1. endpoint'[e].floor \in Int
    BY TypedNext
  <2> QED BY <1>2, <2>1 DEF HorizonStep, HorizonsOK
<1>6. ASSUME NEW e \in Endpoints, NEW k \in handed'[e] PROVE AtMost(k[1] + 1, Active')
  <2>1. k[1] + 1 \in Int
    BY TypedNext
  <2>2. AtMost(k[1] + 1, Active)
    BY DEF HorizonStep, HorizonsOK
  <2> QED BY <1>2, <2>1, <2>2
<1> QED BY <1>3, <1>4, <1>5, <1>6 DEF HorizonsOK

------------------------------------------------------------------------------
(* Steps of everyone but the tick: they leave the tick and the history of  *)
(* deliveries alone, and act on at most one endpoint, which is not locked. *)

SameRow(e) == endpoint'[e] = endpoint[e] /\ handed'[e] = handed[e]

Acted(e) ==
  /\ ~Locked(e)
  /\ handed'[e] \subseteq handed[e]
  /\ endpoint'[e].floor = endpoint[e].floor \/ AtMost(endpoint'[e].floor, Active)
  /\ endpoint'[e].state # "new"
  /\ endpoint'[e].steady \subseteq endpoint'[e].wants
  /\ ~Live(e)' => handed'[e] = {}
  /\ Live(e)' => Reached(e, endpoint[e].cursor, handed[e], queued)'
  /\ (Live(e)' /\ e \in tick.todo) => (Live(e) /\ Kept(e) /\ handed'[e] = handed[e])

Outside ==
  /\ UNCHANGED <<tick, queued>>
  /\ pending' \cup settled' \subseteq pending \cup settled
  /\ admin'.open => (admin' = admin \/ AtMost(admin'.horizon, Active))
  /\ \A e \in Endpoints : SameRow(e) \/ Acted(e)

LEMMA OutsideStep ==
  ASSUME IInv, TypeOK', IdsOK', DbStep, Outside
  PROVE  IInv'
<1>0. TypeOK /\ HorizonsOK /\ CursorsOK /\ TodoOK /\ WindowsOK
  BY DEF IInv
<1>1. HorizonsOK'
  <2>1. HorizonStep
    BY <1>0 DEF Outside, HorizonStep, SameRow, Acted, HorizonsOK
  <2> QED BY <1>0, <2>1, HorizonsStay
<1>2. ASSUME NEW e \in Endpoints, SameRow(e)
      PROVE  Kept(e) /\ (Live(e)' <=> Live(e))
  BY <1>0, <1>2, Typed DEF SameRow, Kept, Live
<1>3. CursorsOK'
  <2>1. ASSUME NEW e \in Endpoints, Live(e)'
        PROVE  Reached(e, endpoint[e].cursor, handed[e], queued)'
    <3>1. CASE SameRow(e)
      <4>1. Kept(e) /\ Live(e)
        BY <1>2, <2>1, <3>1
      <4>2. Reached(e, endpoint[e].cursor, handed[e], queued)
        BY <1>0, <4>1 DEF CursorsOK
      <4>3. endpoint[e].cursor \in Int \X Int
        BY <1>0, Typed
      <4>4. /\ Behind(endpoint[e].cursor, Active')
            /\ Covered(e, endpoint[e].cursor, Visible', endpoint'[e].floor, endpoint'[e].steady,
                       handed[e], queued)
        BY <1>0, <4>1, <4>2, <4>3, StaysReached
      <4> QED BY <3>1, <4>4 DEF Reached, SameRow, Outside
    <3> QED BY <2>1, <3>1 DEF Outside, Acted
  <2>2. ASSUME NEW e \in Endpoints PROVE endpoint'[e].steady \subseteq endpoint'[e].wants
    BY <1>0 DEF CursorsOK, Outside, SameRow, Acted
  <2>3. pending' \cup settled' \subseteq queued'
    BY <1>0 DEF CursorsOK, Outside
  <2>4. ASSUME NEW e \in Endpoints, ~Live(e)' PROVE handed'[e] = {}
    BY <1>0, <1>2, <2>4 DEF CursorsOK, Outside, SameRow, Acted
  <2> QED BY <2>1, <2>2, <2>3, <2>4 DEF CursorsOK
<1>4. TodoOK'
  <2>0. tick' = tick /\ queued' = queued /\ tick.todo \subseteq Endpoints
    BY <1>0 DEF Outside, TypeOK
  <2>1. ASSUME NEW e \in tick.todo
        PROVE  /\ endpoint'[e].state # "new"
               /\ Live(e)' => Live(e) /\ Kept(e) /\ handed'[e] = handed[e]
    BY <1>0, <1>2, <2>0 DEF Outside, Acted, SameRow, TodoOK
  <2>2. ASSUME NEW e \in tick.todo, Live(e)'
        PROVE  /\ Reached(e, tick.seen[e], handed[e], queued)'
               /\ tick.pc = "scan" => endpoint'[e].steady \subseteq tick.wants[e]
    <3>1. Live(e) /\ Kept(e) /\ handed'[e] = handed[e] /\ e \in Endpoints
      BY <2>0, <2>1, <2>2
    <3>2. /\ Reached(e, tick.seen[e], handed[e], queued)
          /\ tick.pc = "scan" => endpoint[e].steady \subseteq tick.wants[e]
      BY <1>0, <3>1 DEF TodoOK
    <3>3. tick.seen[e] \in Int \X Int
      BY <1>0, <3>1, Typed
    <3>4. /\ Behind(tick.seen[e], Active')
          /\ Covered(e, tick.seen[e], Visible', endpoint'[e].floor, endpoint'[e].steady,
                     handed[e], queued)
      BY <1>0, <3>1, <3>2, <3>3, StaysReached
    <3>5. Reached(e, tick.seen[e], handed[e], queued)'
      BY <2>0, <3>1, <3>4 DEF Reached
    <3> QED BY <3>1, <3>2, <3>5 DEF Kept
  <2> QED BY <1>0, <2>0, <2>1, <2>2 DEF TodoOK
<1>5. WindowsOK'
  <2>0. tick' = tick /\ queued' = queued
    BY DEF Outside
  <2>1. ASSUME NEW e \in Endpoints, tick.window[e] # {}
        PROVE  Live(e)' /\ Reached(e, tick.last[e], handed[e] \cup KeysOf(tick.window[e]),
                                   queued \cup tick.fresh)'
    <3>1. SameRow(e)
      BY <2>1 DEF Outside, Acted, Locked
    <3>2. Kept(e) /\ Live(e) /\ Live(e)'
      BY <1>0, <1>2, <2>1, <3>1 DEF WindowsOK
    <3>3. Reached(e, tick.last[e], handed[e] \cup KeysOf(tick.window[e]), queued \cup tick.fresh)
      BY <1>0, <2>1 DEF WindowsOK
    <3>4. tick.last[e] \in Int \X Int
      BY <1>0, Typed
    <3>5. /\ Behind(tick.last[e], Active')
          /\ Covered(e, tick.last[e], Visible', endpoint'[e].floor, endpoint'[e].steady,
                     handed[e] \cup KeysOf(tick.window[e]), queued \cup tick.fresh)
      BY <1>0, <3>2, <3>3, <3>4, StaysReached
    <3>6. KeysOf(tick.window[e])' = KeysOf(tick.window[e])
      BY <2>0 DEF KeysOf, Key
    <3> QED BY <2>0, <3>1, <3>2, <3>5, <3>6 DEF Reached, SameRow
  <2>2. tick.fresh \cap (pending' \cup settled') = {}
    BY <1>0 DEF WindowsOK, Outside
  <2> QED BY <1>0, <2>0, <2>1, <2>2 DEF WindowsOK
<1> QED BY <1>1, <1>3, <1>4, <1>5 DEF IInv
------------------------------------------------------------------------------
(* Writers and jobs: every endpoint's row stays as it is.                  *)

LEMMA WritersStep == IInv /\ Writers => IInv'
<1> SUFFICES ASSUME IInv, Writers PROVE IInv'
  OBVIOUS
<1>0. TypeOK /\ IdsOK
  BY DEF IInv
<1>1. DbStep /\ IdsOK' /\ TypeOK'
  BY <1>0, BeginDb, RecordDb, RewriteDb, CommitDb, AbortDb DEF Writers
<1>2. UNCHANGED <<endpoint, admin, deliveries, tick, handed>>
  BY DEF Writers, Begin, Record, Rewrite, Commit, Abort
<1>3. Outside
  BY <1>2 DEF Outside, SameRow, deliveries
<1> QED BY <1>1, <1>3, OutsideStep

LEMMA JobsStep == IInv /\ Jobs => IInv'
<1> SUFFICES ASSUME IInv, Jobs PROVE IInv'
  OBVIOUS
<1>0. TypeOK /\ IdsOK
  BY DEF IInv
<1>1. UNCHANGED <<db, endpoint, admin, queued, tick, fails, handed>>
  BY DEF Jobs, Settle, LateFailure, SweepDeliveries
<1>2. DbStep /\ IdsOK'
  BY <1>0, <1>1, NoDbStep DEF db, IdsOK
<1>3. pending' \cup settled' \subseteq pending \cup settled
  BY DEF Jobs, Settle, LateFailure, SweepDeliveries
<1>4. TypeOK'
  <2>1. CASE \E d \in pending : Settle(d)
    BY <1>0, <1>1, <2>1 DEF Settle, TypeOK, db
  <2>2. CASE \E old \in SUBSET settled : SweepDeliveries(old)
    BY <1>0, <1>1, <2>2 DEF SweepDeliveries, TypeOK, db
  <2>3. CASE \E d \in settled : LateFailure(d)
    BY <1>0, <1>1, <2>3 DEF LateFailure, TypeOK, db
  <2> QED BY <2>1, <2>2, <2>3 DEF Jobs
<1>5. Outside
  BY <1>1, <1>3 DEF Outside, SameRow
<1> QED BY <1>2, <1>4, <1>5, OutsideStep

------------------------------------------------------------------------------
(* Admins.                                                                 *)

LEMMA HorizonIsAtMost ==
  ASSUME NEW h, IsHorizon(h, running, nextXid)
  PROVE  h \in Active /\ AtMost(h, Active)
BY DEF IsHorizon, Active, AtMost

LEMMA HorizonStepOfAdmin == ASSUME IInv, AdminReadsHorizon \/ AdminGivesUp PROVE IInv'
<1>0. TypeOK /\ IdsOK
  BY DEF IInv
<1>1. UNCHANGED <<db, endpoint, deliveries, tick, fails, handed>>
  BY DEF AdminReadsHorizon, AdminGivesUp
<1>2. DbStep /\ IdsOK'
  BY <1>0, <1>1, NoDbStep DEF db, IdsOK
<1>3. admin' \in [open : BOOLEAN, horizon : 0 .. MaxXid + 1] /\ (admin'.open => AtMost(admin'.horizon, Active))
  <2>1. CASE AdminReadsHorizon
    <3>1. PICK h \in running \cup {nextXid} :
            IsHorizon(h, running, nextXid) /\ admin' = [open |-> TRUE, horizon |-> h]
      BY <2>1 DEF AdminReadsHorizon
    <3>2. h \in 0 .. MaxXid + 1 /\ AtMost(h, Active)
      BY <1>0, <3>1, HorizonIsAtMost, BoundAssumption DEF TypeOK, Xids
    <3> QED BY <3>1, <3>2
  <2>2. CASE AdminGivesUp
    BY <2>2, BoundAssumption DEF AdminGivesUp, NoAdmin
  <2> QED BY <2>1, <2>2
<1>4. TypeOK'
  BY <1>0, <1>1, <1>3 DEF TypeOK, db, deliveries
<1>5. Outside
  BY <1>1, <1>3 DEF Outside, SameRow, deliveries
<1> QED BY <1>2, <1>4, <1>5, OutsideStep

(* The new cursor of an endpoint created or told to skip its backlog.      *)
LEMMA StartIsReached ==
  ASSUME IInv, TypeOK', DbStep, admin.open, NEW e \in Endpoints,
         endpoint'[e].cursor = <<admin.horizon, 0>>, admin.horizon <= endpoint'[e].floor
  PROVE  Reached(e, endpoint[e].cursor, handed[e], queued)'
<1>1. TypeOK /\ AtMost(admin.horizon, Active)
  BY DEF IInv, HorizonsOK
<1>2. Active \in SUBSET Int /\ Active' \in SUBSET Int /\ Visible' \in SUBSET RowsOf
  BY <1>1, ActiveTyped, ActiveTypedNext
<1>3. admin.horizon \in Int /\ endpoint'[e].floor \in Int
  BY <1>1, Typed, TypedNext
<1>4. AtMost(admin.horizon, Active')
  BY <1>1, <1>2, <1>3, StaysAtMost DEF DbStep
<1>5. Behind(<<admin.horizon, 0>>, Active')
  BY <1>2, <1>3, <1>4, StartIsBehind
<1>6. Covered(e, <<admin.horizon, 0>>, Visible', endpoint'[e].floor, endpoint'[e].steady, handed'[e], queued')
  BY <1>2, <1>3, StartIsCovered
<1> QED BY <1>5, <1>6 DEF Reached

(* A row whose cursor and floor stay has a cursor that is still reached.   *)
LEMMA CursorStays ==
  ASSUME IInv, TypeOK', DbStep, NEW e \in Endpoints, Live(e), Kept(e),
         endpoint'[e].cursor = endpoint[e].cursor, handed'[e] = handed[e], queued' = queued
  PROVE  Reached(e, endpoint[e].cursor, handed[e], queued)'
<1>1. TypeOK /\ Reached(e, endpoint[e].cursor, handed[e], queued)
  BY DEF IInv, CursorsOK
<1>2. endpoint[e].cursor \in Int \X Int
  BY <1>1, Typed
<1>3. /\ Behind(endpoint[e].cursor, Active')
      /\ Covered(e, endpoint[e].cursor, Visible', endpoint'[e].floor, endpoint'[e].steady,
                 handed[e], queued)
  BY <1>1, <1>2, StaysReached
<1> QED BY <1>3 DEF Reached

(* The type of what an operation on one endpoint leaves.                   *)
LEMMA ActedTyped ==
  ASSUME TypeOK, IdsOK, Recorded,
         endpoint' \in [Endpoints -> EndpointRow],
         admin' \in {admin, NoAdmin},
         pending' \subseteq pending, settled' \subseteq pending \cup settled, pending' \cap settled' = {},
         late' \subseteq late,
         handed' \in [Endpoints -> SUBSET Keys],
         UNCHANGED <<queued, sent, tick, fails>>
  PROVE  TypeOK' /\ DbStep /\ IdsOK'
<1>1. /\ DbStep /\ IdsOK'
      /\ nextXid' \in Xids /\ nextSeq' \in 1 .. MaxSeq + 1 /\ running' \subseteq Xids
      /\ rows' \subseteq RowsOf /\ rewrites' \subseteq Xids \X Seqs
  BY RecordedDb
<1>2. admin' \in [open : BOOLEAN, horizon : 0 .. MaxXid + 1]
  <2>1. 0 \in 0 .. MaxXid + 1
    BY BoundAssumption
  <2>2. NoAdmin \in [open : BOOLEAN, horizon : 0 .. MaxXid + 1]
    BY <2>1 DEF NoAdmin
  <2>3. admin \in [open : BOOLEAN, horizon : 0 .. MaxXid + 1]
    BY DEF TypeOK
  <2> QED BY <2>2, <2>3
<1> QED BY <1>1, <1>2 DEF TypeOK, EndpointRow

LEMMA CreateStep ==
  ASSUME IInv, NEW e \in Endpoints, NEW wants \in SUBSET Kinds, CreateEndpoint(e, wants)
  PROVE  IInv'
<1> DEFINE row == Start(admin.horizon, wants)
<1>0. TypeOK /\ IdsOK /\ HorizonsOK /\ TodoOK /\ WindowsOK /\ admin.open /\ endpoint[e].state = "new"
  BY DEF IInv, CreateEndpoint
<1>1. /\ row \in EndpointRow /\ row.cursor = <<admin.horizon, 0>> /\ row.floor = admin.horizon
      /\ row.state = "enabled" /\ row.steady = row.wants
  BY <1>0, BoundAssumption DEF TypeOK, Start, EndpointRow, Keys
<1> HIDE DEF row
<1>2. endpoint' = [endpoint EXCEPT ![e] = row]
  BY DEF CreateEndpoint, row
<1>3. /\ endpoint' \in [Endpoints -> EndpointRow] /\ endpoint'[e] = row
      /\ \A f \in Endpoints \ {e} : endpoint'[f] = endpoint[f]
  BY <1>0, <1>1, <1>2, Typed
<1>4. admin' = NoAdmin /\ Recorded /\ UNCHANGED <<pending, settled, late, queued, sent, tick, fails, handed>>
  BY DEF CreateEndpoint, deliveries
<1>5. TypeOK' /\ DbStep /\ IdsOK'
  BY <1>0, <1>3, <1>4, ActedTyped DEF TypeOK
<1>6. Reached(e, endpoint[e].cursor, handed[e], queued)'
  <2>1. admin.horizon \in Int
    BY <1>0, Typed
  <2> QED BY <1>0, <1>1, <1>3, <1>5, <2>1, StartIsReached
<1>7. ~Locked(e) /\ e \notin tick.todo
  BY <1>0 DEF Locked, WindowsOK, TodoOK, Live
<1>8. Acted(e)
  BY <1>0, <1>1, <1>3, <1>4, <1>6, <1>7 DEF Acted, HorizonsOK, Live
<1>9. Outside
  BY <1>3, <1>4, <1>8 DEF Outside, SameRow, NoAdmin
<1> QED BY <1>5, <1>9, OutsideStep

LEMMA UpdateStep ==
  ASSUME IInv, NEW e \in Endpoints, NEW wants \in SUBSET Kinds, UpdateEndpoint(e, wants)
  PROVE  IInv'
<1>0. TypeOK /\ IdsOK /\ Live(e) /\ ~Locked(e)
  BY DEF IInv, UpdateEndpoint
<1>1. endpoint[e] \in EndpointRow /\ endpoint \in [Endpoints -> EndpointRow]
  BY <1>0, Typed
<1>2. /\ endpoint' \in [Endpoints -> EndpointRow]
      /\ endpoint'[e].cursor = endpoint[e].cursor /\ endpoint'[e].floor = endpoint[e].floor
      /\ endpoint'[e].steady \subseteq endpoint[e].steady /\ endpoint'[e].state = endpoint[e].state
      /\ endpoint'[e].steady \subseteq endpoint'[e].wants
      /\ \A f \in Endpoints \ {e} : endpoint'[f] = endpoint[f]
  BY <1>1 DEF UpdateEndpoint, EndpointRow
<1>3. Recorded /\ UNCHANGED <<admin, pending, settled, late, queued, sent, tick, fails, handed>>
  BY DEF UpdateEndpoint, deliveries
<1>4. TypeOK' /\ DbStep /\ IdsOK'
  BY <1>0, <1>2, <1>3, ActedTyped DEF TypeOK
<1>5. Kept(e)
  BY <1>1, <1>2, <1>0, Typed DEF Kept
<1>6. Reached(e, endpoint[e].cursor, handed[e], queued)'
  BY <1>0, <1>2, <1>3, <1>4, <1>5, CursorStays
<1>7. Acted(e)
  BY <1>0, <1>2, <1>3, <1>5, <1>6 DEF Acted, Live
<1>8. Outside
  BY <1>2, <1>3, <1>7 DEF Outside, SameRow
<1> QED BY <1>4, <1>8, OutsideStep

LEMMA SetEnabledStep ==
  ASSUME IInv, NEW e \in Endpoints, NEW state \in {"enabled", "disabled"}, SetEnabled(e, state)
  PROVE  IInv'
<1>0. TypeOK /\ IdsOK /\ Live(e) /\ ~Locked(e)
  BY DEF IInv, SetEnabled
<1>1. endpoint[e] \in EndpointRow /\ endpoint \in [Endpoints -> EndpointRow]
  BY <1>0, Typed
<1>2. /\ endpoint' \in [Endpoints -> EndpointRow]
      /\ endpoint'[e].cursor = endpoint[e].cursor /\ endpoint'[e].floor = endpoint[e].floor
      /\ endpoint'[e].steady = endpoint[e].steady /\ endpoint'[e].state = state
      /\ endpoint'[e].wants = endpoint[e].wants
      /\ \A f \in Endpoints \ {e} : endpoint'[f] = endpoint[f]
  BY <1>1 DEF SetEnabled, EndpointRow
<1>3. Recorded /\ UNCHANGED <<admin, pending, settled, late, queued, sent, tick, fails, handed>>
  BY DEF SetEnabled, deliveries
<1>4. TypeOK' /\ DbStep /\ IdsOK'
  BY <1>0, <1>2, <1>3, ActedTyped DEF TypeOK
<1>5. Kept(e)
  BY <1>1, <1>2, <1>0, Typed DEF Kept
<1>6. Reached(e, endpoint[e].cursor, handed[e], queued)'
  BY <1>0, <1>2, <1>3, <1>4, <1>5, CursorStays
<1>7. Acted(e)
  BY <1>0, <1>2, <1>3, <1>5, <1>6 DEF Acted, IInv, CursorsOK, Live
<1>8. Outside
  BY <1>2, <1>3, <1>7 DEF Outside, SameRow
<1> QED BY <1>4, <1>8, OutsideStep

LEMMA DeleteStep == ASSUME IInv, NEW e \in Endpoints, DeleteEndpoint(e) PROVE IInv'
<1>0. TypeOK /\ IdsOK /\ Live(e) /\ ~Locked(e)
  BY DEF IInv, DeleteEndpoint
<1>1. endpoint[e] \in EndpointRow /\ endpoint \in [Endpoints -> EndpointRow]
  BY <1>0, Typed
<1>2. /\ endpoint' \in [Endpoints -> EndpointRow]
      /\ endpoint'[e].floor = endpoint[e].floor /\ endpoint'[e].state = "gone"
      /\ endpoint'[e].steady = endpoint[e].steady /\ endpoint'[e].wants = endpoint[e].wants
      /\ \A f \in Endpoints \ {e} : endpoint'[f] = endpoint[f]
  BY <1>1 DEF DeleteEndpoint, EndpointRow
<1>3. handed' \in [Endpoints -> SUBSET Keys] /\ handed'[e] = {} /\ \A f \in Endpoints \ {e} : handed'[f] = handed[f]
  BY <1>0 DEF DeleteEndpoint, TypeOK
<1>4. /\ Recorded /\ UNCHANGED <<admin, queued, sent, tick, fails>> /\ pending' \subseteq pending /\ settled' \subseteq settled
      /\ late' \subseteq late
  BY DEF DeleteEndpoint
<1>5. TypeOK' /\ DbStep /\ IdsOK'
  BY <1>0, <1>2, <1>3, <1>4, ActedTyped DEF TypeOK
<1>6. Acted(e)
  BY <1>0, <1>2, <1>3 DEF Acted, IInv, CursorsOK, Live
<1>7. Outside
  BY <1>2, <1>3, <1>4, <1>6 DEF Outside, SameRow
<1> QED BY <1>5, <1>7, OutsideStep

LEMMA SkipStep == ASSUME IInv, NEW e \in Endpoints, EnableAndSkip(e) PROVE IInv'
<1>0. TypeOK /\ IdsOK /\ HorizonsOK /\ Live(e) /\ ~Locked(e) /\ admin.open
  BY DEF IInv, EnableAndSkip
<1>1. endpoint[e] \in EndpointRow /\ endpoint \in [Endpoints -> EndpointRow]
  BY <1>0, Typed
<1>2. <<admin.horizon, 0>> \in Keys /\ admin.horizon \in 0 .. MaxXid + 1 /\ admin.horizon \in Int
  BY <1>0, BoundAssumption DEF TypeOK, Keys
<1>3. /\ endpoint' \in [Endpoints -> EndpointRow]
      /\ endpoint'[e].cursor = <<admin.horizon, 0>> /\ endpoint'[e].state = "enabled"
      /\ endpoint'[e].steady = endpoint[e].steady /\ endpoint'[e].wants = endpoint[e].wants
      /\ endpoint'[e].floor = IF admin.horizon > endpoint[e].floor THEN admin.horizon ELSE endpoint[e].floor
      /\ \A f \in Endpoints \ {e} : endpoint'[f] = endpoint[f]
  BY <1>1, <1>2 DEF EnableAndSkip, EndpointRow
<1>4. /\ Recorded /\ UNCHANGED <<late, queued, sent, tick, fails, handed>> /\ admin' = NoAdmin
      /\ pending' = {d \in pending : d[1] # e}
      /\ settled' = settled \cup {d \in pending : d[1] = e}
  BY DEF EnableAndSkip
<1>5. TypeOK' /\ DbStep /\ IdsOK'
  BY <1>0, <1>3, <1>4, ActedTyped DEF TypeOK
<1>6. /\ admin.horizon <= endpoint'[e].floor /\ endpoint[e].floor <= endpoint'[e].floor
      /\ endpoint'[e].floor = endpoint[e].floor \/ endpoint'[e].floor = admin.horizon
  BY <1>0, <1>2, <1>3, Typed
<1>7. Reached(e, endpoint[e].cursor, handed[e], queued)'
  BY <1>0, <1>3, <1>5, <1>6, StartIsReached
<1>8. Acted(e)
  BY <1>0, <1>3, <1>4, <1>6, <1>7 DEF Acted, IInv, CursorsOK, HorizonsOK, Live, Kept
<1>9. Outside
  BY <1>3, <1>4, <1>8 DEF Outside, SameRow, NoAdmin
<1> QED BY <1>5, <1>9, OutsideStep

LEMMA AdminsStep == IInv /\ Admins => IInv'
BY HorizonStepOfAdmin, CreateStep, UpdateStep, DeleteStep, SetEnabledStep, SkipStep DEF Admins
------------------------------------------------------------------------------
(* The tick.  It changes nothing of the log.                               *)

LEMMA TickDb ==
  ASSUME IInv, UNCHANGED db
  PROVE  Active' = Active /\ Visible' = Visible /\ IdsOK' /\ DbStep
<1>1. TypeOK /\ IdsOK
  BY DEF IInv
<1>2. Active' = Active /\ Visible' = Visible /\ IdsOK'
  BY <1>1 DEF db, Active, Visible, Committed, IdsOK
<1>3. DbStep
  BY <1>1, NoDbStep
<1> QED BY <1>2, <1>3

(* A tick that ends without effect, or has not looked at an endpoint yet.  *)
Blank(t) == t.todo = {} /\ t.window = Idle.window /\ t.fresh = {}

TickTypes ==
  [pc : {"idle", "begun", "read", "paced", "scan"}, horizon : 0 .. MaxXid + 1,
   todo : SUBSET Endpoints, seen : [Endpoints -> Keys],
   wants : [Endpoints -> SUBSET Kinds], window : [Endpoints -> SUBSET RowsOf],
   last : [Endpoints -> Keys], fresh : SUBSET (Endpoints \X Seqs)]

LEMMA IdleTyped == Idle \in TickTypes /\ Blank(Idle) /\ \A e \in Endpoints : Idle.window[e] = {}
<1>1. 0 \in 0 .. MaxXid + 1 /\ <<0, 0>> \in Keys
  BY BoundAssumption DEF Keys
<1> QED BY <1>1 DEF Idle, TickTypes, Blank

LEMMA BlankStep ==
  ASSUME IInv, UNCHANGED <<db, endpoint, admin, deliveries, handed>>, fails' \in 0 .. MaxFails,
         tick' \in TickTypes, Blank(tick'),
         tick'.pc # "idle" => AtMost(tick'.horizon, Active)
  PROVE  IInv'
<1>0. TypeOK /\ IdsOK /\ HorizonsOK /\ CursorsOK
  BY DEF IInv
<1>1. Active' = Active /\ Visible' = Visible /\ IdsOK' /\ DbStep
  BY TickDb
<1>2. TypeOK'
  BY <1>0 DEF TypeOK, TickTypes, db, deliveries
<1>3. HorizonStep
  BY <1>0 DEF HorizonStep, HorizonsOK
<1>4. HorizonsOK'
  BY <1>0, <1>1, <1>2, <1>3, HorizonsStay
<1>5. CursorsOK'
  BY <1>0, <1>1 DEF CursorsOK, Reached, Live, deliveries
<1>6. TodoOK'
  BY DEF TodoOK, Blank
<1>7. WindowsOK'
  BY IdleTyped DEF WindowsOK, Blank
<1> QED BY <1>1, <1>2, <1>4, <1>5, <1>6, <1>7 DEF IInv

LEMMA EndsStep == IInv /\ (TickFails \/ \E e \in Endpoints : TickOrphaned(e)) => IInv'
<1> SUFFICES ASSUME IInv, TickFails \/ \E e \in Endpoints : TickOrphaned(e) PROVE IInv'
  OBVIOUS
<1>1. tick' = Idle /\ UNCHANGED <<db, endpoint, admin, deliveries, handed>>
  BY DEF TickFails, TickOrphaned
<1>2. fails' \in 0 .. MaxFails
  BY BoundAssumption DEF TickFails, TickOrphaned, IInv, TypeOK
<1>3. tick'.pc = "idle"
  BY <1>1 DEF Idle
<1> QED BY <1>1, <1>2, <1>3, IdleTyped, BlankStep

LEMMA BeginStep == IInv /\ TickBegin => IInv'
<1> SUFFICES ASSUME IInv, TickBegin PROVE IInv'
  OBVIOUS
<1>0. TypeOK
  BY DEF IInv
<1>1. PICK h \in running \cup {nextXid} :
        IsHorizon(h, running, nextXid) /\ tick' = [Idle EXCEPT !.pc = "begun", !.horizon = h]
  BY DEF TickBegin
<1>2. h \in 0 .. MaxXid + 1 /\ AtMost(h, Active)
  BY <1>0, <1>1, HorizonIsAtMost, BoundAssumption DEF TypeOK, Xids
<1>3. tick' \in TickTypes /\ Blank(tick') /\ tick'.horizon = h
  BY <1>1, <1>2, IdleTyped DEF TickTypes, Blank
<1>4. UNCHANGED <<db, endpoint, admin, deliveries, fails, handed>> /\ fails' \in 0 .. MaxFails
  BY <1>0 DEF TickBegin, TypeOK
<1> QED BY <1>2, <1>3, <1>4, BlankStep

(* The three reads of a tick change nothing but the tick, and its positions *)
(* are reached when they are read.                                         *)
LEMMA ReadsStep ==
  ASSUME IInv, UNCHANGED <<db, endpoint, admin, deliveries, fails, handed>>,
         tick.pc \in {"begun", "read", "paced"}, tick' \in TickTypes,
         tick'.pc \in {"read", "paced", "scan"}, tick'.horizon = tick.horizon,
         tick'.window = tick.window, tick'.fresh = tick.fresh,
         \A e \in tick'.todo :
           /\ endpoint[e].state # "new"
           /\ Live(e) => /\ Reached(e, tick'.seen[e], handed[e], queued)
                         /\ tick'.pc = "scan" => endpoint[e].steady \subseteq tick'.wants[e]
  PROVE  IInv'
<1>0. TypeOK /\ HorizonsOK /\ CursorsOK /\ WindowsOK
  BY DEF IInv
<1>1. Active' = Active /\ Visible' = Visible /\ IdsOK' /\ DbStep
  BY TickDb
<1>2. TypeOK'
  BY <1>0 DEF TypeOK, TickTypes, db, deliveries
<1>3. HorizonsOK'
  <2>1. HorizonStep
    BY <1>0 DEF HorizonStep, HorizonsOK
  <2> QED BY <1>0, <1>1, <1>2, <2>1, HorizonsStay
<1>4. CursorsOK'
  BY <1>0, <1>1 DEF CursorsOK, Reached, Live, deliveries
<1>5. TodoOK'
  BY <1>1 DEF TodoOK, Reached, Live, deliveries
<1>6. WindowsOK'
  <2>1. tick.fresh = {} /\ \A e \in Endpoints : tick.window[e] = {}
    BY <1>0 DEF WindowsOK
  <2> QED BY <2>1 DEF WindowsOK
<1> QED BY <1>1, <1>2, <1>3, <1>4, <1>5, <1>6 DEF IInv

LEMMA ReadStep == IInv /\ TickRead => IInv'
<1> SUFFICES ASSUME IInv, TickRead PROVE IInv'
  OBVIOUS
<1>0. TypeOK /\ CursorsOK /\ tick.pc = "begun" /\ tick \in TickTypes
  BY DEF IInv, TypeOK, TickTypes, TickRead
<1> DEFINE todo == {e \in Endpoints : endpoint[e].state = "enabled"}
           seen == [e \in Endpoints |-> endpoint[e].cursor]
<1>1. seen \in [Endpoints -> Keys] /\ todo \in SUBSET Endpoints
  BY <1>0, Typed DEF EndpointRow
<1>2. /\ tick' \in TickTypes /\ tick'.pc = "read" /\ tick'.todo = todo /\ tick'.seen = seen
      /\ tick'.horizon = tick.horizon /\ tick'.window = tick.window /\ tick'.fresh = tick.fresh
  <2>1. tick' = [tick EXCEPT !.pc = "read", !.todo = todo, !.seen = seen]
    BY DEF TickRead
  <2> HIDE DEF todo, seen
  <2> QED BY <1>0, <1>1, <2>1 DEF TickTypes
<1>3. UNCHANGED <<db, endpoint, admin, deliveries, fails, handed>>
  BY DEF TickRead
<1>4. ASSUME NEW e \in todo
      PROVE  endpoint[e].state # "new" /\ Reached(e, seen[e], handed[e], queued)
  <2>1. Live(e) /\ seen[e] = endpoint[e].cursor
    BY DEF Live
  <2>2. Reached(e, endpoint[e].cursor, handed[e], queued)
    BY <1>0, <2>1 DEF CursorsOK
  <2> QED BY <2>1, <2>2 DEF Live
<1> HIDE DEF todo, seen
<1> QED BY <1>0, <1>2, <1>3, <1>4, ReadsStep

LEMMA DepthsStep == IInv /\ TickDepths => IInv'
<1> SUFFICES ASSUME IInv, TickDepths PROVE IInv'
  OBVIOUS
<1>0. TodoOK /\ tick.pc = "read" /\ tick \in TickTypes
  BY DEF IInv, TypeOK, TickTypes, TickDepths
<1>1. /\ tick' \in TickTypes /\ tick'.pc = "paced" /\ tick'.todo \subseteq tick.todo
      /\ tick'.seen = tick.seen /\ tick'.horizon = tick.horizon
      /\ tick'.window = tick.window /\ tick'.fresh = tick.fresh
  BY <1>0 DEF TickDepths, TickTypes
<1>2. UNCHANGED <<db, endpoint, admin, deliveries, fails, handed>>
  BY DEF TickDepths
<1> QED BY <1>0, <1>1, <1>2, ReadsStep DEF TodoOK

LEMMA PatternsStep == IInv /\ TickPatterns => IInv'
<1> SUFFICES ASSUME IInv, TickPatterns PROVE IInv'
  OBVIOUS
<1>0. TypeOK /\ CursorsOK /\ TodoOK /\ tick.pc = "paced" /\ tick \in TickTypes
  BY DEF IInv, TypeOK, TickTypes, TickPatterns
<1> DEFINE wants == [e \in Endpoints |-> IF Live(e) THEN endpoint[e].wants ELSE {}]
<1>1. wants \in [Endpoints -> SUBSET Kinds]
  BY <1>0, Typed DEF EndpointRow
<1>2. /\ tick' \in TickTypes /\ tick'.pc = "scan" /\ tick'.todo = tick.todo /\ tick'.wants = wants
      /\ tick'.seen = tick.seen /\ tick'.horizon = tick.horizon
      /\ tick'.window = tick.window /\ tick'.fresh = tick.fresh
  <2>1. tick' = [tick EXCEPT !.pc = "scan", !.wants = wants]
    BY DEF TickPatterns
  <2> HIDE DEF wants
  <2> QED BY <1>0, <1>1, <2>1 DEF TickTypes
<1>3. UNCHANGED <<db, endpoint, admin, deliveries, fails, handed>>
  BY DEF TickPatterns
<1>4. ASSUME NEW e \in tick.todo, Live(e) PROVE endpoint[e].steady \subseteq wants[e]
  <2>1. e \in Endpoints
    BY <1>0 DEF TypeOK
  <2>2. wants[e] = endpoint[e].wants
    BY <1>4, <2>1
  <2> QED BY <1>0, <2>1, <2>2 DEF CursorsOK
<1> HIDE DEF wants
<1> QED BY <1>0, <1>2, <1>3, <1>4, ReadsStep DEF TodoOK

(* The window of a turn: its last row is a position reached, once its rows *)
(* are handed over and its deliveries inserted.                            *)
LEMMA WindowIsReached ==
  ASSUME IInv, NEW e \in Endpoints, tick.pc = "scan", e \in tick.todo, Live(e),
         NEW W \in SUBSET Unread(tick.horizon, tick.seen[e]),
         IsWindow(W, Unread(tick.horizon, tick.seen[e])), NEW k, IsLast(k, W)
  PROVE  /\ k \in Keys
         /\ \A r \in W : r.xmin < tick.horizon
         /\ Reached(e, k, handed[e] \cup KeysOf(W), queued \cup tick.fresh \cup Inserted(e, W))
<1>0. /\ TypeOK /\ AtMost(tick.horizon, Active)
      /\ Reached(e, tick.seen[e], handed[e], queued) /\ endpoint[e].steady \subseteq tick.wants[e]
      /\ pending \cup settled \subseteq queued
  BY DEF IInv, HorizonsOK, TodoOK, CursorsOK
<1>1. /\ Active \subseteq Int /\ Visible \subseteq RowsOf /\ Visible \subseteq rows
      /\ tick.horizon \in Int /\ tick.seen[e] \in Int \X Int
  BY <1>0, ActiveTyped, Typed DEF Visible, Committed
<1>2. \A r \in RowsOf : r.xmin \in Int /\ r.seq \in Int /\ Key(r) \in Keys /\ Key(r) = <<r.xmin, r.seq>>
  BY BoundAssumption DEF RowsOf, Xids, Seqs, Key, Keys
<1>3. \A r \in W : r \in Visible /\ r.xmin < tick.horizon
  BY DEF Unread
<1>4. PICK q \in W : k = Key(q)
  BY DEF IsLast
<1>5. q \in RowsOf /\ k = <<q.xmin, q.seq>> /\ q.xmin \in Int /\ q.seq \in Int /\ q.xmin < tick.horizon
  BY <1>1, <1>2, <1>3, <1>4
<1>6. Behind(k, Active)
  <2> SUFFICES ASSUME NEW x \in Active PROVE Before(k, <<x, 1>>)
    BY DEF Behind
  <2>1. tick.horizon <= x /\ x \in Int
    BY <1>0, <1>1 DEF AtMost
  <2> QED BY <1>1, <1>5, <2>1 DEF Before
<1>7. ASSUME NEW r \in Visible, ~Before(k, Key(r)), endpoint[e].floor <= r.xmin
      PROVE  /\ Key(r) \in handed[e] \cup KeysOf(W)
             /\ r.kind \in endpoint[e].steady =>
                  <<e, r.seq>> \in queued \cup tick.fresh \cup Inserted(e, W)
  <2>1. CASE ~Before(tick.seen[e], Key(r))
    BY <1>0, <1>7, <2>1 DEF Reached, Covered
  <2>2. CASE Before(tick.seen[e], Key(r))
    <3>1. r \in RowsOf /\ r.xmin \in Int /\ r.seq \in Int /\ Key(r) = <<r.xmin, r.seq>>
      BY <1>1, <1>2
    <3>2. r.xmin < tick.horizon
      BY <1>1, <1>5, <1>7, <3>1 DEF Before
    <3>3. r \in Unread(tick.horizon, tick.seen[e])
      BY <2>2, <3>2 DEF Unread
    <3>4. r \in W
      <4>1. CASE Before(Key(r), Key(q))
        BY <3>3, <4>1 DEF IsWindow
      <4>2. CASE ~Before(Key(r), Key(q))
        <5>1. r.seq = q.seq
          BY <1>4, <1>5, <1>7, <3>1, <4>2 DEF Before
        <5>2. r = q
          BY <1>1, <1>3, <5>1 DEF IInv, IdsOK
        <5> QED BY <5>2
      <4> QED BY <4>1, <4>2
    <3>5. Key(r) \in KeysOf(W)
      BY <3>4 DEF KeysOf
    <3>6. ASSUME r.kind \in endpoint[e].steady
          PROVE  <<e, r.seq>> \in queued \cup Inserted(e, W)
      <4>1. r \in Matching(W, tick.wants[e])
        BY <1>0, <3>4, <3>6 DEF Matching
      <4> QED BY <1>0, <4>1 DEF Inserted
    <3> QED BY <3>5, <3>6
  <2> QED BY <2>1, <2>2
<1>8. Reached(e, k, handed[e] \cup KeysOf(W), queued \cup tick.fresh \cup Inserted(e, W))
  BY <1>6, <1>7 DEF Reached, Covered
<1> QED BY <1>2, <1>3, <1>5, <1>8

(* A turn of the loop changes nothing but the tick.                        *)
LEMMA TurnStep ==
  ASSUME IInv, UNCHANGED <<db, endpoint, admin, deliveries, fails, handed>>,
         tick' \in TickTypes, tick.pc = "scan", tick'.pc = "scan", tick'.horizon = tick.horizon,
         tick'.todo \subseteq tick.todo, tick'.seen = tick.seen, tick'.wants = tick.wants,
         tick'.fresh \cap (pending \cup settled) = {},
         \A e \in Endpoints : tick'.window[e] # {} =>
           /\ Live(e) /\ e \notin tick'.todo
           /\ \A r \in tick'.window[e] : r.xmin < tick.horizon
           /\ Reached(e, tick'.last[e], handed[e] \cup KeysOf(tick'.window[e]), queued \cup tick'.fresh)
  PROVE  IInv'
<1>0. TypeOK /\ HorizonsOK /\ CursorsOK /\ TodoOK
  BY DEF IInv
<1>1. Active' = Active /\ Visible' = Visible /\ IdsOK' /\ DbStep
  BY TickDb
<1>2. TypeOK'
  BY <1>0 DEF TypeOK, TickTypes, db, deliveries
<1>3. HorizonsOK'
  <2>1. HorizonStep
    BY <1>0 DEF HorizonStep, HorizonsOK
  <2> QED BY <1>0, <1>1, <1>2, <2>1, HorizonsStay
<1>4. CursorsOK'
  BY <1>0, <1>1 DEF CursorsOK, Reached, Live, deliveries
<1>5. TodoOK'
  BY <1>0, <1>1 DEF TodoOK, Reached, Live, deliveries
<1>6. WindowsOK'
  BY <1>1 DEF WindowsOK, Reached, Live, deliveries
<1> QED BY <1>1, <1>2, <1>3, <1>4, <1>5, <1>6 DEF IInv

LEMMA SkipsStep == ASSUME IInv, NEW e \in Endpoints, TickSkips(e) PROVE IInv'
<1>0. TypeOK /\ WindowsOK /\ tick.pc = "scan" /\ tick \in TickTypes
  BY DEF IInv, TypeOK, TickSkips, TickTypes
<1>1. tick' = [tick EXCEPT !.todo = @ \ {e}] /\ UNCHANGED <<db, endpoint, admin, deliveries, fails, handed>>
  BY DEF TickSkips
<1>2. /\ tick' \in TickTypes /\ tick'.pc = "scan" /\ tick'.horizon = tick.horizon
      /\ tick'.todo = tick.todo \ {e} /\ tick'.seen = tick.seen /\ tick'.wants = tick.wants
      /\ tick'.window = tick.window /\ tick'.last = tick.last /\ tick'.fresh = tick.fresh
  BY <1>0, <1>1 DEF TickTypes
<1> QED BY <1>0, <1>1, <1>2, TurnStep DEF WindowsOK

LEMMA ScanStep == ASSUME IInv, NEW e \in Endpoints, TickScan(e) PROVE IInv'
<1>0. /\ TypeOK /\ WindowsOK /\ tick.pc = "scan" /\ tick \in TickTypes /\ e \in tick.todo /\ Live(e)
      /\ UNCHANGED <<db, endpoint, admin, deliveries, fails, handed>>
  BY DEF IInv, TypeOK, TickScan, TickTypes
<1>1. PICK W \in SUBSET Unread(tick.horizon, tick.seen[e]) :
        /\ IsWindow(W, Unread(tick.horizon, tick.seen[e]))
        /\ \E k \in {Key(r) : r \in W} :
             /\ IsLast(k, W)
             /\ tick' = [tick EXCEPT !.todo = @ \ {e}, !.window[e] = W, !.last[e] = k,
                                     !.fresh = @ \cup Inserted(e, W)]
  BY DEF TickScan
<1>2. PICK k \in {Key(r) : r \in W} :
        /\ IsLast(k, W)
        /\ tick' = [tick EXCEPT !.todo = @ \ {e}, !.window[e] = W, !.last[e] = k,
                                !.fresh = @ \cup Inserted(e, W)]
  BY <1>1
<1>3. /\ k \in Keys /\ \A r \in W : r.xmin < tick.horizon
      /\ Reached(e, k, handed[e] \cup KeysOf(W), queued \cup tick.fresh \cup Inserted(e, W))
  BY <1>0, <1>1, <1>2, WindowIsReached
<1> DEFINE new == Inserted(e, W)
<1>4. W \subseteq RowsOf
  BY <1>0, ActiveTyped DEF Unread
<1>5. new \subseteq Endpoints \X Seqs /\ new \cap (pending \cup settled) = {}
  BY <1>4 DEF Inserted, Matching, RowsOf
<1> HIDE DEF new
<1>6. /\ tick' \in TickTypes /\ tick'.pc = "scan" /\ tick'.horizon = tick.horizon
      /\ tick'.todo = tick.todo \ {e} /\ tick'.seen = tick.seen /\ tick'.wants = tick.wants
      /\ tick'.window[e] = W /\ tick'.last[e] = k /\ tick'.fresh = tick.fresh \cup new
      /\ \A f \in Endpoints \ {e} : tick'.window[f] = tick.window[f] /\ tick'.last[f] = tick.last[f]
  <2>1. tick' = [tick EXCEPT !.todo = @ \ {e}, !.window[e] = W, !.last[e] = k, !.fresh = @ \cup new]
    BY <1>2 DEF new
  <2> QED BY <1>0, <1>3, <1>4, <1>5, <2>1 DEF TickTypes
<1>7. ASSUME NEW f \in Endpoints, tick'.window[f] # {}
      PROVE  /\ Live(f) /\ f \notin tick'.todo
             /\ \A r \in tick'.window[f] : r.xmin < tick.horizon
             /\ Reached(f, tick'.last[f], handed[f] \cup KeysOf(tick'.window[f]), queued \cup tick'.fresh)
  <2>1. CASE f = e
    <3>1. queued \cup tick'.fresh = queued \cup tick.fresh \cup Inserted(e, W)
      BY <1>6 DEF new
    <3> QED BY <1>0, <1>3, <1>6, <2>1, <3>1
  <2>2. CASE f # e
    <3>1. tick'.window[f] = tick.window[f] /\ tick'.last[f] = tick.last[f] /\ tick.window[f] # {}
      BY <1>6, <1>7, <2>2
    <3>2. /\ Live(f) /\ f \notin tick.todo /\ \A r \in tick.window[f] : r.xmin < tick.horizon
          /\ Reached(f, tick.last[f], handed[f] \cup KeysOf(tick.window[f]), queued \cup tick.fresh)
      BY <1>0, <3>1 DEF WindowsOK
    <3>3. queued \cup tick.fresh \subseteq queued \cup tick'.fresh
      BY <1>6
    <3>4. Reached(f, tick.last[f], handed[f] \cup KeysOf(tick.window[f]), queued \cup tick'.fresh)
      BY <3>2, <3>3 DEF Reached, Covered
    <3> QED BY <1>6, <3>1, <3>2, <3>4
  <2> QED BY <2>1, <2>2
<1>8. tick'.fresh \cap (pending \cup settled) = {}
  BY <1>0, <1>5, <1>6 DEF WindowsOK
<1> QED BY <1>0, <1>6, <1>7, <1>8, TurnStep

(* The commit stores positions that are reached, with what they hand over. *)
LEMMA CommitStep == ASSUME IInv, TickCommit PROVE IInv'
<1>0. /\ TypeOK /\ HorizonsOK /\ CursorsOK /\ WindowsOK /\ tick.pc = "scan"
      /\ UNCHANGED <<db, admin, settled, late, sent, fails>> /\ tick' = Idle
      /\ pending' = pending \cup tick.fresh /\ queued' = queued \cup tick.fresh
  BY DEF IInv, TickCommit
<1>1. Active' = Active /\ Visible' = Visible /\ IdsOK' /\ DbStep
  BY <1>0, TickDb
<1>2. tick \in TickTypes /\ tick' \in TickTypes /\ Blank(tick') /\ tick'.pc = "idle" /\ \A e \in Endpoints : tick'.window[e] = {}
  BY <1>0, IdleTyped DEF TypeOK, TickTypes, Idle
<1>3. /\ endpoint' \in [Endpoints -> EndpointRow]
      /\ \A e \in Endpoints :
           /\ endpoint'[e].cursor = Moved(e) /\ endpoint'[e].state = endpoint[e].state
           /\ endpoint'[e].floor = endpoint[e].floor /\ endpoint'[e].steady = endpoint[e].steady
           /\ endpoint'[e].wants = endpoint[e].wants
  <2>1. endpoint' = [e \in Endpoints |-> [endpoint[e] EXCEPT !.cursor = Moved(e)]]
    BY DEF TickCommit
  <2>2. \A e \in Endpoints : endpoint[e] \in EndpointRow /\ Moved(e) \in Keys
    BY <1>0, <1>2, Typed DEF Moved, EndpointRow, TickTypes
  <2> QED BY <2>1, <2>2 DEF EndpointRow
<1>4. \A e \in Endpoints : handed'[e] = handed[e] \cup KeysOf(tick.window[e])
  BY DEF TickCommit, KeysOf
<1>5. ASSUME NEW e \in Endpoints, NEW k \in KeysOf(tick.window[e])
      PROVE  k \in Keys /\ AtMost(k[1] + 1, Active)
  <2>1. PICK r \in tick.window[e] : k = Key(r)
    BY <1>5 DEF KeysOf
  <2>2. r \in RowsOf /\ r.xmin < tick.horizon /\ AtMost(tick.horizon, Active)
    BY <1>0, <1>2, <2>1 DEF TickTypes, WindowsOK, HorizonsOK
  <2>3. r.xmin \in Int /\ k[1] = r.xmin /\ k \in Keys
    BY <2>1, <2>2, BoundAssumption DEF RowsOf, Xids, Seqs, Key, Keys
  <2>4. Active \subseteq Int /\ tick.horizon \in Int
    BY <1>0, ActiveTyped, Typed
  <2> QED BY <2>2, <2>3, <2>4 DEF AtMost
<1>6. TypeOK'
  <2>1. handed' \in [Endpoints -> SUBSET Keys]
    <3>1. \A e \in Endpoints : handed[e] \subseteq Keys
      BY <1>0 DEF TypeOK
    <3>2. handed' = [e \in Endpoints |-> handed[e] \cup KeysOf(tick.window[e])]
      BY DEF TickCommit, KeysOf
    <3> QED BY <1>5, <3>1, <3>2
  <2>2. tick.fresh \subseteq Endpoints \X Seqs /\ tick.fresh \cap settled = {}
    BY <1>0, <1>2 DEF TickTypes, WindowsOK
  <2> QED BY <1>0, <1>2, <1>3, <2>1, <2>2 DEF TypeOK, EndpointRow, TickTypes, db
<1>7. HorizonsOK'
  <2>1. HorizonStep
    BY <1>0, <1>2, <1>3, <1>4, <1>5 DEF HorizonStep
  <2> QED BY <1>0, <1>1, <1>6, <2>1, HorizonsStay
<1>8. ASSUME NEW e \in Endpoints, Live(e)
      PROVE  Reached(e, Moved(e), handed'[e], queued')
  <2>1. CASE tick.window[e] = {}
    <3>1. Reached(e, endpoint[e].cursor, handed[e], queued)
      BY <1>0, <1>8 DEF CursorsOK
    <3>2. handed[e] \subseteq handed'[e] /\ queued \subseteq queued'
      BY <1>0, <1>4
    <3> QED BY <2>1, <3>1, <3>2 DEF Moved, Reached, Covered
  <2>2. CASE tick.window[e] # {}
    BY <1>0, <1>4, <2>2 DEF Moved, WindowsOK
  <2> QED BY <2>1, <2>2
<1>9. CursorsOK'
  <2>1. \A e \in Endpoints : ~Live(e) => handed'[e] = {}
    <3>1. \A e \in Endpoints : ~Live(e) => handed[e] = {} /\ tick.window[e] = {}
      BY <1>0 DEF CursorsOK, WindowsOK
    <3> QED BY <1>4, <3>1 DEF KeysOf
  <2> QED BY <1>0, <1>1, <1>3, <1>8, <2>1 DEF CursorsOK, Reached, Live
<1>10. TodoOK' /\ WindowsOK'
  BY <1>2 DEF TodoOK, WindowsOK, Blank
<1> QED BY <1>1, <1>6, <1>7, <1>9, <1>10 DEF IInv

LEMMA TicksStep == IInv /\ Ticks => IInv'
BY BeginStep, ReadStep, DepthsStep, PatternsStep, ScanStep, SkipsStep, CommitStep, EndsStep DEF Ticks
------------------------------------------------------------------------------
(* The invariant and what follows from it.                                 *)

LEMMA InvariantStarts == Init => IInv
<1> SUFFICES ASSUME Init PROVE IInv
  OBVIOUS
<1>1. 0 \in 0 .. MaxXid + 1 /\ <<0, 0>> \in Keys /\ 1 \in Xids /\ 1 \in 1 .. MaxSeq + 1 /\ 0 \in 0 .. MaxFails
  BY BoundAssumption DEF Keys, Xids
<1>2. Idle \in TickTypes /\ Blank(Idle) /\ Idle.pc = "idle" /\ \A e \in Endpoints : Idle.window[e] = {}
  BY IdleTyped DEF Idle
<1>3. TypeOK
  BY <1>1, <1>2 DEF Init, TypeOK, NoAdmin, TickTypes
<1>4. Active = {1}
  BY DEF Init, Active
<1> QED BY <1>2, <1>3, <1>4 DEF Init, IInv, IdsOK, HorizonsOK, CursorsOK, TodoOK, WindowsOK, Live, Blank, AtMost, NoAdmin

LEMMA InvariantStays == IInv /\ [Next]_vars => IInv'
<1> SUFFICES ASSUME IInv, [Next]_vars PROVE IInv'
  OBVIOUS
<1>1. CASE UNCHANGED vars
  <2>1. UNCHANGED <<db, endpoint, admin, deliveries, tick, fails, handed>>
    BY <1>1 DEF vars
  <2>2. Active' = Active /\ Visible' = Visible /\ IdsOK'
    BY <2>1, TickDb
  <2>3. TypeOK'
    BY <2>1 DEF IInv, TypeOK, db, deliveries
  <2> QED BY <2>1, <2>2, <2>3 DEF IInv, HorizonsOK, CursorsOK, TodoOK, WindowsOK, Reached, Live, deliveries
<1> QED BY <1>1, WritersStep, AdminsStep, TicksStep, JobsStep DEF Next

(* A position once reached stays reached: the invariant holds for ever.    *)
THEOREM FanoutInvariant == Spec => []IInv
BY InvariantStarts, InvariantStays, PTL DEF Spec

(* Every state has the types declared.                                     *)
THEOREM FanoutTypes == Spec => []TypeOK
<1>1. IInv => TypeOK
  BY DEF IInv
<1> QED BY <1>1, FanoutInvariant, PTL

(* The cursor never stands at or past an event that is not final.          *)
THEOREM CursorStaysBehind == Spec => []CursorBehindHorizon
<1>1. IInv => CursorBehindHorizon
  BY DEF IInv, CursorsOK, Reached, Behind, Active, CursorBehindHorizon
<1> QED BY <1>1, FanoutInvariant, PTL

(* An event wanted throughout that the cursor has passed has been queued.  *)
THEOREM FanoutLosesNothing == Spec => []NothingLost
<1>1. IInv => NothingLost
  <2> SUFFICES ASSUME IInv, NEW e \in Endpoints, Live(e), NEW r \in Visible,
                      ~Before(endpoint[e].cursor, Key(r)),
                      r.xmin >= endpoint[e].floor, r.kind \in endpoint[e].steady
               PROVE  <<e, r.seq>> \in queued
    BY DEF NothingLost
  <2>1. endpoint[e].floor \in Int /\ r.xmin \in Int
    BY Typed, ActiveTyped DEF IInv, RowsOf, Xids
  <2>2. endpoint[e].floor <= r.xmin
    BY <2>1
  <2> QED BY <2>2 DEF IInv, CursorsOK, Reached, Covered
<1> QED BY <1>1, FanoutInvariant, PTL
------------------------------------------------------------------------------
(* The fan-out implements EventFeed.                                       *)

(* What a feed is owed and excused, as sets of keys.                       *)
LEMMA Shares ==
  ASSUME TypeOK, NEW e \in Endpoints
  PROVE  /\ Owed[e] = IF Live(e) THEN {k \in Log : Before(endpoint[e].cursor, k)} ELSE {}
         /\ Excused[e] = IF Live(e) THEN {k \in Log : k[1] < endpoint[e].floor} ELSE {}
         /\ e \in Opened <=> Live(e)
         /\ \A k \in Log : k[1] \in Int /\ k[2] \in Int /\ 1 <= k[2]
<1>1. \A r \in Visible : Key(r)[1] = r.xmin /\ Key(r)[1] \in Int /\ Key(r)[2] \in Int /\ 1 <= Key(r)[2]
  BY ActiveTyped DEF RowsOf, Xids, Seqs, Key
<1> QED BY <1>1 DEF Owed, OwedTo, Excused, ExcusedFor, Opened, Log

LEMMA SharesNext ==
  ASSUME TypeOK', NEW e \in Endpoints
  PROVE  /\ Owed'[e] = IF Live(e)' THEN {k \in Log' : Before(endpoint'[e].cursor, k)} ELSE {}
         /\ Excused'[e] = IF Live(e)' THEN {k \in Log' : k[1] < endpoint'[e].floor} ELSE {}
         /\ e \in Opened' <=> Live(e)'
         /\ \A k \in Log' : k[1] \in Int /\ k[2] \in Int /\ 1 <= k[2]
<1>1. \A r \in Visible' : Key(r)[1] = r.xmin /\ Key(r)[1] \in Int /\ Key(r)[2] \in Int /\ 1 <= Key(r)[2]
  BY ActiveTypedNext DEF RowsOf, Xids, Seqs, Key
<1> QED BY <1>1 DEF Owed, OwedTo, Excused, ExcusedFor, Opened, Log

(* What becomes final is as young as a transaction that was running.       *)
LEMMA FreshIsYoung ==
  ASSUME TypeOK', DbStep, NEW k \in Feed!Fresh
  PROVE  k \in Log' /\ k \notin Log /\ k[1] \in Active /\ k[2] \in Int /\ 1 <= k[2]
<1>1. k \in Log' /\ k \notin Log
  BY DEF Feed!Fresh
<1>2. PICK r \in Visible' : k = Key(r)
  BY <1>1 DEF Log
<1>3. r \notin Visible /\ r \in RowsOf
  BY <1>1, <1>2, ActiveTypedNext DEF Log
<1>4. r.xmin \in Active
  BY <1>3 DEF DbStep, Appears
<1> QED BY <1>1, <1>2, <1>3, <1>4 DEF Key, RowsOf, Seqs

LEMMA FreshIsUnhanded == ASSUME IInv, TypeOK', DbStep PROVE Feed!Unhanded
<1> SUFFICES ASSUME NEW e \in Endpoints, NEW k \in handed[e], k \in Feed!Fresh PROVE FALSE
  BY DEF Feed!Unhanded
<1>1. k[1] \in Active /\ Active \subseteq Int
  BY FreshIsYoung, ActiveTyped DEF IInv
<1>2. AtMost(k[1] + 1, Active)
  BY DEF IInv, HorizonsOK
<1>3. k[1] + 1 <= k[1] /\ k[1] \in Int
  BY <1>1, <1>2 DEF AtMost
<1> QED BY ONLY <1>3

(* An endpoint whose position stays is owed what becomes final.            *)
Stands(e) ==
  /\ endpoint'[e].cursor = endpoint[e].cursor /\ endpoint'[e].floor = endpoint[e].floor
  /\ Live(e)' <=> Live(e)
  /\ handed'[e] = handed[e]

LEMMA StandingFollows ==
  ASSUME IInv, TypeOK', DbStep, NEW e \in Endpoints, Stands(e) PROVE Feed!Follows(e)
<1>0. TypeOK
  BY DEF IInv
<1>1. CASE ~Live(e)
  BY <1>0, <1>1, Shares, SharesNext DEF Stands, Feed!Follows
<1>2. CASE Live(e)
  <2>1. Behind(endpoint[e].cursor, Active) /\ AtMost(endpoint[e].floor, Active)
    BY <1>2 DEF IInv, CursorsOK, Reached, HorizonsOK
  <2>2. endpoint[e].floor \in Int /\ endpoint[e].cursor \in Int \X Int /\ Active \subseteq Int
    BY <1>0, Typed, ActiveTyped
  <2>3. \A k \in Feed!Fresh : Before(endpoint[e].cursor, k) /\ ~(k[1] < endpoint[e].floor)
    <3> SUFFICES ASSUME NEW k \in Feed!Fresh
                 PROVE  Before(endpoint[e].cursor, k) /\ ~(k[1] < endpoint[e].floor)
      OBVIOUS
    <3>1. k[1] \in Active /\ k[2] \in Int /\ 1 <= k[2]
      BY FreshIsYoung
    <3>2. Before(endpoint[e].cursor, <<k[1], 1>>) /\ endpoint[e].floor <= k[1]
      BY <2>1, <3>1 DEF Behind, AtMost
    <3>3. k[1] \in Int /\ endpoint[e].floor \in Int /\ endpoint[e].cursor[1] \in Int
          /\ endpoint[e].cursor[2] \in Int
      BY <2>2, <3>1
    <3>4. ~(k[1] < endpoint[e].floor)
      BY <3>2, <3>3
    <3>5. \/ endpoint[e].cursor[1] < k[1]
          \/ endpoint[e].cursor[1] = k[1] /\ endpoint[e].cursor[2] < 1
      BY <3>2 DEF Before
    <3> QED BY <3>1, <3>3, <3>4, <3>5 DEF Before
  <2>4. /\ Owed[e] = {k \in Log : Before(endpoint[e].cursor, k)}
        /\ Owed'[e] = {k \in Log' : Before(endpoint[e].cursor, k)}
        /\ Excused[e] = {k \in Log : k[1] < endpoint[e].floor}
        /\ Excused'[e] = {k \in Log' : k[1] < endpoint[e].floor}
        /\ e \in Opened /\ handed'[e] = handed[e]
    BY <1>0, <1>2, Shares, SharesNext DEF Stands
  <2> QED BY <2>3, <2>4 DEF Feed!Follows, Feed!Fresh, Feed!Gone
<1> QED BY <1>1, <1>2

(* A step that moves no endpoint publishes what becomes final.             *)
LEMMA StandingPublishes ==
  ASSUME IInv, TypeOK', DbStep, \A e \in Endpoints : Stands(e) PROVE Feed!Publish
<1>1. Opened' = Opened
  BY DEF Opened, Stands
<1> QED BY <1>1, FreshIsUnhanded, StandingFollows DEF Feed!Publish

LEMMA QuietPublishes ==
  ASSUME IInv, IInv', UNCHANGED <<endpoint, handed>>, DbStep PROVE Feed!Publish
<1>1. \A e \in Endpoints : Stands(e)
  BY DEF Stands, Live
<1> QED BY <1>1, StandingPublishes DEF IInv

LEMMA WritersPublish == ASSUME IInv, IInv', Writers PROVE Feed!Publish
<1>1. DbStep
  BY BeginDb, RecordDb, RewriteDb, CommitDb, AbortDb DEF Writers, IInv
<1>2. UNCHANGED <<endpoint, handed>>
  BY DEF Writers, Begin, Record, Rewrite, Commit, Abort
<1> QED BY <1>1, <1>2, QuietPublishes

(* An operation on one endpoint leaves the others where they stand.        *)
LEMMA OthersFollow ==
  ASSUME IInv, TypeOK', Recorded, NEW e \in Endpoints, \A f \in Endpoints \ {e} : Stands(f)
  PROVE  Feed!Among(e)
<1>1. TypeOK /\ IdsOK
  BY DEF IInv
<1>2. DbStep
  BY <1>1, RecordedDb
<1>3. Log \subseteq Log'
  BY DEF Recorded, Log, Visible, Committed
<1> QED BY <1>2, <1>3, FreshIsUnhanded, StandingFollows DEF Feed!Among

(* From a position <<h, 0>> a feed is owed the log, but what is below h.   *)
LEMMA StartSplits ==
  ASSUME TypeOK', NEW e \in Endpoints, Live(e)', NEW h \in Int,
         endpoint'[e].cursor = <<h, 0>>, h <= endpoint'[e].floor
  PROVE  Log' \subseteq Owed'[e] \cup Excused'[e]
<1> SUFFICES ASSUME NEW k \in Log' PROVE k \in Owed'[e] \/ k \in Excused'[e]
  OBVIOUS
<1>1. k[1] \in Int /\ k[2] \in Int /\ 1 <= k[2] /\ endpoint'[e].floor \in Int
  BY SharesNext, TypedNext
<1>2. /\ Owed'[e] = {l \in Log' : Before(<<h, 0>>, l)}
      /\ Excused'[e] = {l \in Log' : l[1] < endpoint'[e].floor}
  BY SharesNext
<1>3. k[1] < h \/ h < k[1] \/ k[1] = h
  BY <1>1
<1>4. CASE k[1] < h
  <2>1. k[1] < endpoint'[e].floor
    BY <1>1, <1>4
  <2> QED BY <1>2, <2>1
<1>5. CASE h < k[1] \/ k[1] = h
  <2>1. Before(<<h, 0>>, k)
    BY <1>1, <1>5 DEF Before
  <2> QED BY <1>2, <2>1
<1> QED BY <1>3, <1>4, <1>5

LEMMA CreateOpens ==
  ASSUME IInv, IInv', NEW e \in Endpoints, NEW wants, CreateEndpoint(e, wants)
  PROVE  Feed!Open(e)
<1>0. TypeOK /\ TypeOK' /\ endpoint \in [Endpoints -> EndpointRow]
  BY Typed DEF IInv
<1>1. /\ endpoint[e].state = "new" /\ Recorded /\ handed' = handed
      /\ endpoint' = [endpoint EXCEPT ![e] = Start(admin.horizon, wants)]
  BY DEF CreateEndpoint
<1>2. /\ endpoint'[e].cursor = <<admin.horizon, 0>> /\ endpoint'[e].floor = admin.horizon
      /\ endpoint'[e].state = "enabled" /\ \A f \in Endpoints \ {e} : endpoint'[f] = endpoint[f]
  BY <1>0, <1>1 DEF Start
<1>3. admin.horizon \in Int
  BY <1>0, Typed
<1>4. ~Live(e) /\ Live(e)' /\ handed'[e] = {}
  BY <1>1, <1>2 DEF Live, IInv, CursorsOK
<1>5. Opened' = Opened \cup {e} /\ e \notin Opened
  BY <1>2, <1>4 DEF Opened, Live
<1>6. Log' = Owed'[e] \cup Excused'[e]
  <2>1. admin.horizon <= endpoint'[e].floor
    BY <1>2, <1>3
  <2>2. Log' \subseteq Owed'[e] \cup Excused'[e]
    BY <1>0, <1>2, <1>3, <1>4, <2>1, StartSplits
  <2>3. Owed'[e] \subseteq Log' /\ Excused'[e] \subseteq Log'
    BY <1>0, <1>4, SharesNext
  <2> QED BY <2>2, <2>3
<1>7. \A f \in Endpoints \ {e} : Stands(f)
  BY <1>1, <1>2 DEF Stands, Live
<1> QED BY <1>0, <1>1, <1>4, <1>5, <1>6, <1>7, OthersFollow DEF Feed!Open

LEMMA DeleteCloses ==
  ASSUME IInv, IInv', NEW e \in Endpoints, DeleteEndpoint(e) PROVE Feed!Close(e)
<1>0. TypeOK /\ TypeOK' /\ endpoint \in [Endpoints -> EndpointRow]
  BY Typed DEF IInv
<1>1. /\ Live(e) /\ Recorded /\ endpoint' = [endpoint EXCEPT ![e].state = "gone"]
      /\ handed'[e] = {} /\ \A f \in Endpoints \ {e} : handed'[f] = handed[f]
  BY <1>0 DEF DeleteEndpoint, TypeOK
<1>2. endpoint'[e].state = "gone" /\ \A f \in Endpoints \ {e} : endpoint'[f] = endpoint[f]
  BY <1>0, <1>1 DEF EndpointRow
<1>3. ~Live(e)'
  BY <1>2 DEF Live
<1>4. Opened' = Opened \ {e} /\ e \in Opened
  BY <1>1, <1>2, <1>3 DEF Opened, Live
<1>5. Owed'[e] = {} /\ Excused'[e] = {}
  BY <1>0, <1>3, SharesNext
<1>6. \A f \in Endpoints \ {e} : Stands(f)
  BY <1>1, <1>2 DEF Stands, Live
<1> QED BY <1>0, <1>1, <1>4, <1>5, <1>6, OthersFollow DEF Feed!Close

LEMMA SkipSeeks ==
  ASSUME IInv, IInv', NEW e \in Endpoints, EnableAndSkip(e) PROVE Feed!Seek(e)
<1>0. TypeOK /\ TypeOK' /\ endpoint[e] \in EndpointRow /\ endpoint \in [Endpoints -> EndpointRow]
  BY Typed DEF IInv
<1>1. Live(e) /\ Recorded /\ handed' = handed
  BY DEF EnableAndSkip
<1>2. /\ endpoint'[e].cursor = <<admin.horizon, 0>> /\ endpoint'[e].state = "enabled"
      /\ endpoint'[e].floor = IF admin.horizon > endpoint[e].floor THEN admin.horizon ELSE endpoint[e].floor
      /\ \A f \in Endpoints \ {e} : endpoint'[f] = endpoint[f]
  BY <1>0 DEF EnableAndSkip, EndpointRow
<1>3. admin.horizon \in Int /\ endpoint[e].floor \in Int
  BY <1>0, Typed
<1>4. admin.horizon <= endpoint'[e].floor /\ endpoint[e].floor <= endpoint'[e].floor /\ endpoint'[e].floor \in Int
  BY <1>2, <1>3
<1>5. Live(e)' /\ Opened' = Opened /\ e \in Opened
  BY <1>1, <1>2 DEF Opened, Live
<1>6. \A f \in Endpoints \ {e} : Stands(f)
  BY <1>1, <1>2 DEF Stands, Live
<1>7. Feed!Among(e)
  BY <1>0, <1>1, <1>6, OthersFollow
<1>8. Log \subseteq Log' /\ Feed!Fresh \subseteq Log'
  BY <1>7 DEF Feed!Among, Feed!Fresh
<1>9. Log' \subseteq Owed'[e] \cup Excused'[e]
  BY <1>0, <1>2, <1>3, <1>4, <1>5, StartSplits
<1>10. Owed'[e] \subseteq Log' /\ Excused'[e] \subseteq Log' /\ Owed[e] \subseteq Log
  BY <1>0, Shares, SharesNext
<1>11. Excused[e] \subseteq Excused'[e]
  <2> SUFFICES ASSUME NEW k \in Excused[e] PROVE k \in Excused'[e]
    OBVIOUS
  <2>1. k \in Log /\ k[1] < endpoint[e].floor /\ k[1] \in Int
    BY <1>0, <1>1, Shares
  <2>2. k[1] < endpoint'[e].floor
    BY <1>3, <1>4, <2>1
  <2> QED BY <1>0, <1>5, <1>8, <2>1, <2>2, SharesNext
<1> QED BY <1>1, <1>5, <1>7, <1>8, <1>9, <1>10, <1>11 DEF Feed!Seek

(* An operation that leaves the position is not seen by the feed.          *)
LEMMA UpdatePublishes ==
  ASSUME IInv, IInv', NEW e \in Endpoints,
         \/ \E wants \in SUBSET Kinds : UpdateEndpoint(e, wants)
         \/ \E state \in {"enabled", "disabled"} : SetEnabled(e, state)
  PROVE  Feed!Publish
<1>0. TypeOK /\ TypeOK' /\ IdsOK /\ endpoint[e] \in EndpointRow /\ endpoint \in [Endpoints -> EndpointRow]
  BY Typed DEF IInv
<1>1. Live(e) /\ Recorded /\ handed' = handed
  BY DEF UpdateEndpoint, SetEnabled
<1>2. /\ endpoint'[e].cursor = endpoint[e].cursor /\ endpoint'[e].floor = endpoint[e].floor
      /\ endpoint'[e].state \in {"enabled", "disabled"}
      /\ \A f \in Endpoints \ {e} : endpoint'[f] = endpoint[f]
  <2>1. CASE \E wants \in SUBSET Kinds : UpdateEndpoint(e, wants)
    <3>1. PICK wants \in SUBSET Kinds : UpdateEndpoint(e, wants)
      BY <2>1
    <3>2. endpoint' = [endpoint EXCEPT ![e].wants = wants, ![e].steady = @ \cap wants]
      BY <3>1 DEF UpdateEndpoint
    <3>3. /\ endpoint'[e].cursor = endpoint[e].cursor /\ endpoint'[e].floor = endpoint[e].floor
          /\ endpoint'[e].state = endpoint[e].state
          /\ \A f \in Endpoints \ {e} : endpoint'[f] = endpoint[f]
      BY <1>0, <3>2 DEF EndpointRow
    <3> QED BY <1>1, <3>3 DEF Live
  <2>2. CASE \E state \in {"enabled", "disabled"} : SetEnabled(e, state)
    BY <1>0, <2>2 DEF SetEnabled, EndpointRow
  <2> QED BY <2>1, <2>2
<1>3. \A f \in Endpoints : Stands(f)
  BY <1>1, <1>2 DEF Stands, Live
<1>4. DbStep
  BY <1>0, <1>1, RecordedDb
<1> QED BY <1>0, <1>3, <1>4, StandingPublishes

LEMMA AdminsImplement == ASSUME IInv, IInv', Admins PROVE Feed!Next
<1>1. CASE AdminReadsHorizon \/ AdminGivesUp
  <2>1. TypeOK /\ UNCHANGED <<db, endpoint, handed>>
    BY <1>1 DEF AdminReadsHorizon, AdminGivesUp, IInv
  <2> QED BY <2>1, NoDbStep, QuietPublishes DEF Feed!Next
<1>2. ASSUME NEW e \in Endpoints, NEW wants \in SUBSET Kinds, CreateEndpoint(e, wants) PROVE Feed!Next
  BY <1>2, CreateOpens DEF Feed!Next
<1>3. ASSUME NEW e \in Endpoints, DeleteEndpoint(e) PROVE Feed!Next
  BY <1>3, DeleteCloses DEF Feed!Next
<1>4. ASSUME NEW e \in Endpoints, EnableAndSkip(e) PROVE Feed!Next
  BY <1>4, SkipSeeks DEF Feed!Next
<1>5. ASSUME NEW e \in Endpoints,
             \/ \E wants \in SUBSET Kinds : UpdateEndpoint(e, wants)
             \/ \E state \in {"enabled", "disabled"} : SetEnabled(e, state)
      PROVE  Feed!Next
  BY <1>5, UpdatePublishes DEF Feed!Next
<1> QED BY <1>1, <1>2, <1>3, <1>4, <1>5 DEF Admins

(* The tick hands over what its cursors pass, all at once, when it commits. *)
LEMMA CommitTakes == ASSUME IInv, IInv', TickCommit PROVE Feed!Take
<1>0. /\ TypeOK /\ TypeOK' /\ CursorsOK /\ WindowsOK /\ UNCHANGED db
      /\ endpoint \in [Endpoints -> EndpointRow]
  BY Typed DEF IInv, TickCommit
<1>1. ASSUME NEW e \in Endpoints
      PROVE  /\ endpoint'[e].cursor = Moved(e) /\ endpoint'[e].floor = endpoint[e].floor
             /\ endpoint'[e].state = endpoint[e].state
             /\ handed'[e] = handed[e] \cup KeysOf(tick.window[e])
  BY <1>0 DEF TickCommit, EndpointRow, KeysOf
<1>2. Log' = Log /\ \A e \in Endpoints : Live(e)' <=> Live(e)
  BY <1>0, <1>1 DEF Log, Visible, Committed, db, Live
<1>3. Opened' = Opened /\ Excused' = Excused
  BY <1>0, <1>1, <1>2 DEF Opened, Excused, ExcusedFor, Visible, Committed, db
<1>4. ASSUME NEW e \in Endpoints
      PROVE  /\ handed[e] \subseteq handed'[e] /\ Owed'[e] \subseteq Log
             /\ Owed[e] \subseteq Owed'[e] \cup handed'[e] \cup Excused[e]
  <2>1. handed[e] \subseteq handed'[e] /\ Owed'[e] \subseteq Log
    BY <1>0, <1>1, <1>2, SharesNext
  <2>2. CASE tick.window[e] = {}
    <3>1. Owed'[e] = Owed[e]
      <4>1. endpoint'[e].cursor = endpoint[e].cursor
        BY <1>1, <2>2 DEF Moved
      <4>2. Owed[e] = IF Live(e) THEN {k \in Log : Before(endpoint[e].cursor, k)} ELSE {}
        BY <1>0, Shares
      <4>3. Owed'[e] = IF Live(e)' THEN {k \in Log' : Before(endpoint'[e].cursor, k)} ELSE {}
        BY <1>0, SharesNext
      <4> QED BY <1>2, <4>1, <4>2, <4>3
    <3> QED BY <2>1, <3>1
  <2>3. CASE tick.window[e] # {}
    <3>1. /\ Live(e) /\ Moved(e) = tick.last[e]
          /\ Covered(e, tick.last[e], Visible, endpoint[e].floor, endpoint[e].steady,
                     handed'[e], queued \cup tick.fresh)
      BY <1>0, <1>1, <2>3 DEF WindowsOK, Moved, Reached
    <3>2. ASSUME NEW k \in Log PROVE k \in Owed'[e] \cup handed'[e] \cup Excused[e]
      <4>1. PICK r \in Visible : k = Key(r)
        BY DEF Log
      <4>2. r.xmin \in Int /\ endpoint[e].floor \in Int /\ k[1] = r.xmin
        BY <1>0, <4>1, ActiveTyped, Typed DEF RowsOf, Xids, Key
      <4>3. CASE Before(tick.last[e], Key(r))
        BY ZenonT(40), <1>0, <1>1, <1>2, <3>1, <4>1, <4>3, SharesNext
      <4>4. CASE r.xmin < endpoint[e].floor
        BY <1>0, <3>1, <4>1, <4>2, <4>4, Shares
      <4>5. CASE ~Before(tick.last[e], Key(r)) /\ endpoint[e].floor <= r.xmin
        BY <3>1, <4>1, <4>5 DEF Covered
      <4> QED BY <4>2, <4>3, <4>4, <4>5
    <3>3. Owed[e] \subseteq Log
      BY <1>0, Shares
    <3> QED BY <2>1, <3>2, <3>3
  <2> QED BY <2>1, <2>2, <2>3
<1> QED BY <1>2, <1>3, <1>4 DEF Feed!Take

LEMMA TicksImplement == ASSUME IInv, IInv', Ticks PROVE Feed!Next
<1>1. CASE TickCommit
  BY <1>1, CommitTakes DEF Feed!Next
<1>2. CASE ~TickCommit
  <2>1. TypeOK /\ UNCHANGED <<db, endpoint, handed>>
    BY <1>2 DEF Ticks, TickBegin, TickRead, TickDepths, TickPatterns, TickScan, TickSkips, TickFails, TickOrphaned, IInv
  <2> QED BY <2>1, NoDbStep, QuietPublishes DEF Feed!Next
<1> QED BY <1>1, <1>2

LEMMA JobsImplement == ASSUME IInv, IInv', Jobs PROVE Feed!Next
<1>1. TypeOK /\ UNCHANGED <<db, endpoint, handed>>
  BY DEF Jobs, Settle, LateFailure, SweepDeliveries, IInv
<1> QED BY <1>1, NoDbStep, QuietPublishes DEF Feed!Next

(* Every behaviour of the fan-out keeps EventFeed's promise, by steps of   *)
(* EventFeed: what transactions, rewrites, admins and a failing tick do to *)
(* the log and its cursors is publishing, taking, opening or seeking.      *)
THEOREM FanoutImplementsFeed == Spec => FeedSpec
<1>1. Init => Feed!Init
  BY DEF Init, Feed!Init, Log, Opened, Owed, Excused, Visible, Committed, Live
<1>2. IInv /\ IInv' /\ [Next]_vars => [Feed!Next]_Feed!feedVars
  <2> SUFFICES ASSUME IInv, IInv', [Next]_vars PROVE [Feed!Next]_Feed!feedVars
    OBVIOUS
  <2>1. CASE UNCHANGED vars
    BY <2>1 DEF vars, db, Feed!feedVars, Log, Opened, Owed, OwedTo, Excused, ExcusedFor,
                Visible, Committed, Live
  <2>2. CASE Writers
    BY <2>2, WritersPublish DEF Feed!Next
  <2> QED BY <2>1, <2>2, AdminsImplement, TicksImplement, JobsImplement DEF Next
<1> QED BY <1>1, <1>2, FanoutInvariant, PTL DEF Spec, FeedSpec, Feed!Spec

(* So no final event is dropped: it is owed to, was handed to or was       *)
(* skipped for every endpoint (fanout.ts:44-48).                           *)
THEOREM FanoutDropsNothing == Spec => []Feed!NothingDropped
BY FanoutImplementsFeed, Feed!NothingIsDropped, PTL DEF FeedSpec
------------------------------------------------------------------------------
(* The backlog.  A tick that will insert for an endpoint found it at or    *)
(* below the threshold; until the tick commits nobody else inserts, and    *)
(* what late failures put back is not counted, so it is there still; and   *)
(* one tick inserts at most one window for it.                             *)

Of(e, S) == {d \in S : d[1] = e}
Counted == pending \ late
Owing(e) == Cardinality(Of(e, Counted))

RoomLeft ==
  /\ \A e \in Endpoints : Owing(e) <= Threshold + Limit
  /\ \A e \in Endpoints : Cardinality(Of(e, tick.fresh)) <= Limit
  /\ \A e \in tick.todo : Of(e, tick.fresh) = {}
  /\ \A e \in Endpoints :
       ((tick.pc # "read" /\ e \in tick.todo) \/ Of(e, tick.fresh) # {}) => Owing(e) <= Threshold

(* The deliveries of one endpoint are as many as their events at most.     *)
LEMMA OfOneIsFinite ==
  ASSUME NEW S \in SUBSET (Endpoints \X Seqs), NEW e
  PROVE  IsFiniteSet(Of(e, S)) /\ Cardinality(Of(e, S)) \in Nat
<1> DEFINE T == Of(e, S)
           f == [d \in T |-> d[2]]
<1>1. IsFiniteSet(Seqs)
  BY FS_Interval, BoundAssumption DEF Seqs
<1>2. f \in Injection(T, Seqs)
  <2>1. f \in [T -> Seqs]
    BY DEF Of
  <2>2. ASSUME NEW c \in T, NEW d \in T, f[c] = f[d] PROVE c = d
    BY <2>2 DEF Of
  <2> HIDE DEF f, T
  <2> QED BY <2>1, <2>2, Fun_IsInj
<1> HIDE DEF f, T
<1>3. IsFiniteSet(T)
  BY <1>1, <1>2, FS_Injection
<1> QED BY <1>3, FS_CardinalityType DEF T

LEMMA FewerOf ==
  ASSUME NEW S \in SUBSET (Endpoints \X Seqs), NEW T \in SUBSET S, NEW e
  PROVE  Cardinality(Of(e, T)) <= Cardinality(Of(e, S))
<1>1. Of(e, T) \in SUBSET Of(e, S)
  BY DEF Of
<1> QED BY <1>1, OfOneIsFinite, FS_Subset

(* A window inserts no more deliveries than it has rows.                   *)
LEMMA WindowInserts ==
  ASSUME IInv, NEW e \in Endpoints, NEW C \in SUBSET Visible, NEW W, IsWindow(W, C)
  PROVE  /\ Inserted(e, W) \subseteq Endpoints \X Seqs
         /\ Cardinality(Of(e, Inserted(e, W))) <= Limit
<1>1. W \subseteq rows /\ rows \subseteq RowsOf /\ Cardinality(W) <= Limit
  BY DEF IsWindow, Visible, Committed, IInv, TypeOK
<1>2. IsFiniteSet(W)
  <2> DEFINE g == [r \in W |-> r.seq]
  <2>1. g \in [W -> Seqs]
    BY <1>1 DEF RowsOf
  <2>2. ASSUME NEW q \in W, NEW r \in W, g[q] = g[r] PROVE q = r
    BY <1>1, <2>2 DEF IInv, IdsOK
  <2> HIDE DEF g
  <2>3. g \in Injection(W, Seqs)
    BY <2>1, <2>2, Fun_IsInj
  <2>4. IsFiniteSet(Seqs)
    BY FS_Interval, BoundAssumption DEF Seqs
  <2> QED BY <2>3, <2>4, FS_Injection
<1> DEFINE f == [r \in W |-> <<e, r.seq>>]
           T == {<<e, r.seq>> : r \in W}
<1>3. f \in Surjection(W, T)
  <2>1. f \in [W -> T]
    OBVIOUS
  <2>2. \A d \in T : \E r \in W : f[r] = d
    OBVIOUS
  <2> HIDE DEF f, T
  <2> QED BY <2>1, <2>2, Fun_IsSurj
<1>4. Inserted(e, W) \subseteq T /\ T \subseteq Endpoints \X Seqs
  BY <1>1 DEF Inserted, Matching, RowsOf
<1> HIDE DEF f, T
<1>5. IsFiniteSet(T) /\ Cardinality(T) <= Cardinality(W)
  BY <1>2, <1>3, FS_Surjection
<1>6. Of(e, Inserted(e, W)) \in SUBSET T
  BY <1>4 DEF Of
<1>7. /\ Cardinality(Of(e, Inserted(e, W))) <= Cardinality(T)
      /\ Cardinality(Of(e, Inserted(e, W))) \in Nat
      /\ Cardinality(T) \in Nat /\ Cardinality(W) \in Nat
  BY <1>2, <1>5, <1>6, FS_Subset, FS_CardinalityType
<1> QED BY <1>1, <1>4, <1>5, <1>7, LimitAssumption

(* How many deliveries are owed, and that a part of them is not more.      *)
LEMMA OwingTyped ==
  ASSUME IInv, NEW e
  PROVE  Owing(e) \in Nat /\ Owing(e) <= Depth(e) /\ Depth(e) \in Nat
<1>1. pending \in SUBSET (Endpoints \X Seqs) /\ Counted \in SUBSET pending
  BY DEF IInv, TypeOK, Counted
<1>2. Depth(e) = Cardinality(Of(e, pending))
  BY DEF Depth, Of
<1> QED BY <1>1, <1>2, OfOneIsFinite, FewerOf DEF Owing

(* Between ticks, and while one runs, everyone else only takes deliveries, *)
(* or puts back what is not counted.                                       *)
LEMMA TakersLeaveRoom ==
  ASSUME IInv, RoomLeft, tick' = tick, Counted' \subseteq Counted
  PROVE  RoomLeft'
<1>1. Counted \in SUBSET (Endpoints \X Seqs)
  BY DEF IInv, TypeOK, Counted
<1>2. ASSUME NEW e \in Endpoints
      PROVE  /\ Cardinality(Of(e, Counted')) <= Cardinality(Of(e, Counted))
             /\ Cardinality(Of(e, Counted')) \in Nat /\ Cardinality(Of(e, Counted)) \in Nat
  BY <1>1, FewerOf, OfOneIsFinite
<1>3. \A e \in Endpoints : Owing(e)' <= Owing(e) /\ Owing(e)' \in Nat /\ Owing(e) \in Nat
  BY <1>2 DEF Owing, Of
<1>4. ASSUME NEW e \in Endpoints PROVE Owing(e)' <= Threshold + Limit
  BY <1>3, LimitAssumption DEF RoomLeft
<1>5. ASSUME NEW e \in Endpoints, (tick'.pc # "read" /\ e \in tick'.todo) \/ Of(e, tick'.fresh) # {}
      PROVE  Owing(e)' <= Threshold
  <2>1. Owing(e) <= Threshold
    BY <1>5 DEF RoomLeft
  <2> QED BY <1>3, <2>1, LimitAssumption
<1> QED BY <1>4, <1>5 DEF RoomLeft

(* A tick that has nothing to do yet, or any more.                         *)
LEMMA BlankLeavesRoom ==
  ASSUME RoomLeft, Counted' = Counted, tick'.todo = {} \/ tick'.pc = "read", tick'.fresh = {}
  PROVE  RoomLeft'
<1>1. \A e \in Endpoints : Of(e, tick'.fresh) = {} /\ Owing(e)' = Owing(e)
  BY DEF Of, Owing
<1>2. \A e : Of(e, tick'.fresh) = {}
  BY DEF Of
<1>3. Cardinality({}) = 0 /\ 0 <= Limit
  BY FS_EmptySet, LimitAssumption
<1> QED BY <1>1, <1>2, <1>3 DEF RoomLeft

(* The depths leave the endpoints that are at or below the threshold.      *)
LEMMA DepthsLeaveRoom == ASSUME IInv, RoomLeft, TickDepths PROVE RoomLeft'
<1>1. /\ Counted' = Counted /\ tick'.fresh = {}
      /\ tick'.todo \subseteq {e \in Endpoints : ~Paused(e)}
  BY DEF TickDepths, IInv, TypeOK, WindowsOK, deliveries, Counted
<1>2. \A e : Of(e, tick'.fresh) = {} /\ Owing(e)' = Owing(e)
  BY <1>1 DEF Of, Owing
<1>3. \A e \in tick'.todo : e \in Endpoints /\ Owing(e) <= Threshold
  BY <1>1, OwingTyped, LimitAssumption DEF Paused
<1>4. Cardinality({}) = 0 /\ 0 <= Limit
  BY FS_EmptySet, LimitAssumption
<1> QED BY <1>2, <1>3, <1>4 DEF RoomLeft

LEMMA ScanLeavesRoom ==
  ASSUME IInv, RoomLeft, NEW e \in Endpoints, TickScan(e) PROVE RoomLeft'
<1>1. PICK W : /\ IsWindow(W, Unread(tick.horizon, tick.seen[e]))
               /\ tick'.todo = tick.todo \ {e}
               /\ tick'.fresh = tick.fresh \cup Inserted(e, W)
  BY DEF TickScan, IInv, TypeOK
<1>2. e \in tick.todo /\ tick.pc = "scan" /\ Counted' = Counted
  BY DEF TickScan, deliveries, Counted
<1>3. Unread(tick.horizon, tick.seen[e]) \in SUBSET Visible
  BY DEF Unread
<1>4. Cardinality(Of(e, Inserted(e, W))) <= Limit
  BY <1>1, <1>3, WindowInserts
<1>5. Of(e, tick'.fresh) = Of(e, Inserted(e, W))
  <2>1. Of(e, tick.fresh) = {}
    BY <1>2 DEF RoomLeft
  <2> QED BY <1>1, <2>1 DEF Of
<1>6. \A c \in Endpoints : c # e => Of(c, tick'.fresh) = Of(c, tick.fresh)
  BY <1>1 DEF Of, Inserted
<1>7. \A c \in Endpoints : Owing(c)' = Owing(c)
  BY <1>2 DEF Owing
<1>8. Owing(e) <= Threshold
  BY <1>2 DEF RoomLeft
<1>9. tick.todo \subseteq Endpoints
  BY DEF IInv, TypeOK
<1>10. \A c \in Endpoints : Owing(c)' <= Threshold + Limit
  BY <1>7 DEF RoomLeft
<1>11. \A c \in Endpoints : Cardinality(Of(c, tick'.fresh)) <= Limit
  BY <1>4, <1>5, <1>6 DEF RoomLeft
<1>12. \A c \in tick'.todo : Of(c, tick'.fresh) = {}
  BY <1>1, <1>6, <1>9 DEF RoomLeft
<1>13. ASSUME NEW c \in Endpoints, c \in tick'.todo \/ Of(c, tick'.fresh) # {}
       PROVE  Owing(c)' <= Threshold
  BY <1>1, <1>2, <1>6, <1>7, <1>8, <1>13 DEF RoomLeft
<1> QED BY <1>10, <1>11, <1>12, <1>13 DEF RoomLeft

(* A turn that inserts nothing, or the reading of the patterns.            *)
LEMMA NothingInsertedLeavesRoom ==
  ASSUME IInv, RoomLeft, TickPatterns \/ \E e \in Endpoints : TickSkips(e) PROVE RoomLeft'
<1>1. /\ tick'.todo \subseteq tick.todo /\ tick'.fresh = tick.fresh /\ Counted' = Counted
      /\ tick.pc # "read"
  <2>1. DOMAIN tick = {"pc", "horizon", "todo", "seen", "wants", "window", "last", "fresh"}
    BY DEF IInv, TypeOK
  <2>2. /\ UNCHANGED deliveries /\ tick.pc # "read"
        /\ \/ \E w : tick' = [tick EXCEPT !.pc = "scan", !.wants = w]
           \/ \E e \in Endpoints : tick' = [tick EXCEPT !.todo = @ \ {e}]
    BY DEF TickPatterns, TickSkips
  <2> QED BY <2>1, <2>2 DEF deliveries, Counted
<1>2. \A c \in Endpoints : Owing(c)' = Owing(c)
  BY <1>1 DEF Owing
<1> QED BY <1>1, <1>2 DEF RoomLeft

LEMMA CommitLeavesRoom == ASSUME IInv, RoomLeft, TickCommit PROVE RoomLeft'
<1>1. /\ Counted' \subseteq Counted \cup tick.fresh
      /\ tick'.todo = {} /\ tick'.fresh = {}
  BY DEF TickCommit, Idle, Counted
<1>2. Counted \in SUBSET (Endpoints \X Seqs) /\ tick.fresh \in SUBSET (Endpoints \X Seqs)
  BY DEF IInv, TypeOK, Counted
<1>3. ASSUME NEW e \in Endpoints PROVE Owing(e)' <= Threshold + Limit
  <2> DEFINE old == Of(e, Counted)
             new == Of(e, tick.fresh)
             all == Of(e, Counted')
  <2>1. /\ IsFiniteSet(old) /\ IsFiniteSet(new)
        /\ Cardinality(old) \in Nat /\ Cardinality(new) \in Nat
    BY <1>2, OfOneIsFinite
  <2>2. Owing(e) = Cardinality(old) /\ Owing(e)' = Cardinality(all) /\ all \in SUBSET (old \cup new)
    BY <1>1 DEF Of, Owing
  <2>3. Cardinality(new) <= Limit /\ (new # {} => Owing(e) <= Threshold) /\ Owing(e) <= Threshold + Limit
    BY DEF RoomLeft
  <2> HIDE DEF old, new, all
  <2>4. /\ Cardinality(old \cup new) =
             Cardinality(old) + Cardinality(new) - Cardinality(old \cap new)
        /\ Cardinality(old \cap new) \in Nat /\ IsFiniteSet(old \cup new)
    BY <2>1, FS_Union, FS_Intersection, FS_CardinalityType
  <2>5. Cardinality(all) <= Cardinality(old \cup new) /\ Cardinality(all) \in Nat
    BY <2>2, <2>4, FS_Subset, FS_CardinalityType
  <2>6. CASE new = {}
    <3>1. old \cup new = old
      BY <2>6
    <3> QED BY <2>1, <2>2, <2>3, <2>5, <3>1, LimitAssumption
  <2>7. CASE new # {}
    BY <2>1, <2>2, <2>3, <2>4, <2>5, <2>7, LimitAssumption
  <2> QED BY <2>6, <2>7
<1>4. \A e : Of(e, tick'.fresh) = {}
  BY <1>1 DEF Of
<1>5. Cardinality({}) = 0 /\ 0 <= Limit
  BY FS_EmptySet, LimitAssumption
<1> QED BY <1>1, <1>3, <1>4, <1>5 DEF RoomLeft

LEMMA RoomStays == ASSUME IInv, RoomLeft, [Next]_vars PROVE RoomLeft'
<1>1. CASE UNCHANGED vars
  <2>1. tick' = tick /\ Counted' \subseteq Counted
    BY <1>1 DEF vars, deliveries, Counted
  <2> QED BY <2>1, TakersLeaveRoom
<1>2. CASE Writers
  <2>1. tick' = tick /\ Counted' \subseteq Counted
    BY <1>2 DEF Writers, Begin, Record, Rewrite, Commit, Abort, deliveries, Counted
  <2> QED BY <2>1, TakersLeaveRoom
<1>3. CASE Admins
  <2>1. tick' = tick /\ Counted' \subseteq Counted
    BY <1>3 DEF Admins, AdminReadsHorizon, AdminGivesUp, CreateEndpoint, UpdateEndpoint,
                DeleteEndpoint, SetEnabled, EnableAndSkip, deliveries, Counted
  <2> QED BY <2>1, TakersLeaveRoom
<1>4. CASE Jobs
  <2>1. tick' = tick /\ pending \cap settled = {}
    BY <1>4 DEF Jobs, Settle, LateFailure, SweepDeliveries, IInv, TypeOK
  <2>2. Counted' \subseteq Counted
    BY <1>4, <2>1 DEF Jobs, Settle, LateFailure, SweepDeliveries, Counted
  <2> QED BY <2>1, <2>2, TakersLeaveRoom
<1>5. CASE TickBegin \/ TickRead
  <2>1. TickBegin => tick'.todo = {} /\ tick'.fresh = {}
    BY DEF TickBegin, Idle
  <2>2. TickRead => tick'.pc = "read" /\ tick'.fresh = {}
    <3> SUFFICES ASSUME TickRead PROVE tick'.pc = "read" /\ tick'.fresh = {}
      OBVIOUS
    <3>1. /\ DOMAIN tick = {"pc", "horizon", "todo", "seen", "wants", "window", "last", "fresh"}
          /\ tick.fresh = {}
      BY DEF TickRead, IInv, WindowsOK, TypeOK
    <3> QED BY <3>1 DEF TickRead
  <2>3. Counted' = Counted
    BY <1>5 DEF TickBegin, TickRead, deliveries, Counted
  <2> QED BY <1>5, <2>1, <2>2, <2>3, BlankLeavesRoom
<1>6. CASE TickFails \/ \E e \in Endpoints : TickOrphaned(e)
  <2>1. Counted' = Counted /\ tick'.todo = {} /\ tick'.fresh = {}
    BY <1>6 DEF TickFails, TickOrphaned, Idle, deliveries, Counted
  <2> QED BY <2>1, BlankLeavesRoom
<1> QED BY <1>1, <1>2, <1>3, <1>4, <1>5, <1>6, DepthsLeaveRoom, ScanLeavesRoom,
           NothingInsertedLeavesRoom, CommitLeavesRoom DEF Next, Ticks

LEMMA RoomStarts == ASSUME Init PROVE RoomLeft
<1>1. \A e : Of(e, tick.fresh) = {} /\ Owing(e) = Cardinality({})
  <2>1. Counted = {} /\ tick.fresh = {}
    BY DEF Init, Idle, Counted
  <2> QED BY <2>1 DEF Of, Owing
<1>2. tick.todo = {} /\ Cardinality({}) = 0
  BY FS_EmptySet DEF Init, Idle
<1> QED BY <1>1, <1>2, LimitAssumption DEF RoomLeft

(* fanOut pauses an endpoint over BACKPRESSURE_THRESHOLD: whatever lands,  *)
(* is enabled or is settled between its reading of the depths and its      *)
(* commit, no queue grows by more than one window above it, other than by  *)
(* what recordFailure makes pending again after it had ended.              *)
THEOREM QueuesStayBounded == Spec => []BacklogBounded
<1>1. Init => RoomLeft
  BY RoomStarts
<1>2. IInv /\ RoomLeft /\ [Next]_vars => RoomLeft'
  BY RoomStays
<1>3. RoomLeft => BacklogBounded
  BY DEF RoomLeft, BacklogBounded, Owing, Of, Counted
<1> QED BY <1>1, <1>2, <1>3, FanoutInvariant, PTL DEF Spec
==============================================================================

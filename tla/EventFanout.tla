----------------------------- MODULE EventFanout -----------------------------
(***************************************************************************)
(* The audit log as PostgreSQL shows it to a reader, and the job that fans *)
(* it out into deliveries: src/lib/server/egress/fanout.ts, with the       *)
(* operations on endpoints (egress/endpoints.ts), the part of a purge that *)
(* rewrites audit rows (purge.ts) and the sweep of old deliveries          *)
(* (retention.ts).                                                         *)
(*                                                                         *)
(* An event gets its seq when it is inserted and is seen when its          *)
(* transaction commits, in whatever order; a purge gives rows that are     *)
(* already in the log a newer xmin.  The fan-out reads the log in slices,  *)
(* from a cursor on (xmin, seq), below the horizon: the oldest transaction *)
(* still running.  Each statement of a tick has a snapshot of its own, so  *)
(* others run between them; what it has written is locked until it ends.   *)
(*                                                                         *)
(* External: PostgreSQL's transaction ids, visibility and row locks.       *)
(* Bounds: MaxXid transactions, MaxSeq events, MaxFails failed ticks.      *)
(***************************************************************************)
EXTENDS Integers, FiniteSets

CONSTANTS
  Endpoints,   \* event_endpoint rows that may come to exist
  Kinds,       \* kinds of audit action, as an endpoint's patterns tell them apart
  Personal,    \* kinds whose rows name a requester: a purge rewrites them
  Withheld,    \* of those, kinds the enricher refuses to send after a purge
  EndpointKind,\* the kind of event_endpoint.created, .updated, .deleted, ...
  Limit,       \* FANOUT_LIMIT
  Threshold,   \* BACKPRESSURE_THRESHOLD
  MaxXid, MaxSeq, MaxFails

ASSUME KindAssumption ==
  Withheld \subseteq Personal /\ Personal \subseteq Kinds /\ EndpointKind \in Kinds
ASSUME LimitAssumption == Limit \in Nat \ {0} /\ Threshold \in Nat
ASSUME BoundAssumption == MaxXid \in Nat /\ MaxSeq \in Nat /\ MaxFails \in Nat

VARIABLES
  nextXid,    \* the transaction id the next writer will get
  nextSeq,    \* the sequence behind audit_event.seq
  running,    \* ids of the transactions that write events and are open
  rows,       \* audit_event, the uncommitted rows of running ones included
  rewrites,   \* <<xid, seq>>: rows an open purge has updated
  endpoint,   \* endpoint[e]: the event_endpoint row and its filters
  admin,      \* the admin transaction that has read the horizon, if any
  pending,    \* <<e, seq>>: event_delivery rows still owed
  settled,    \* <<e, seq>>: delivered, failed or skipped rows
  late,       \* <<e, seq>>: rows that a late failure has put back
  tick,       \* the fan-out under way
  fails,      \* ticks that failed so far
  \* History, read by no action:
  handed,     \* handed[e]: keys of the rows e's cursor was moved over
  queued,     \* <<e, seq>>: deliveries ever inserted
  sent        \* <<e, seq>>: deliveries whose payload was posted

db == <<nextXid, nextSeq, running, rows, rewrites>>
deliveries == <<pending, settled, late, queued, sent>>
vars == <<db, endpoint, admin, deliveries, tick, fails, handed>>

Xids == 1 .. MaxXid + 1
Seqs == 1 .. MaxSeq
Keys == (0 .. MaxXid + 1) \X (0 .. MaxSeq)
RowsOf == [seq : Seqs, xmin : Xids, kind : Kinds, born : Xids, stripped : BOOLEAN]

Idle == [pc |-> "idle", horizon |-> 0, todo |-> {},
         seen |-> [e \in Endpoints |-> <<0, 0>>],
         wants |-> [e \in Endpoints |-> {}],
         window |-> [e \in Endpoints |-> {}],
         last |-> [e \in Endpoints |-> <<0, 0>>],
         fresh |-> {}]
NoAdmin == [open |-> FALSE, horizon |-> 0]

Init ==
  /\ nextXid = 1 /\ nextSeq = 1
  /\ running = {} /\ rows = {} /\ rewrites = {}
  /\ endpoint = [e \in Endpoints |->
       [state |-> "new", cursor |-> <<0, 0>>, wants |-> {},
        since |-> 0, floor |-> 0, steady |-> {}]]
  /\ admin = NoAdmin
  /\ pending = {} /\ settled = {} /\ late = {} /\ queued = {} /\ sent = {}
  /\ tick = Idle /\ fails = 0
  /\ handed = [e \in Endpoints |-> {}]

------------------------------------------------------------------------------
(* Keys, visibility and the horizon.                                       *)

Key(r) == <<r.xmin, r.seq>>

(* The row comparison (xmin, seq) < (xmin, seq) of the window query.       *)
Before(a, b) == a[1] < b[1] \/ (a[1] = b[1] /\ a[2] < b[2])

Committed(rs, run) == {r \in rs : r.xmin \notin run}
Visible == Committed(rows, running)

(* pg_snapshot_xmin: the oldest running transaction, or the next to come.  *)
IsHorizon(h, run, next) ==
  h \in run \cup {next} /\ \A x \in run \cup {next} : h <= x

(* The rows a window query can return.  Seeded faults: a window that is    *)
(* not held below the horizon, and a cursor compared on seq alone.         *)
FaultyDirty(h, cursor) == {r \in Visible : Before(cursor, Key(r))}
FaultySeq(h, cursor) == {r \in Visible : r.xmin < h /\ r.seq > cursor[2]}
Unread(h, cursor) == {r \in Visible : r.xmin < h /\ Before(cursor, Key(r))}

(* The first Limit of them, in the order of their keys.                    *)
IsWindow(W, C) ==
  /\ W \subseteq C
  /\ \A r \in W : \A q \in C : Before(Key(q), Key(r)) => q \in W
  /\ Cardinality(W) <= Limit
  /\ W = C \/ Cardinality(W) = Limit

(* The row the cursor moves to: the last of the window in its order.       *)
IsLast(k, W) ==
  k \in {Key(r) : r \in W} /\ \A r \in W : ~Before(k, Key(r))

(* matchesPattern, over kinds: the rows of a window the endpoint wants.    *)
Matching(W, wants) == {r \in W : r.kind \in wants}

Live(e) == endpoint[e].state \in {"enabled", "disabled"}
Depth(e) == Cardinality({d \in pending : d[1] = e})

------------------------------------------------------------------------------
(* Transactions that write audit events.                                   *)

Row(seq, xid, kind) ==
  [seq |-> seq, xmin |-> xid, kind |-> kind, born |-> xid, stripped |-> FALSE]

Begin ==
  /\ nextXid <= MaxXid
  /\ running' = running \cup {nextXid}
  /\ nextXid' = nextXid + 1
  /\ UNCHANGED <<nextSeq, rows, rewrites, endpoint, admin, deliveries, tick, fails, handed>>

(* recordEvent, in an open transaction.                                    *)
Record(x, kind) ==
  /\ x \in running /\ nextSeq <= MaxSeq
  /\ rows' = rows \cup {Row(nextSeq, x, kind)}
  /\ nextSeq' = nextSeq + 1
  /\ UNCHANGED <<nextXid, running, rewrites, endpoint, admin, deliveries, tick, fails, handed>>

(* purgeRequester's UPDATE of audit_event: the rows of one requester that  *)
(* still name them and that no other open purge has locked.                *)
Rewrite(x, S) ==
  /\ x \in running
  /\ S # {} /\ S \subseteq {r \in Visible : r.kind \in Personal /\ ~r.stripped}
  /\ \A r \in S : \A w \in rewrites : w[2] # r.seq
  /\ rewrites' = rewrites \cup {<<x, r.seq>> : r \in S}
  /\ UNCHANGED <<nextXid, nextSeq, running, rows, endpoint, admin, deliveries, tick, fails, handed>>

Rekeyed(x, r) ==
  IF <<x, r.seq>> \in rewrites THEN [r EXCEPT !.xmin = x, !.stripped = TRUE] ELSE r

Commit(x) ==
  /\ x \in running
  /\ running' = running \ {x}
  /\ rows' = {Rekeyed(x, r) : r \in rows}
  /\ rewrites' = {w \in rewrites : w[1] # x}
  /\ UNCHANGED <<nextXid, nextSeq, endpoint, admin, deliveries, tick, fails, handed>>

Abort(x) ==
  /\ x \in running
  /\ running' = running \ {x}
  /\ rows' = {r \in rows : r.xmin # x}
  /\ rewrites' = {w \in rewrites : w[1] # x}
  /\ UNCHANGED <<nextXid, nextSeq, endpoint, admin, deliveries, tick, fails, handed>>

------------------------------------------------------------------------------
(* Operations on endpoints.  Each is one transaction that ends by          *)
(* recording an event of its own; its UPDATE waits for a tick that has     *)
(* already moved the cursor of that row.                                   *)

Locked(e) == tick.window[e] # {}

Recorded ==
  /\ nextXid <= MaxXid /\ nextSeq <= MaxSeq
  /\ nextXid' = nextXid + 1
  /\ nextSeq' = nextSeq + 1
  /\ rows' = rows \cup {Row(nextSeq, nextXid, EndpointKind)}
  /\ UNCHANGED <<running, rewrites>>

(* currentHorizon, in the transaction that will create or re-enable.       *)
AdminReadsHorizon ==
  /\ ~admin.open
  /\ nextXid <= MaxXid /\ nextSeq <= MaxSeq
  /\ \E h \in running \cup {nextXid} :
       IsHorizon(h, running, nextXid) /\ admin' = [open |-> TRUE, horizon |-> h]
  /\ UNCHANGED <<db, endpoint, deliveries, tick, fails, handed>>

(* Where a new endpoint starts.                                            *)
Start(h, wants) ==
  [state |-> "enabled", cursor |-> <<h, 0>>, wants |-> wants,
   since |-> h, floor |-> h, steady |-> wants]

CreateEndpoint(e, wants) ==
  /\ admin.open /\ endpoint[e].state = "new"
  /\ endpoint' = [endpoint EXCEPT ![e] = Start(admin.horizon, wants)]
  /\ admin' = NoAdmin
  /\ Recorded
  /\ UNCHANGED <<deliveries, tick, fails, handed>>

UpdateEndpoint(e, wants) ==
  /\ Live(e) /\ ~Locked(e)
  /\ endpoint' = [endpoint EXCEPT ![e].wants = wants,
                                  ![e].steady = @ \cap wants]
  /\ Recorded
  /\ UNCHANGED <<admin, deliveries, tick, fails, handed>>

(* Deletes the deliveries with the endpoint (ON DELETE CASCADE).           *)
DeleteEndpoint(e) ==
  /\ Live(e) /\ ~Locked(e)
  /\ endpoint' = [endpoint EXCEPT ![e].state = "gone"]
  /\ pending' = {d \in pending : d[1] # e}
  /\ settled' = {d \in settled : d[1] # e}
  /\ late' = {d \in late : d[1] # e}
  /\ handed' = [handed EXCEPT ![e] = {}]
  /\ Recorded
  /\ UNCHANGED <<admin, queued, sent, tick, fails>>

(* setEndpointEnabled without skipBacklog, and disableStaleEndpoints.      *)
SetEnabled(e, state) ==
  /\ Live(e) /\ ~Locked(e)
  /\ endpoint' = [endpoint EXCEPT ![e].state = state]
  /\ Recorded
  /\ UNCHANGED <<admin, deliveries, tick, fails, handed>>

(* setEndpointEnabled with skipBacklog.                                    *)
EnableAndSkip(e) ==
  /\ admin.open /\ Live(e) /\ ~Locked(e)
  /\ endpoint' = [endpoint EXCEPT
       ![e].state = "enabled",
       ![e].cursor = <<admin.horizon, 0>>,
       ![e].floor = IF admin.horizon > @ THEN admin.horizon ELSE @]
  /\ pending' = {d \in pending : d[1] # e}
  /\ settled' = settled \cup {d \in pending : d[1] = e}
  /\ admin' = NoAdmin
  /\ Recorded
  /\ UNCHANGED <<late, queued, sent, tick, fails, handed>>

(* The transaction finds no endpoint to act on, or is given up.            *)
AdminGivesUp ==
  /\ admin.open
  /\ admin' = NoAdmin
  /\ UNCHANGED <<db, endpoint, deliveries, tick, fails, handed>>

------------------------------------------------------------------------------
(* The life of a delivery, as far as the fan-out depends on it.            *)

(* A delivery of an enabled endpoint ends; posted unless the enricher      *)
(* refuses the event, which it does for some kinds once they are purged.   *)
Posted(d) ==
  \E r \in Visible : r.seq = d[2] /\ ~(r.stripped /\ r.kind \in Withheld)

Settle(d) ==
  /\ d \in pending /\ endpoint[d[1]].state = "enabled"
  /\ pending' = pending \ {d}
  /\ settled' = settled \cup {d}
  /\ sent' = IF Posted(d) THEN sent \cup {d} ELSE sent
  /\ UNCHANGED <<db, endpoint, admin, late, queued, tick, fails, handed>>

(* recordFailure updates its row by id alone: a worker whose delivery has  *)
(* meanwhile been posted by another, or skipped by an admin, reports a     *)
(* failure and makes it pending again.  Bound: once per delivery, where    *)
(* the code's bound is MAX_ATTEMPTS.                                       *)
LateFailure(d) ==
  /\ d \in settled \ late
  /\ settled' = settled \ {d}
  /\ pending' = pending \cup {d}
  /\ late' = late \cup {d}
  /\ UNCHANGED <<db, endpoint, admin, queued, sent, tick, fails, handed>>

(* sweepEventDeliveries: terminal rows old enough, however many.           *)
SweepDeliveries(old) ==
  /\ old # {} /\ old \subseteq settled
  /\ settled' = settled \ old
  /\ late' = late \ old
  /\ UNCHANGED <<db, endpoint, admin, pending, queued, sent, tick, fails, handed>>

------------------------------------------------------------------------------
(* The fan-out: one tick at a time (the job holds an advisory lock).       *)

(* currentHorizon.                                                         *)
TickBegin ==
  /\ tick.pc = "idle"
  /\ \E h \in running \cup {nextXid} :
       /\ IsHorizon(h, running, nextXid)
       /\ tick' = [Idle EXCEPT !.pc = "begun", !.horizon = h]
  /\ UNCHANGED <<db, endpoint, admin, deliveries, fails, handed>>

(* Seeded faults: no backpressure; and an endpoint once paused stays so.   *)
FaultyUnpaused(e) == FALSE
FaultyPaused(e) == \E d \in queued : d[1] = e
Paused(e) == Depth(e) > Threshold

(* The enabled endpoints with their cursors, ...                           *)
TickRead ==
  /\ tick.pc = "begun"
  /\ tick' = [tick EXCEPT
       !.pc = "read",
       !.todo = {e \in Endpoints : endpoint[e].state = "enabled"},
       !.seen = [e \in Endpoints |-> endpoint[e].cursor]]
  /\ UNCHANGED <<db, endpoint, admin, deliveries, fails, handed>>

(* ... then the depths of their queues, ...                                *)
TickDepths ==
  /\ tick.pc = "read"
  /\ tick' = [tick EXCEPT !.pc = "paced", !.todo = {e \in @ : ~Paused(e)}]
  /\ UNCHANGED <<db, endpoint, admin, deliveries, fails, handed>>

(* ... then their patterns, which an endpoint deleted since has none of.   *)
TickPatterns ==
  /\ tick.pc = "paced"
  /\ tick' = [tick EXCEPT
       !.pc = "scan",
       !.wants = [e \in Endpoints |-> IF Live(e) THEN endpoint[e].wants ELSE {}]]
  /\ UNCHANGED <<db, endpoint, admin, deliveries, fails, handed>>

(* The deliveries the INSERT adds; ON CONFLICT DO NOTHING for the others.  *)
(* Seeded fault: without the unique key, a re-keyed row is inserted again. *)
FaultyInserted(e, W) ==
  {<<e, r.seq>> : r \in Matching(W, tick.wants[e])}
Inserted(e, W) ==
  {<<e, r.seq>> : r \in Matching(W, tick.wants[e])} \ (pending \cup settled)

(* One turn of the loop that finds rows: the window, the deliveries, and   *)
(* the cursor, whose UPDATE locks the endpoint.  An endpoint deleted since *)
(* has no row to lock, and takes no delivery either: see TickOrphaned.     *)
TickScan(e) ==
  /\ tick.pc = "scan" /\ e \in tick.todo /\ Live(e)
  /\ \E W \in SUBSET Unread(tick.horizon, tick.seen[e]) :
       /\ IsWindow(W, Unread(tick.horizon, tick.seen[e]))
       /\ \E k \in {Key(r) : r \in W} :
            /\ IsLast(k, W)
            /\ tick' = [tick EXCEPT !.todo = @ \ {e}, !.window[e] = W, !.last[e] = k,
                                    !.fresh = @ \cup Inserted(e, W)]
  /\ UNCHANGED <<db, endpoint, admin, deliveries, fails, handed>>

(* A turn that finds none, or a deleted endpoint and nothing it wants.     *)
TickSkips(e) ==
  /\ tick.pc = "scan" /\ e \in tick.todo
  /\ \E W \in SUBSET Unread(tick.horizon, tick.seen[e]) :
       /\ IsWindow(W, Unread(tick.horizon, tick.seen[e]))
       /\ W = {} \/ (~Live(e) /\ Matching(W, tick.wants[e]) = {})
  /\ tick' = [tick EXCEPT !.todo = @ \ {e}]
  /\ UNCHANGED <<db, endpoint, admin, deliveries, fails, handed>>

(* The cursor as the tick leaves it: overwritten, whatever it was.         *)
(* Seeded fault: an endpoint that was read and had no turn, because it is  *)
(* paused, is moved to the horizon.                                        *)
FaultyMoved(e) ==
  IF tick.window[e] # {} THEN tick.last[e]
  ELSE IF Live(e) /\ Depth(e) > Threshold THEN <<tick.horizon, 0>>
  ELSE endpoint[e].cursor
Moved(e) == IF tick.window[e] = {} THEN endpoint[e].cursor ELSE tick.last[e]

TickCommit ==
  /\ tick.pc = "scan" /\ tick.todo = {}
  /\ endpoint' = [e \in Endpoints |-> [endpoint[e] EXCEPT !.cursor = Moved(e)]]
  /\ pending' = pending \cup tick.fresh
  /\ queued' = queued \cup tick.fresh
  /\ handed' = [e \in Endpoints |-> handed[e] \cup {Key(r) : r \in tick.window[e]}]
  /\ tick' = Idle
  /\ UNCHANGED <<db, admin, settled, late, sent, fails>>

(* The transaction rolls back for a reason of its own: a crash, a lost     *)
(* connection, a failing claim of deliveries.                              *)
TickFails ==
  /\ tick.pc # "idle" /\ fails < MaxFails
  /\ fails' = fails + 1
  /\ tick' = Idle
  /\ UNCHANGED <<db, endpoint, admin, deliveries, handed>>

(* It rolls back on the foreign key: the INSERT names an endpoint deleted  *)
(* since it was read.  The next tick no longer reads it.                   *)
TickOrphaned(e) ==
  /\ tick.pc = "scan" /\ e \in tick.todo /\ ~Live(e)
  /\ \E W \in SUBSET Unread(tick.horizon, tick.seen[e]) :
       /\ IsWindow(W, Unread(tick.horizon, tick.seen[e]))
       /\ Matching(W, tick.wants[e]) # {}
  /\ tick' = Idle
  /\ UNCHANGED <<db, endpoint, admin, deliveries, fails, handed>>

------------------------------------------------------------------------------
Writers ==
  \/ Begin
  \/ \E x \in running :
       \/ \E kind \in Kinds \ {EndpointKind} : Record(x, kind)
       \/ \E S \in SUBSET Visible : Rewrite(x, S)
       \/ Commit(x)
       \/ Abort(x)

Admins ==
  \/ AdminReadsHorizon
  \/ AdminGivesUp
  \/ \E e \in Endpoints :
       \/ \E wants \in SUBSET Kinds \ {{}} : CreateEndpoint(e, wants) \/ UpdateEndpoint(e, wants)
       \/ DeleteEndpoint(e)
       \/ \E state \in {"enabled", "disabled"} : SetEnabled(e, state)
       \/ EnableAndSkip(e)

Ticks ==
  \/ TickBegin
  \/ TickRead \/ TickDepths \/ TickPatterns
  \/ \E e \in Endpoints : TickScan(e) \/ TickSkips(e) \/ TickOrphaned(e)
  \/ TickCommit
  \/ TickFails

Jobs ==
  \/ \E d \in pending : Settle(d)
  \/ \E d \in settled : LateFailure(d)
  \/ \E old \in SUBSET settled : SweepDeliveries(old)

Next == Writers \/ Admins \/ Ticks \/ Jobs

Spec == Init /\ [][Next]_vars

(* Transactions end; the job is run every fifteen seconds and its steps go *)
(* on; a delivery that keeps failing is given up after its last attempt.   *)
Fairness ==
  /\ \A x \in Xids : WF_vars(Commit(x) \/ Abort(x))
  /\ WF_vars(TickBegin) /\ WF_vars(TickRead \/ TickDepths \/ TickPatterns)
  /\ WF_vars(TickCommit)
  /\ \A e \in Endpoints : WF_vars(TickScan(e) \/ TickSkips(e) \/ TickOrphaned(e))
  /\ \A d \in Endpoints \X Seqs : WF_vars(Settle(d))

FairSpec == Spec /\ Fairness

------------------------------------------------------------------------------
(* Properties.                                                             *)

TypeOK ==
  /\ nextXid \in Xids /\ nextSeq \in 1 .. MaxSeq + 1
  /\ running \subseteq Xids
  /\ rows \subseteq RowsOf
  /\ rewrites \subseteq Xids \X Seqs
  /\ endpoint \in [Endpoints ->
       [state : {"new", "enabled", "disabled", "gone"}, cursor : Keys, wants : SUBSET Kinds,
        since : 0 .. MaxXid + 1, floor : 0 .. MaxXid + 1, steady : SUBSET Kinds]]
  /\ admin \in [open : BOOLEAN, horizon : 0 .. MaxXid + 1]
  /\ pending \subseteq Endpoints \X Seqs /\ settled \subseteq Endpoints \X Seqs
  /\ pending \cap settled = {} /\ late \subseteq Endpoints \X Seqs
  /\ queued \subseteq Endpoints \X Seqs /\ sent \subseteq Endpoints \X Seqs
  /\ tick \in [pc : {"idle", "begun", "read", "paced", "scan"}, horizon : 0 .. MaxXid + 1,
               todo : SUBSET Endpoints, seen : [Endpoints -> Keys],
               wants : [Endpoints -> SUBSET Kinds], window : [Endpoints -> SUBSET RowsOf],
               last : [Endpoints -> Keys], fresh : SUBSET (Endpoints \X Seqs)]
  /\ fails \in 0 .. MaxFails
  /\ handed \in [Endpoints -> SUBSET Keys]

(* The cursor never stands at or past an event that is not final: whatever *)
(* a transaction still running will commit has a greater key, whether the  *)
(* cursor was set by a tick, at creation, or to skip a backlog, and even   *)
(* from a horizon read some time ago (fanout.ts:37-42).                    *)
CursorBehindHorizon ==
  \A e \in Endpoints : Live(e) =>
    \A x \in running \cup {nextXid} : Before(endpoint[e].cursor, <<x, 1>>)

(* Delay, not loss (fanout.ts:46): an event the cursor has passed, of a    *)
(* kind the endpoint wanted throughout and not skipped on request, has     *)
(* been queued, in whatever order it was inserted, committed or rewritten. *)
NothingLost ==
  \A e \in Endpoints : Live(e) => \A r \in Visible :
    (/\ ~Before(endpoint[e].cursor, Key(r))
     /\ r.xmin >= endpoint[e].floor
     /\ r.kind \in endpoint[e].steady) => <<e, r.seq>> \in queued

(* An endpoint that does not drain is not fanned out to: its queue holds   *)
(* at most one window above the threshold (fanout.ts:12-18), but for the   *)
(* deliveries that late failures have put back, which no depth limits.     *)
BacklogBounded ==
  \A e \in Endpoints :
    Cardinality({d \in pending \ late : d[1] = e}) <= Threshold + Limit

(* What the fan-out is for: the promise of EventFeed, with an event known  *)
(* by its key, owed while the cursor is before it.                         *)
OwedTo(e) == {Key(r) : r \in {v \in Visible : Before(endpoint[e].cursor, Key(v))}}
ExcusedFor(e) == {Key(r) : r \in {v \in Visible : v.xmin < endpoint[e].floor}}

Log == {Key(r) : r \in Visible}
Opened == {e \in Endpoints : Live(e)}
Owed == [e \in Endpoints |-> IF Live(e) THEN OwedTo(e) ELSE {}]
Excused == [e \in Endpoints |-> IF Live(e) THEN ExcusedFor(e) ELSE {}]

Feed == INSTANCE EventFeed WITH
  Feeds <- Endpoints, log <- Log, open <- Opened, owed <- Owed, excused <- Excused

FeedSpec == Feed!Spec

(* A committed event does not wait for ever: an enabled endpoint's cursor  *)
(* passes it, however long transactions held the horizon back and however  *)
(* often the endpoint was paused by its backlog (fanout.ts:44-48).         *)
EventuallyTaken ==
  \A e \in Endpoints : \A s \in Seqs :
    LET Waits == endpoint[e].state = "enabled" /\ s \in {k[2] : k \in OwedTo(e)}
    IN  Waits ~> ~Waits

(* "A new endpoint does not replay eighteen months of history" is "a       *)
(* property of the insert rather than a hope" (db/schema/egress.ts:77-80): *)
(* nothing is posted to it that was final before it was created.           *)
NoHistoryPosted ==
  \A e \in Endpoints : \A r \in Visible :
    (<<e, r.seq>> \in sent) => r.born >= endpoint[e].since

------------------------------------------------------------------------------
(* The inductive invariant: what a position in the log is worth, be it a   *)
(* cursor that is stored, one that the tick has read, or the one that it   *)
(* will store, although writers commit and admins act meanwhile.           *)

Active == running \cup {nextXid}

(* Everything that can still become visible has a key greater than c.      *)
Behind(c, active) == \A x \in active : Before(c, <<x, 1>>)
AtMost(h, active) == \A x \in active : h <= x

(* Every visible row up to position c, but those below the floor, is among *)
(* the keys handed over and, if its kind is wanted throughout, queued.     *)
Covered(e, c, seen, floor, steady, given, queue) ==
  \A r \in seen : (~Before(c, Key(r)) /\ floor <= r.xmin) =>
    Key(r) \in given /\ (r.kind \in steady => <<e, r.seq>> \in queue)

Reached(e, c, given, queue) ==
  /\ Behind(c, Active)
  /\ Covered(e, c, Visible, endpoint[e].floor, endpoint[e].steady, given, queue)

KeysOf(W) == {Key(r) : r \in W}

(* Ids are given out once, to transactions and to events.                  *)
IdsOK ==
  /\ \A x \in running : x < nextXid
  /\ \A r \in rows : r.xmin < nextXid /\ r.seq < nextSeq
  /\ \A r, q \in rows : r.seq = q.seq => r = q

(* A horizon read some time ago is still one.                              *)
HorizonsOK ==
  /\ admin.open => AtMost(admin.horizon, Active)
  /\ tick.pc # "idle" => AtMost(tick.horizon, Active)
  /\ \A e \in Endpoints : AtMost(endpoint[e].floor, Active)
  /\ \A e \in Endpoints : \A k \in handed[e] : AtMost(k[1] + 1, Active)

(* Where a stored cursor stands; and that deliveries have a history.       *)
CursorsOK ==
  /\ \A e \in Endpoints : endpoint[e].steady \subseteq endpoint[e].wants
  /\ pending \cup settled \subseteq queued
  /\ \A e \in Endpoints : ~Live(e) => handed[e] = {}
  /\ \A e \in Endpoints : Live(e) => Reached(e, endpoint[e].cursor, handed[e], queued)

(* Where the tick stands with an endpoint whose turn is to come, ...       *)
TodoOK ==
  /\ tick.pc \in {"idle", "begun"} => tick.todo = {}
  /\ \A e \in tick.todo :
       /\ endpoint[e].state # "new"
       /\ Live(e) => /\ Reached(e, tick.seen[e], handed[e], queued)
                     /\ tick.pc = "scan" => endpoint[e].steady \subseteq tick.wants[e]

(* ... and with one that has had it.                                       *)
WindowsOK ==
  /\ tick.pc # "scan" => tick.fresh = {}
  /\ tick.fresh \cap (pending \cup settled) = {}
  /\ \A e \in Endpoints : tick.window[e] # {} =>
       /\ tick.pc = "scan" /\ Live(e) /\ e \notin tick.todo
       /\ \A r \in tick.window[e] : r.xmin < tick.horizon
       /\ Reached(e, tick.last[e], handed[e] \cup KeysOf(tick.window[e]), queued \cup tick.fresh)

IInv == TypeOK /\ IdsOK /\ HorizonsOK /\ CursorsOK /\ TodoOK /\ WindowsOK
==============================================================================

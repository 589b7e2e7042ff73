----------------------------- MODULE AuditSink -----------------------------
(***************************************************************************)
(* The second copy of the audit log: auditsink/reader.ts, ship.ts,         *)
(* serialize.ts, index.ts and the tables of drizzle/0028.                  *)
(* Phase one of a tick cuts a window of final rows into a batch and claims *)
(* shipments under the job's lock; phase two talks to the sinks after the  *)
(* lock is gone.  Ticks of one process overlap and share the module-level  *)
(* `claimed` and `prebuilt`, here `shelf`.  Attestations are left out.     *)
(*                                                                         *)
(* A row of audit_event is known by its seq; its key is (xmin, seq).  Only *)
(* a purge rewrites a row, and its transaction gives it a new xmin.  Time  *)
(* is abstract: a shipment pushed forward falls due at any later moment.   *)
(***************************************************************************)
EXTENDS Naturals, Sequences, FiniteSets

CONSTANTS
    Sinks,
    MaxXid,        \* bound: transactions that write the log
    MaxSeq,        \* bound: rows
    MaxBatches,    \* bound: rows of audit_batch
    SinkLimit,     \* CLAIM_LIMIT
    MaxShifts,     \* bound: ticks of one process that overlap
    MaxSinkStarts  \* bound: restarts of the process

ASSUME SinkAssumption ==
    /\ {MaxXid, MaxSeq, MaxBatches, SinkLimit, MaxShifts} \subseteq Nat \ {0}
    /\ MaxSinkStarts \in Nat

VARIABLES
    logged,        \* the row versions that are visible
    drafts,        \* the rows of transactions that are still running
    running, nextXid, nextSeq,
    batches,       \* audit_batch, in the order of its chain
    shipment,      \* audit_batch_shipment
    received,      \* what a sink was handed and took
    shelf, shift, sinkLock,
    adapters, sinkStarts \* activeAdapters of the running process

logVars == <<logged, drafts, running, nextXid, nextSeq>>
tableVars == <<batches, shipment, received>>
processVars == <<shelf, shift, sinkLock, adapters, sinkStarts>>
sinkVars == <<logVars, tableVars, processVars>>

Xids == 1..MaxXid
Shifts == 1..MaxShifts
NoShift == 0
BatchIds == 1..MaxBatches
LogRow == [seq : 1..MaxSeq, xmin : Xids, erased : BOOLEAN]
CursorType == (0..MaxXid) \X (0..MaxSeq)
EmptyShelf == [claimed |-> {}, prebuilt |-> {}]
OffShift == [pc |-> "idle", horizon |-> 0, claims |-> {}, prebuilt |-> {},
             stopped |-> {}, wrote |-> {}]
-----------------------------------------------------------------------------
(* The log                                                                 *)
SinkInit ==
    /\ logged = {} /\ drafts = {} /\ running = {} /\ nextXid = 1 /\ nextSeq = 1
    /\ batches = <<>> /\ received = {}
    /\ shipment = [p \in BatchIds \X Sinks |-> [state |-> "absent", digest |-> {}]]
    /\ shelf = EmptyShelf /\ sinkLock = NoShift
    /\ shift = [t \in Shifts |-> OffShift]
    /\ adapters \in SUBSET Sinks /\ sinkStarts = 0

BeginWriter ==
    /\ nextXid <= MaxXid
    /\ running' = running \cup {nextXid}
    /\ nextXid' = nextXid + 1
    /\ UNCHANGED <<logged, drafts, nextSeq, tableVars, processVars>>

(* recordEvent: the sequence is drawn at the insert and is not given back. *)
AppendEvent(x) ==
    /\ nextSeq <= MaxSeq
    /\ drafts' = drafts \cup {[seq |-> nextSeq, xmin |-> x, erased |-> FALSE]}
    /\ nextSeq' = nextSeq + 1
    /\ UNCHANGED <<logged, running, nextXid, tableVars, processVars>>

DraftsOf(x) == {r \in drafts : r.xmin = x}

EndWriter(x, kept) ==
    /\ logged' = IF kept THEN logged \cup DraftsOf(x) ELSE logged
    /\ drafts' = drafts \ DraftsOf(x)
    /\ running' = running \ {x}
    /\ UNCHANGED <<nextXid, nextSeq, tableVars, processVars>>

(* purgeRequester: one UPDATE clears every row that names the person, here *)
(* S, and the transaction records its own event, which names the staff     *)
(* member.                                                                 *)
CommitErasure(x, S) ==
    /\ Cardinality(DraftsOf(x)) = 1
    /\ \A r \in S : ~r.erased
    /\ logged' = (logged \ S) \cup DraftsOf(x)
                      \cup {[r EXCEPT !.xmin = x, !.erased = TRUE] : r \in S}
    /\ drafts' = drafts \ DraftsOf(x)
    /\ running' = running \ {x}
    /\ UNCHANGED <<nextXid, nextSeq, tableVars, processVars>>
-----------------------------------------------------------------------------
(* Phase one                                                               *)
RowKey(r) == <<r.xmin, r.seq>>
Precedes(k, l) == k[1] < l[1] \/ (k[1] = l[1] /\ k[2] < l[2])
KeyIn(k, lo, hi) == Precedes(lo, k) /\ ~Precedes(hi, k)

(* readCursor: the batch table is the cursor.                              *)
HeadOf(B) == IF B = <<>> THEN <<0, 0>> ELSE B[Len(B)].cursor

(* currentHorizon: pg_snapshot_xmin, the oldest that still runs.           *)
FaultyHorizon(x) == x = nextXid
Horizon(x) == /\ x \in running \cup {nextXid}
              /\ \A y \in running : x <= y

(* runJob holds the lock; reset(), and off while no sink is configured.    *)
OpenShift(t) ==
    /\ sinkLock = NoShift /\ shift[t] = OffShift
    /\ shelf' = EmptyShelf
    /\ IF adapters = {}
       THEN UNCHANGED <<shift, sinkLock>>
       ELSE /\ sinkLock' = t
            /\ \E x \in 1..(MaxXid + 1) :
                   /\ Horizon(x)
                   /\ shift' = [shift EXCEPT ![t].pc = "reading", ![t].horizon = x]
    /\ UNCHANGED <<logVars, tableVars, adapters, sinkStarts>>

FinalRows(t) == {r \in logged : /\ r.xmin < shift[t].horizon
                                /\ Precedes(HeadOf(batches), RowKey(r))}

(* The limit and the byte cap cut the window short at any row; the age     *)
(* decides whether a window that is not full makes a batch.                *)
IsCut(R, W) ==
    /\ R # {} /\ R \subseteq W
    /\ \A r \in R, w \in W : Precedes(RowKey(w), RowKey(r)) => w \in R

LastKey(R) == CHOOSE k \in {RowKey(r) : r \in R} : \A r \in R : ~Precedes(k, RowKey(r))

(* audit_batch_require_monotonic refuses a batch that does not continue    *)
(* the chain.  The body is kept on the shelf only; the row has its digest. *)
BuildBatch(t, R) ==
    LET b == [prev |-> HeadOf(batches), cursor |-> LastKey(R), digest |-> R]
    IN  /\ shift[t].pc = "reading"
        /\ Len(batches) < MaxBatches
        /\ IsCut(R, FinalRows(t))
        /\ batches' = Append(batches, b)
        /\ shelf' = [shelf EXCEPT !.prebuilt = {Len(batches) + 1}]
        /\ shift' = [shift EXCEPT ![t].pc = "built"]
        /\ UNCHANGED <<logVars, shipment, received, sinkLock, adapters, sinkStarts>>

BuildNothing(t) ==
    /\ shift[t].pc = "reading"
    /\ shift' = [shift EXCEPT ![t].pc = "built"]
    /\ UNCHANGED <<logVars, tableVars, shelf, sinkLock, adapters, sinkStarts>>

(* ORDER BY the cursor, LIMIT: the oldest of S, up to the claim limit.     *)
IsOldest(C, S) ==
    /\ C \subseteq S
    /\ Cardinality(C) = IF Cardinality(S) < SinkLimit THEN Cardinality(S) ELSE SinkLimit
    /\ \A p \in C, q \in S \ C : p[1] <= q[1]

Unplanned == {p \in (1..Len(batches)) \X adapters : shipment[p].state = "absent"}
InState(S, st) == {p \in S : shipment[p].state = st}

(* claimShipments: missing rows are inserted due at once, then claimed     *)
(* with whatever else is due.  The job ends and its lock with it.          *)
ClaimShipments(t, New, C) ==
    /\ shift[t].pc = "built"
    /\ IsOldest(New, Unplanned)
    /\ IsOldest(C, New \cup InState((1..Len(batches)) \X adapters, "due"))
    /\ shipment' = [p \in DOMAIN shipment |->
           IF p \in C THEN [shipment[p] EXCEPT !.state = "later"]
           ELSE IF p \in New THEN [shipment[p] EXCEPT !.state = "due"] ELSE shipment[p]]
    /\ shelf' = [shelf EXCEPT !.claimed = C]
    /\ shift' = [shift EXCEPT ![t].pc = "unlocked"]
    /\ sinkLock' = NoShift
    /\ UNCHANGED <<logVars, batches, received, adapters, sinkStarts>>

-----------------------------------------------------------------------------
(* Phase two                                                               *)
(* shipClaimed is handed `claimed` and `prebuilt` as they are then.        *)
StartShipping(t) ==
    /\ shift[t].pc = "unlocked"
    /\ shift' = [shift EXCEPT ![t].pc = "shipping", ![t].claims = shelf.claimed,
                              ![t].prebuilt = shelf.prebuilt]
    /\ UNCHANGED <<logVars, tableVars, shelf, sinkLock, adapters, sinkStarts>>

(* rebuildBatch: the rows that are in the batch's range by now.            *)
Rebuilt(b) == {r \in logged : KeyIn(RowKey(r), batches[b].prev, batches[b].cursor)}
BodyFor(t, b) == IF b \in shift[t].prebuilt THEN batches[b].digest ELSE Rebuilt(b)

Facing(t, p) ==
    /\ shift[t].pc = "shipping"
    /\ p \in shift[t].claims /\ p[2] \notin shift[t].stopped
    /\ \A w \in shift[t].wrote : w.at[2] # p[2]

Receive(p, body) == received' = received \cup {[at |-> p, body |-> body]}

ShipBatch(t, p) ==
    /\ Facing(t, p)
    /\ Receive(p, BodyFor(t, p[1]))
    /\ shift' = [shift EXCEPT ![t].wrote = @ \cup {[at |-> p, body |-> BodyFor(t, p[1])]}]
    /\ UNCHANGED <<logVars, batches, shipment, shelf, sinkLock, adapters, sinkStarts>>

RecordShipment(t, w) ==
    /\ shipment' = [shipment EXCEPT ![w.at] = [state |-> "shipped", digest |-> w.body]]
    /\ shift' = [shift EXCEPT ![t].wrote = @ \ {w}, ![t].claims = @ \ {w.at}]
    /\ UNCHANGED <<logVars, batches, received, shelf, sinkLock, adapters, sinkStarts>>

(* The rebuild or the adapter throws, or the answer is lost on the way;    *)
(* the failure is recorded and the sink is done for this tick.             *)
PushedBack(p) == IF shipment[p].state = "shipped" THEN shipment[p]
                 ELSE [shipment[p] EXCEPT !.state = "later"]

FailShipment(t, p, taken) ==
    /\ Facing(t, p)
    /\ IF taken THEN Receive(p, BodyFor(t, p[1])) ELSE UNCHANGED received
    /\ shipment' = [shipment EXCEPT ![p] = PushedBack(p)]
    /\ shift' = [shift EXCEPT ![t].stopped = @ \cup {p[2]}]
    /\ UNCHANGED <<logVars, batches, shelf, sinkLock, adapters, sinkStarts>>

(* Every sink is through or stopped; then reset(), whoever the shelf       *)
(* belongs to by now.                                                      *)
EndShift(t) ==
    /\ shift[t].pc = "shipping" /\ shift[t].wrote = {}
    /\ \A p \in shift[t].claims : p[2] \in shift[t].stopped
    /\ shelf' = EmptyShelf
    /\ shift' = [shift EXCEPT ![t] = OffShift]
    /\ UNCHANGED <<logVars, batches, shipment, received, sinkLock, adapters, sinkStarts>>

ShipmentFallsDue(p) ==
    /\ shipment[p].state = "later"
    /\ shipment' = [shipment EXCEPT ![p].state = "due"]
    /\ UNCHANGED <<logVars, batches, received, processVars>>

(* The process ends and comes back, perhaps with other sinks configured.   *)
RestartSink(A) ==
    /\ sinkStarts < MaxSinkStarts
    /\ sinkStarts' = sinkStarts + 1
    /\ adapters' = A
    /\ shelf' = EmptyShelf /\ sinkLock' = NoShift
    /\ shift' = [t \in Shifts |-> OffShift]
    /\ UNCHANGED <<logVars, tableVars>>
-----------------------------------------------------------------------------
SinkNext ==
    \/ BeginWriter
    \/ \E x \in running : AppendEvent(x)
    \/ \E x \in running, kept \in BOOLEAN : EndWriter(x, kept)
    \/ \E x \in running : \E S \in SUBSET logged : CommitErasure(x, S)
    \/ \E t \in Shifts : OpenShift(t)
    \/ \E t \in Shifts : \E R \in SUBSET FinalRows(t) : BuildBatch(t, R)
    \/ \E t \in Shifts : BuildNothing(t)
    \/ \E t \in Shifts : \E New \in SUBSET Unplanned :
           \E C \in SUBSET (New \cup InState(DOMAIN shipment, "due")) : ClaimShipments(t, New, C)
    \/ \E t \in Shifts : StartShipping(t)
    \/ \E t \in Shifts : \E p \in shift[t].claims : ShipBatch(t, p)
    \/ \E t \in Shifts : \E w \in shift[t].wrote : RecordShipment(t, w)
    \/ \E t \in Shifts, taken \in BOOLEAN : \E p \in shift[t].claims : FailShipment(t, p, taken)
    \/ \E t \in Shifts : EndShift(t)
    \/ \E p \in DOMAIN shipment : ShipmentFallsDue(p)
    \/ \E A \in SUBSET Sinks : RestartSink(A)

SinkSpec == SinkInit /\ [][SinkNext]_sinkVars
-----------------------------------------------------------------------------
(* Every variable keeps its type.                                          *)
SinkTypeOK ==
    /\ logged \subseteq LogRow /\ drafts \subseteq LogRow
    /\ running \subseteq Xids /\ nextXid \in 1..(MaxXid + 1) /\ nextSeq \in 1..(MaxSeq + 1)
    /\ batches \in Seq([prev : CursorType, cursor : CursorType, digest : SUBSET LogRow])
    /\ \A p \in BatchIds \X Sinks : /\ shipment[p].state \in {"absent", "due", "later", "shipped"}
                                    /\ shipment[p].digest \subseteq LogRow
    /\ \A m \in received : m.at \in BatchIds \X Sinks /\ m.body \subseteq LogRow
    /\ shelf \in [claimed : SUBSET (BatchIds \X Sinks), prebuilt : SUBSET BatchIds]
    /\ \A t \in Shifts : shift[t].pc \in {"idle", "reading", "built", "unlocked", "shipping"}
    /\ sinkLock \in {NoShift} \cup Shifts
    /\ adapters \subseteq Sinks /\ sinkStarts \in 0..MaxSinkStarts

(* The copy is complete: the row versions that stand at or below the       *)
(* cursor have all been handed to a sink, and taken by it, once the        *)
(* batches up to there are recorded as shipped to it (readCursor and       *)
(* currentHorizon in reader.ts, shipped_at in ship.ts), across writers     *)
(* that commit out of order, erasures, overlapping ticks and restarts.     *)
SinkKeepsLog ==
    \A s \in Sinks, n \in BatchIds :
        (n <= Len(batches) /\ \A b \in 1..n : shipment[<<b, s>>].state = "shipped") =>
            \A r \in logged : ~Precedes(batches[n].cursor, RowKey(r)) =>
                \E m \in received : m.at[1] <= n /\ m.at[2] = s /\ r \in m.body
=============================================================================

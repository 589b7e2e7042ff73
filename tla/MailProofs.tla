----------------------------- MODULE MailProofs -----------------------------
(***************************************************************************)
(* What the outbox, the reminders and the notices guarantee, for any       *)
(* number of mails, people, grants, addresses, posts and crashes.          *)
(*                                                                         *)
(* The outbox. A row is claimed by one drain, and between the claim and    *)
(* the record only an erasure writes it: so what a drain takes up for an   *)
(* erased person was queued after the erasure, and what it takes up        *)
(* without an address was already in flight (RowsHold, ClaimsHold). Rows   *)
(* are numbered without a gap, so none is overwritten (CountsHold).        *)
(*                                                                         *)
(* Reminders. One reminder at a time is queued and not stamped. A crash in *)
(* between leaves one loose, and only a loose one can be queued twice:     *)
(* each crash accounts for one repetition (RemindHolds, RepeatsHold).      *)
(*                                                                         *)
(* Notices. A plan holds posts dated at or before its cursor, and its      *)
(* cursor is not after the clock: so a save, which moves the row to the    *)
(* clock, moves it past whatever the plan still brings, and an update that *)
(* finds the row further on has nothing to add (SubsInv).                  *)
(***************************************************************************)
EXTENDS MailQueue, Subscriptions, TLAPS, FiniteSetTheorems, WellFoundedInduction

DrainType == [batch : SUBSET MailClaim, held : SUBSET MailClaim,
              answer : {"unsent", "sent", "failed"}]
RunType == [pc : ReminderKinds \cup {"idle"}, due : SUBSET MailGrants, held : SUBSET MailGrants]
ReminderRow == [phase : {"inert", "live", "closed", "over"}, stamp : [ReminderKinds -> BOOLEAN],
                queued : [ReminderKinds -> 0..MaxMails]]

OutboxTypes ==
    /\ mail \in [Mails -> MailRow] /\ purged \subseteq People /\ desk \subseteq People
    /\ drain \in DrainType
ReminderTypes ==
    /\ reminder \in [MailGrants -> ReminderRow] /\ remind \in RunType /\ crashes \in 0..MaxCrashes

Claims == drain.batch \cup drain.held

(* What waits has attempts left and an address, one of an erased person    *)
(* only when it came late, and none only when it was in flight.            *)
RowsHold ==
    \A m \in Mails : mail[m].status = "pending" =>
        /\ mail[m].attempts < MailAttempts /\ mail[m].to # NoAddress
        /\ mail[m].to \in purged => mail[m].mark = "late"
        /\ mail[m].to = Blank => mail[m].mark = "flown"
(* A row is claimed once, and between the claim and its record only an     *)
(* erasure writes it.                                                      *)
ClaimsHold ==
    /\ \A k, l \in Claims : k.m = l.m => k = l
    /\ drain.batch \cap drain.held = {}
    /\ \A k \in Claims :
          /\ \/ mail[k.m].status = "pending" /\ mail[k.m].to = k.to
             \/ mail[k.m].status = "failed" /\ mail[k.m].to = Blank /\ mail[k.m].mark = "flown"
          /\ mail[k.m].attempts = k.attempts /\ k.attempts < MailAttempts
          /\ k.gone \subseteq purged
          /\ k.to \in k.gone => mail[k.m].mark = "late"
          /\ k.to = Blank => mail[k.m].mark = "flown"
(* Rows are numbered without a gap.                                        *)
Filled(n) == n \in 0..MaxMails /\ \A m \in Mails : mail[m].status # "absent" <=> m <= n
CountsHold ==
    \E n \in 0..MaxMails :
        /\ Filled(n)
        /\ \A g \in MailGrants, kind \in ReminderKinds : reminder[g].queued[kind] <= n
(* One reminder at a time is queued and not stamped; what is still to be   *)
(* sent is not stamped.                                                    *)
RemindHolds ==
    /\ remind.pc = "idle" => remind.due = {} /\ remind.held = {}
    /\ \A g, h \in remind.held : g = h
    /\ \A g \in remind.held : reminder[g].queued[remind.pc] > 0
    /\ \A g \in remind.due : g \notin remind.held /\ ~reminder[g].stamp[remind.pc]
    /\ \A g \in MailGrants, kind \in ReminderKinds :
          reminder[g].stamp[kind] => reminder[g].queued[kind] > 0
(* A reminder that was queued and will be again: a crash came between.     *)
Loose(g, kind) ==
    /\ ~reminder[g].stamp[kind] /\ reminder[g].queued[kind] > 0
    /\ ~(g \in remind.held /\ kind = remind.pc)
Repeated == {x \in MailGrants \X ReminderKinds :
                reminder[x[1]].queued[x[2]] > 1 \/ Loose(x[1], x[2])}
RepeatsHold ==
    /\ IsFiniteSet(Repeated) /\ Cardinality(Repeated) <= crashes
    /\ \A g \in MailGrants, kind \in ReminderKinds :
          /\ reminder[g].queued[kind] <= 1 + crashes
          /\ Loose(g, kind) => reminder[g].queued[kind] <= crashes

MailInv ==
    /\ OutboxTypes /\ ReminderTypes /\ RowsHold /\ ClaimsHold
    /\ CountsHold /\ RemindHolds /\ RepeatsHold
-----------------------------------------------------------------------------
LEMMA MailBounds ==
  /\ MaxMails \in Nat /\ MaxMails > 0 /\ MailAttempts \in Nat /\ MailAttempts > 0
  /\ MaxCrashes \in Nat /\ Blank \notin People /\ NoAddress \notin People /\ NoAddress # Blank
  /\ \A g \in MailGrants : OwnerOf[g] \in People
  BY MailAssumption

LEMMA RowFieldTypes ==
  ASSUME NEW r \in MailRow
  PROVE  /\ r.status \in {"absent", "pending", "sent", "failed"}
         /\ r.to \in People \cup {Blank, NoAddress} /\ r.attempts \in 0..MailAttempts
         /\ r.due \in BOOLEAN /\ r.mark \in {"none", "late", "flown"}
  BY DEF MailRow

LEMMA ClaimFieldTypes ==
  ASSUME NEW k \in MailClaim
  PROVE  /\ k.m \in Mails /\ k.to \in People \cup {Blank} /\ k.attempts \in 0..MailAttempts
         /\ k.gone \subseteq People
  BY DEF MailClaim

LEMMA ReminderFieldTypes ==
  ASSUME ReminderTypes, NEW g \in MailGrants, NEW kind \in ReminderKinds
  PROVE  /\ reminder[g] \in ReminderRow /\ reminder[g].queued[kind] \in 0..MaxMails
         /\ reminder[g].stamp[kind] \in BOOLEAN
         /\ crashes \in Nat /\ remind.held \subseteq MailGrants
  BY MailBounds DEF ReminderTypes, ReminderRow, RunType

(* The number of a new row is the next one.                                *)
LEMMA NextRowIsNext ==
  ASSUME NEW n \in 0..MaxMails, Filled(n)
  PROVE  NextRow = n + 1
  <1>1. Enqueued = 1..n
    BY MailBounds DEF Enqueued, Filled, Mails
  <1>2. Cardinality(1..n) = n
    BY FS_Interval
  <1> QED
    BY <1>1, <1>2 DEF NextRow

LEMMA MailStart == MailInit => MailInv
  <1> SUFFICES ASSUME MailInit PROVE MailInv
    OBVIOUS
  <1>1. Absent \in MailRow /\ Absent.status = "absent"
    BY MailBounds DEF Absent, MailRow
  <1>2. OutboxTypes
    BY <1>1 DEF MailInit, OutboxTypes, NoDrain, DrainType
  <1>3. ReminderTypes
    BY MailBounds DEF MailInit, ReminderTypes, ReminderRow, NoRun, RunType
  <1>4. RowsHold /\ ClaimsHold
    BY <1>1 DEF MailInit, RowsHold, ClaimsHold, Claims, NoDrain
  <1>5. \A g \in MailGrants, kind \in ReminderKinds :
            reminder[g].queued[kind] = 0 /\ reminder[g].stamp[kind] = FALSE
    BY DEF MailInit
  <1>6. CountsHold
    <2>1. Filled(0)
      BY <1>1, MailBounds DEF MailInit, Filled, Mails
    <2> QED
      BY <1>5, <2>1, MailBounds DEF CountsHold
  <1>7. RemindHolds
    BY <1>5 DEF MailInit, RemindHolds, NoRun
  <1>8. RepeatsHold
    <2>1. Repeated = {}
      BY <1>5 DEF Repeated, Loose
    <2>2. crashes = 0
      BY DEF MailInit
    <2> QED
      BY <1>5, <2>1, <2>2, FS_EmptySet DEF RepeatsHold, Loose
  <1> QED
    BY <1>2, <1>3, <1>4, <1>6, <1>7, <1>8 DEF MailInv
-----------------------------------------------------------------------------
(* The outbox.                                                             *)
LEMMA OutboxMoves ==
  ASSUME MailInv, UNCHANGED <<reminder, remind, crashes>>, OutboxTypes', RowsHold', ClaimsHold',
         \A m \in Mails : mail'[m].status = "absent" <=> mail[m].status = "absent"
  PROVE  MailInv'
  <1>0. ReminderTypes /\ CountsHold /\ RemindHolds /\ RepeatsHold
    BY DEF MailInv
  <1>1. ReminderTypes'
    BY <1>0 DEF ReminderTypes
  <1>2. CountsHold'
    BY <1>0 DEF CountsHold, Filled
  <1>3. RemindHolds'
    BY <1>0 DEF RemindHolds
  <1>4. RepeatsHold'
    BY <1>0 DEF RepeatsHold, Repeated, Loose
  <1> QED
    BY <1>1, <1>2, <1>3, <1>4 DEF MailInv

(* A new row, by whoever writes it.                                        *)
LEMMA EnqueueKeeps ==
  ASSUME MailInv, NEW to \in People, EnqueueEmail(to), UNCHANGED <<purged, drain>>,
         desk' \subseteq desk, NEW n \in 0..MaxMails, Filled(n)
  PROVE  /\ OutboxTypes' /\ RowsHold' /\ ClaimsHold'
         /\ n + 1 \in 0..MaxMails /\ Filled(n + 1)'
  <1>0. OutboxTypes /\ RowsHold /\ ClaimsHold
    BY DEF MailInv
  <1> DEFINE q == Queued(to)
  <1>1. q \in MailRow /\ q.status = "pending" /\ q.to = to /\ q.attempts = 0
        /\ (to \in purged => q.mark = "late")
    BY MailBounds DEF Queued, MailRow
  <1>2. n + 1 \in Mails /\ mail' = [mail EXCEPT ![n + 1] = q]
    BY NextRowIsNext DEF EnqueueEmail
  <1> HIDE DEF q
  <1>3. mail[n + 1].status = "absent"
    BY <1>2 DEF Filled
  <1>4. mail'[n + 1] = q /\ \A m \in Mails \ {n + 1} : mail'[m] = mail[m]
    BY <1>0, <1>2 DEF OutboxTypes
  <1>5. OutboxTypes'
    BY <1>0, <1>1, <1>2 DEF OutboxTypes
  <1>6. RowsHold'
    BY <1>0, <1>1, <1>4, MailBounds DEF RowsHold
  <1>7. \A k \in Claims : k.m \in Mails /\ k.m # n + 1
    BY <1>0, <1>3 DEF OutboxTypes, DrainType, Claims, ClaimsHold, MailClaim
  <1>8. ClaimsHold'
    BY <1>0, <1>4, <1>7 DEF ClaimsHold, Claims
  <1>9. n + 1 \in 0..MaxMails
    BY <1>2, MailBounds DEF Mails
  <1>10. Filled(n + 1)'
    <2>1. \A m \in Mails : m <= n + 1 <=> (m <= n \/ m = n + 1)
      BY DEF Mails
    <2> QED
      BY <1>1, <1>4, <1>9, <2>1 DEF Filled
  <1> QED
    BY <1>5, <1>6, <1>8, <1>9, <1>10

LEMMA QueueLetterKeeps ==
  ASSUME MailInv, NEW p \in People, QueueLetter(p) PROVE MailInv'
  <1>0. OutboxTypes /\ ReminderTypes /\ CountsHold /\ RemindHolds /\ RepeatsHold
    BY DEF MailInv
  <1>1. PICK n \in 0..MaxMails :
            /\ Filled(n)
            /\ \A g \in MailGrants, kind \in ReminderKinds : reminder[g].queued[kind] <= n
    BY <1>0 DEF CountsHold
  <1>2. /\ OutboxTypes' /\ RowsHold' /\ ClaimsHold'
        /\ n + 1 \in 0..MaxMails /\ Filled(n + 1)'
    BY <1>1, EnqueueKeeps DEF QueueLetter
  <1>3. UNCHANGED <<reminder, remind, crashes>>
    BY DEF QueueLetter
  <1>4. \A g \in MailGrants, kind \in ReminderKinds : reminder'[g].queued[kind] <= n + 1
    BY <1>0, <1>1, <1>3, ReminderFieldTypes
  <1>5. CountsHold'
    BY <1>2, <1>4 DEF CountsHold
  <1>6. ReminderTypes' /\ RemindHolds' /\ RepeatsHold'
    BY <1>0, <1>3 DEF ReminderTypes, RemindHolds, RepeatsHold, Repeated, Loose
  <1> QED
    BY <1>2, <1>5, <1>6 DEF MailInv

LEMMA ReadAddressKeeps ==
  ASSUME MailInv, NEW p \in People, ReadAddress(p) PROVE MailInv'
  <1>1. OutboxTypes' /\ RowsHold' /\ ClaimsHold'
    BY DEF MailInv, OutboxTypes, RowsHold, ClaimsHold, Claims, ReadAddress
  <1> QED
    BY <1>1, OutboxMoves DEF ReadAddress

LEMMA DrainClaimKeeps == ASSUME MailInv, DrainClaim PROVE MailInv'
  <1>0. OutboxTypes /\ RowsHold
    BY DEF MailInv
  <1>1. PICK S \in SUBSET {m \in Mails : mail[m].status = "pending" /\ mail[m].due} :
           /\ mail' = [m \in Mails |-> IF m \in S THEN [mail[m] EXCEPT !.due = FALSE] ELSE mail[m]]
           /\ drain' = [drain EXCEPT !.batch =
                 {[m |-> m, to |-> mail[m].to, attempts |-> mail[m].attempts, gone |-> purged] :
                     m \in S}]
    BY DEF DrainClaim
  <1> DEFINE B == {[m |-> m, to |-> mail[m].to, attempts |-> mail[m].attempts, gone |-> purged] :
                     m \in S}
  <1>2. drain = NoDrain /\ UNCHANGED <<purged, desk, reminder, remind, crashes>>
    BY DEF DrainClaim
  <1>3. S \subseteq Mails /\ \A m \in S : mail[m].status = "pending"
    OBVIOUS
  <1>4. \A m \in Mails : /\ mail[m] \in MailRow /\ mail'[m] \in MailRow
                         /\ mail'[m].status = mail[m].status /\ mail'[m].to = mail[m].to
                         /\ mail'[m].attempts = mail[m].attempts /\ mail'[m].mark = mail[m].mark
    BY <1>0, <1>1 DEF OutboxTypes, MailRow
  <1>5. mail' \in [Mails -> MailRow]
    BY <1>1, <1>4
  <1>6. \A m \in S : mail[m].to \in People \cup {Blank}
    BY <1>0, <1>3, <1>4, RowFieldTypes DEF RowsHold
  <1>7. B \subseteq MailClaim
    BY <1>0, <1>3, <1>4, <1>6, RowFieldTypes DEF MailClaim, OutboxTypes
  <1>8. drain' \in DrainType /\ Claims' = B /\ drain'.held = {}
    BY <1>1, <1>2, <1>7 DEF NoDrain, DrainType, Claims
  <1>9. \A k \in B : k.m \in S /\ k.to = mail[k.m].to /\ k.attempts = mail[k.m].attempts
                     /\ k.gone = purged
    OBVIOUS
  <1>10. \A k, l \in B : k.m = l.m => k = l
    OBVIOUS
  <1> HIDE DEF B
  <1>11. OutboxTypes'
    BY <1>0, <1>2, <1>5, <1>8 DEF OutboxTypes
  <1>12. RowsHold'
    BY <1>0, <1>2, <1>4 DEF RowsHold
  <1>13. ASSUME NEW k \in B
         PROVE  /\ mail'[k.m].status = "pending" /\ mail'[k.m].to = k.to
                /\ mail'[k.m].attempts = k.attempts /\ k.attempts < MailAttempts
                /\ k.gone \subseteq purged'
                /\ k.to \in k.gone => mail'[k.m].mark = "late"
                /\ k.to = Blank => mail'[k.m].mark = "flown"
    BY <1>0, <1>2, <1>3, <1>4, <1>9 DEF RowsHold
  <1>14. ClaimsHold'
    BY <1>8, <1>10, <1>13 DEF ClaimsHold
  <1> QED
    BY <1>2, <1>4, <1>11, <1>12, <1>14, OutboxMoves

LEMMA HandOverKeeps ==
  ASSUME MailInv, NEW k \in drain.batch, NEW answer \in {"sent", "failed"}, HandOver(k, answer)
  PROVE  MailInv'
  <1>0. OutboxTypes /\ RowsHold /\ ClaimsHold
    BY DEF MailInv
  <1>1. drain' \in DrainType /\ Claims' = Claims /\ drain'.batch \cap drain'.held = {}
    BY <1>0 DEF HandOver, OutboxTypes, DrainType, Claims
  <1>2. UNCHANGED <<mail, purged, desk, reminder, remind, crashes>>
    BY DEF HandOver
  <1>3. OutboxTypes' /\ RowsHold' /\ ClaimsHold'
    BY <1>0, <1>1, <1>2 DEF OutboxTypes, RowsHold, ClaimsHold
  <1> QED
    BY <1>2, <1>3, OutboxMoves

LEMMA RecordMailKeeps ==
  ASSUME MailInv, NEW k \in drain.held, RecordMail(k) PROVE MailInv'
  <1>0. OutboxTypes /\ RowsHold /\ ClaimsHold
    BY DEF MailInv
  <1>1. k \in Claims /\ k \in MailClaim /\ k.m \in Mails /\ mail[k.m] \in MailRow
        /\ k.attempts \in Nat
    BY <1>0, MailBounds DEF OutboxTypes, DrainType, Claims, MailClaim
  <1>2. mail[k.m].attempts = k.attempts /\ k.attempts < MailAttempts
        /\ \/ mail[k.m].status = "pending"
           \/ mail[k.m].status = "failed" /\ mail[k.m].to = Blank /\ mail[k.m].mark = "flown"
    BY <1>0, <1>1 DEF ClaimsHold
  <1>3. PICK row \in MailRow :
            /\ mail' = [mail EXCEPT ![k.m] = row]
            /\ row.to = mail[k.m].to /\ row.mark = mail[k.m].mark
            /\ row.status # "absent"
            /\ row.status = "pending" => row.attempts < MailAttempts
    <2>1. CASE drain.answer = "sent"
      <3> DEFINE next == mail[k.m].attempts + 1
                 row == [mail[k.m] EXCEPT !.status = "sent", !.attempts = next]
      <3>0. next \in 0..MailAttempts
        BY <1>1, <1>2, MailBounds
      <3>2. mail' = [mail EXCEPT ![k.m] = row]
        BY <1>0, <1>1, <2>1 DEF RecordMail, OutboxTypes
      <3> HIDE DEF next
      <3>1. row \in MailRow /\ row.to = mail[k.m].to /\ row.mark = mail[k.m].mark
            /\ row.status = "sent"
        BY <1>1, <3>0 DEF MailRow
      <3> HIDE DEF row
      <3> QED
        BY <3>1, <3>2
    <2>2. CASE drain.answer # "sent"
      <3> DEFINE st == IF Spent(k) >= MailAttempts THEN "failed" ELSE "pending"
                 row == [mail[k.m] EXCEPT !.attempts = Spent(k), !.status = st]
      <3>1. Spent(k) \in 0..MailAttempts /\ st \in {"failed", "pending"}
            /\ (st = "pending" => Spent(k) < MailAttempts)
        BY <1>1, <1>2, MailBounds DEF Spent
      <3>2. mail' = [mail EXCEPT ![k.m] = row]
        BY <1>0, <1>1, <2>2 DEF RecordMail, OutboxTypes
      <3> HIDE DEF st
      <3>3. row \in MailRow /\ row.to = mail[k.m].to /\ row.mark = mail[k.m].mark
            /\ row.status = st /\ row.attempts = Spent(k)
        BY <1>1, <3>1 DEF MailRow
      <3> HIDE DEF row
      <3> QED
        BY <3>1, <3>2, <3>3
    <2> QED
      BY <2>1, <2>2
  <1>4. mail'[k.m] = row /\ \A m \in Mails \ {k.m} : mail'[m] = mail[m]
    BY <1>0, <1>1, <1>3 DEF OutboxTypes
  <1>5. UNCHANGED <<purged, desk, reminder, remind, crashes>>
    BY DEF RecordMail
  <1>6. drain' \in DrainType /\ Claims' = drain.batch /\ drain'.held = {}
    BY <1>0 DEF RecordMail, OutboxTypes, DrainType, Claims
  <1>7. OutboxTypes'
    BY <1>0, <1>3, <1>5, <1>6 DEF OutboxTypes
  <1>8. RowsHold'
    <2>1. mail[k.m].to # NoAddress /\ (mail[k.m].to \in purged => mail[k.m].mark = "late")
          /\ (mail[k.m].to = Blank => mail[k.m].mark = "flown")
      BY <1>0, <1>1, <1>2, MailBounds DEF RowsHold, OutboxTypes
    <2> QED
      BY <1>0, <1>3, <1>4, <1>5, <2>1 DEF RowsHold
  <1>9. ClaimsHold'
    <2>1. \A l \in Claims' : l \in Claims /\ l # k /\ l.m \in Mails
      BY <1>0, <1>6 DEF ClaimsHold, OutboxTypes, DrainType, Claims, MailClaim
    <2>2. \A l \in Claims' : l.m # k.m
      BY <1>0, <1>1, <2>1 DEF ClaimsHold
    <2> QED
      BY <1>0, <1>4, <1>5, <1>6, <2>1, <2>2 DEF ClaimsHold
  <1> QED
    BY <1>2, <1>3, <1>4, <1>5, <1>7, <1>8, <1>9, OutboxMoves

LEMMA BackoffEndsKeeps ==
  ASSUME MailInv, NEW m \in Mails, BackoffEnds(m) PROVE MailInv'
  <1>0. OutboxTypes /\ RowsHold /\ ClaimsHold
    BY DEF MailInv
  <1>1. mail' = [mail EXCEPT ![m].due = TRUE]
        /\ UNCHANGED <<purged, desk, drain, reminder, remind, crashes>>
    BY DEF BackoffEnds
  <1>2. \A r \in Mails : /\ mail'[r] \in MailRow
                         /\ mail'[r].status = mail[r].status /\ mail'[r].to = mail[r].to
                         /\ mail'[r].attempts = mail[r].attempts /\ mail'[r].mark = mail[r].mark
    BY <1>0, <1>1 DEF OutboxTypes, MailRow
  <1>3. OutboxTypes'
    BY <1>0, <1>1, <1>2 DEF OutboxTypes
  <1>4. RowsHold'
    BY <1>0, <1>1, <1>2 DEF RowsHold
  <1>5. \A k \in Claims : k.m \in Mails
    BY <1>0 DEF OutboxTypes, DrainType, Claims, MailClaim
  <1>6. ClaimsHold'
    BY <1>0, <1>1, <1>2, <1>5 DEF ClaimsHold, Claims
  <1> QED
    BY <1>1, <1>2, <1>3, <1>4, <1>6, OutboxMoves

LEMMA RedactKeeps == ASSUME MailInv, RedactDeliveredMail PROVE MailInv'
  <1>0. OutboxTypes /\ RowsHold /\ ClaimsHold
    BY DEF MailInv
  <1>1. mail' = [m \in Mails |-> IF mail[m].status \in {"sent", "failed"}
                                 THEN [mail[m] EXCEPT !.to = Blank] ELSE mail[m]]
        /\ UNCHANGED <<purged, desk, drain, reminder, remind, crashes>>
    BY DEF RedactDeliveredMail
  <1>2. \A r \in Mails : /\ mail'[r] \in MailRow
                         /\ mail'[r].status = mail[r].status
                         /\ mail'[r].attempts = mail[r].attempts /\ mail'[r].mark = mail[r].mark
                         /\ mail'[r].to = IF mail[r].status \in {"sent", "failed"}
                                          THEN Blank ELSE mail[r].to
    BY <1>0, <1>1 DEF OutboxTypes, MailRow
  <1>3. OutboxTypes'
    BY <1>0, <1>1, <1>2 DEF OutboxTypes
  <1>4. RowsHold'
    BY <1>0, <1>1, <1>2 DEF RowsHold
  <1>5. \A k \in Claims : k.m \in Mails
    BY <1>0 DEF OutboxTypes, DrainType, Claims, MailClaim
  <1>6. ClaimsHold'
    BY <1>0, <1>1, <1>2, <1>5 DEF ClaimsHold, Claims
  <1> QED
    BY <1>1, <1>2, <1>3, <1>4, <1>6, OutboxMoves

(* An erasure: what waits for the person fails, what is in flight is       *)
(* marked as such.                                                         *)
LEMMA PurgeRequesterKeeps ==
  ASSUME MailInv, NEW p \in People, PurgeRequester(p) PROVE MailInv'
  <1>0. OutboxTypes /\ RowsHold /\ ClaimsHold
    BY DEF MailInv
  <1>1. /\ p \notin purged /\ purged' = purged \cup {p} /\ p # Blank
        /\ mail' = [m \in Mails |->
              [Erased(mail[m], p) EXCEPT !.mark =
                  IF mail[m].to = p /\ m \in InFlight THEN "flown" ELSE @]]
        /\ UNCHANGED <<desk, drain, reminder, remind, crashes>>
    BY MailBounds DEF PurgeRequester
  <1>2. ASSUME NEW m \in Mails
        PROVE  /\ mail'[m] \in MailRow /\ mail'[m].attempts = mail[m].attempts
               /\ mail'[m].status = IF mail[m].to = p /\ mail[m].status = "pending"
                                    THEN "failed" ELSE mail[m].status
               /\ mail'[m].to = IF mail[m].to = p THEN Blank ELSE mail[m].to
               /\ mail'[m].mark = IF mail[m].to = p /\ m \in InFlight
                                  THEN "flown" ELSE mail[m].mark
    <2>1. mail[m] \in MailRow
      BY <1>0 DEF OutboxTypes
    <2>2. Failed(mail[m], p) \in MailRow /\ Failed(mail[m], p).to = mail[m].to
          /\ Failed(mail[m], p).attempts = mail[m].attempts
          /\ Failed(mail[m], p).mark = mail[m].mark
          /\ Failed(mail[m], p).status = IF mail[m].to = p /\ mail[m].status = "pending"
                                         THEN "failed" ELSE mail[m].status
      BY <2>1 DEF Failed, MailRow
    <2>3. Erased(mail[m], p) \in MailRow
          /\ Erased(mail[m], p).attempts = mail[m].attempts
          /\ Erased(mail[m], p).mark = mail[m].mark
          /\ Erased(mail[m], p).status = Failed(mail[m], p).status
          /\ Erased(mail[m], p).to = IF mail[m].to = p THEN Blank ELSE mail[m].to
      BY <2>2 DEF Erased, Blanked, MailRow
    <2> DEFINE e == Erased(mail[m], p)
               mark == IF mail[m].to = p /\ m \in InFlight THEN "flown" ELSE e.mark
    <2>4. mail'[m] = [e EXCEPT !.mark = mark]
      BY <1>1
    <2>5. mark \in {"none", "late", "flown"}
      BY <2>1, <2>3, RowFieldTypes
    <2> QED
      BY <2>2, <2>3, <2>4, <2>5 DEF MailRow
  <1>3. mail' \in [Mails -> MailRow]
    BY <1>1, <1>2
  <1>4. OutboxTypes'
    BY <1>0, <1>1, <1>3 DEF OutboxTypes
  <1>5. RowsHold'
    <2> SUFFICES ASSUME NEW m \in Mails, mail'[m].status = "pending"
                 PROVE  /\ mail'[m].attempts < MailAttempts /\ mail'[m].to # NoAddress
                        /\ mail'[m].to \in purged' => mail'[m].mark = "late"
                        /\ mail'[m].to = Blank => mail'[m].mark = "flown"
      BY DEF RowsHold
    <2>1. mail[m].to # p /\ mail[m].status = "pending" /\ mail'[m].to = mail[m].to
          /\ mail'[m].mark = mail[m].mark
      BY <1>2
    <2> QED
      BY <1>0, <1>1, <1>2, <2>1 DEF RowsHold
  <1>6. ASSUME NEW k \in Claims
        PROVE  /\ \/ mail'[k.m].status = "pending" /\ mail'[k.m].to = k.to
                  \/ mail'[k.m].status = "failed" /\ mail'[k.m].to = Blank
                     /\ mail'[k.m].mark = "flown"
               /\ mail'[k.m].attempts = k.attempts /\ k.attempts < MailAttempts
               /\ k.gone \subseteq purged'
               /\ k.to \in k.gone => mail'[k.m].mark = "late"
               /\ k.to = Blank => mail'[k.m].mark = "flown"
    <2>1. k.m \in Mails /\ k.m \in InFlight
      BY <1>0 DEF OutboxTypes, DrainType, Claims, MailClaim, InFlight
    <2>2. /\ mail'[k.m].attempts = mail[k.m].attempts
          /\ mail'[k.m].status = IF mail[k.m].to = p /\ mail[k.m].status = "pending"
                                 THEN "failed" ELSE mail[k.m].status
          /\ mail'[k.m].to = IF mail[k.m].to = p THEN Blank ELSE mail[k.m].to
          /\ mail'[k.m].mark = IF mail[k.m].to = p THEN "flown" ELSE mail[k.m].mark
      BY <1>2, <2>1
    <2>3. /\ \/ mail[k.m].status = "pending" /\ mail[k.m].to = k.to
             \/ mail[k.m].status = "failed" /\ mail[k.m].to = Blank
                /\ mail[k.m].mark = "flown"
          /\ mail[k.m].attempts = k.attempts /\ k.attempts < MailAttempts
          /\ k.gone \subseteq purged
          /\ k.to \in k.gone => mail[k.m].mark = "late"
          /\ k.to = Blank => mail[k.m].mark = "flown"
      BY <1>0 DEF ClaimsHold
    <2>4. k.gone \subseteq purged' /\ p \notin k.gone /\ p # Blank
      BY <1>1, <2>3
    <2>5. CASE mail[k.m].to = p
      <3>1. mail[k.m].status = "pending" /\ k.to = p
        BY <2>3, <2>4, <2>5
      <3>2. mail'[k.m].status = "failed" /\ mail'[k.m].to = Blank /\ mail'[k.m].mark = "flown"
        BY <2>2, <2>5, <3>1
      <3> QED
        BY <2>2, <2>3, <2>4, <3>1, <3>2
    <2>6. CASE mail[k.m].to # p
      <3>1. mail'[k.m].status = mail[k.m].status /\ mail'[k.m].to = mail[k.m].to
            /\ mail'[k.m].mark = mail[k.m].mark
        BY <2>2, <2>6
      <3> QED
        BY <2>2, <2>3, <2>4, <3>1
    <2> QED
      BY <2>5, <2>6
  <1>7. ClaimsHold'
    BY <1>0, <1>1, <1>6 DEF ClaimsHold, Claims
  <1>8. \A m \in Mails : mail'[m].status = "absent" <=> mail[m].status = "absent"
    BY <1>2
  <1> QED
    BY <1>1, <1>4, <1>5, <1>7, <1>8, OutboxMoves
-----------------------------------------------------------------------------
(* The reminders.                                                          *)
LEMMA RemindMoves ==
  ASSUME MailInv, UNCHANGED <<mail, purged, drain>>, desk' \subseteq desk,
         ReminderTypes', RemindHolds', RepeatsHold',
         \A g \in MailGrants, kind \in ReminderKinds :
             reminder'[g].queued[kind] = reminder[g].queued[kind]
  PROVE  MailInv'
  <1>1. OutboxTypes' /\ RowsHold' /\ ClaimsHold'
    BY DEF MailInv, OutboxTypes, RowsHold, ClaimsHold, Claims
  <1>2. CountsHold'
    BY DEF MailInv, CountsHold, Filled
  <1> QED
    BY <1>1, <1>2 DEF MailInv

(* A run reads what is due, and nothing is held meanwhile.                 *)
LEMMA ReadDueKeeps ==
  ASSUME MailInv, NEW kind \in ReminderKinds, ReadDue(kind), remind.held = {},
         UNCHANGED <<mail, purged, desk, drain, reminder, crashes>>
  PROVE  MailInv'
  <1>0. ReminderTypes /\ RemindHolds /\ RepeatsHold
    BY DEF MailInv
  <1>1. PICK S \in SUBSET {g \in MailGrants : Due(g, kind)} :
            remind' = [pc |-> kind, due |-> S, held |-> {}]
    BY DEF ReadDue
  <1>2. remind' \in RunType /\ remind'.pc = kind /\ remind'.due = S /\ remind'.held = {}
        /\ kind # "idle"
    BY <1>1 DEF RunType, ReminderKinds
  <1>3. ReminderTypes'
    BY <1>0, <1>2 DEF ReminderTypes
  <1>4. RemindHolds'
    BY <1>0, <1>2 DEF RemindHolds, Due
  <1>5. Repeated' = Repeated /\ \A g \in MailGrants, k \in ReminderKinds : Loose(g, k)' = Loose(g, k)
    BY <1>2 DEF Repeated, Loose
  <1>6. RepeatsHold'
    BY <1>0, <1>5 DEF RepeatsHold
  <1> QED
    BY <1>3, <1>4, <1>6, RemindMoves

(* A grant's phase is nobody's business here.                              *)
LEMMA PhasesMove ==
  ASSUME MailInv, UNCHANGED <<mail, purged, desk, drain, crashes>>,
         reminder' \in [MailGrants -> ReminderRow],
         \A g \in MailGrants : /\ reminder'[g].queued = reminder[g].queued
                               /\ reminder'[g].stamp = reminder[g].stamp,
         remind' = remind \/ (remind.held = {} /\ remind' = NoRun)
  PROVE  MailInv'
  <1>0. ReminderTypes /\ RemindHolds /\ RepeatsHold
    BY DEF MailInv
  <1>1. NoRun \in RunType /\ NoRun.held = {} /\ NoRun.due = {} /\ NoRun.pc = "idle"
    BY DEF NoRun, RunType
  <1>2. ReminderTypes'
    BY <1>0, <1>1 DEF ReminderTypes
  <1>3. RemindHolds'
    <2>1. \A g \in MailGrants, kind \in ReminderKinds :
              reminder'[g].stamp[kind] => reminder'[g].queued[kind] > 0
      BY <1>0 DEF RemindHolds
    <2>2. CASE remind' = remind
      BY <1>0, <2>1, <2>2 DEF RemindHolds, ReminderTypes, RunType
    <2>3. CASE remind.held = {} /\ remind' = NoRun
      BY <1>1, <2>1, <2>3 DEF RemindHolds
    <2> QED
      BY <2>2, <2>3
  <1>4. Repeated' = Repeated /\ \A g \in MailGrants, k \in ReminderKinds : Loose(g, k)' = Loose(g, k)
    BY <1>1 DEF Repeated, Loose
  <1>5. RepeatsHold'
    BY <1>0, <1>4 DEF RepeatsHold
  <1> QED
    BY <1>2, <1>3, <1>5, RemindMoves

LEMMA CloseUnacceptedKeeps == ASSUME MailInv, CloseUnaccepted PROVE MailInv'
  <1>0. ReminderTypes
    BY DEF MailInv
  <1>1. PICK S \in SUBSET MailGrants :
            reminder' = [g \in MailGrants |->
               IF g \in S THEN [reminder[g] EXCEPT !.phase = "closed"] ELSE reminder[g]]
    BY DEF CloseUnaccepted
  <1>2. \A g \in MailGrants : /\ reminder'[g] \in ReminderRow
                              /\ reminder'[g].queued = reminder[g].queued
                              /\ reminder'[g].stamp = reminder[g].stamp
    BY <1>0, <1>1 DEF ReminderTypes, ReminderRow
  <1> QED
    BY <1>1, <1>2, PhasesMove DEF CloseUnaccepted

LEMMA PhaseStepKeeps ==
  ASSUME MailInv, NEW g \in MailGrants, GrantMoves(g) \/ GrantEnds(g) PROVE MailInv'
  <1>0. ReminderTypes
    BY DEF MailInv
  <1>1. PICK phase \in {"live", "over"} : reminder' = [reminder EXCEPT ![g].phase = phase]
    BY DEF GrantMoves, GrantEnds
  <1>2. reminder' \in [MailGrants -> ReminderRow]
        /\ \A h \in MailGrants : /\ reminder'[h].queued = reminder[h].queued
                                 /\ reminder'[h].stamp = reminder[h].stamp
    BY <1>0, <1>1 DEF ReminderTypes, ReminderRow
  <1> QED
    BY <1>2, PhasesMove DEF GrantMoves, GrantEnds

(* A reminder is queued.  If it had been queued before, it was loose, and  *)
(* now it is one that was repeated: no new one.                            *)
LEMMA QueueReminderKeeps ==
  ASSUME MailInv, NEW g \in MailGrants, QueueReminder(g) PROVE MailInv'
  <1>0. OutboxTypes /\ ReminderTypes /\ CountsHold /\ RemindHolds /\ RepeatsHold
    BY DEF MailInv
  <1>1. PICK n \in 0..MaxMails :
            /\ Filled(n)
            /\ \A h \in MailGrants, kind \in ReminderKinds : reminder[h].queued[kind] <= n
    BY <1>0 DEF CountsHold
  <1>2. /\ OutboxTypes' /\ RowsHold' /\ ClaimsHold'
        /\ n + 1 \in 0..MaxMails /\ Filled(n + 1)'
    BY <1>1, EnqueueKeeps, MailBounds DEF QueueReminder
  <1>3. PICK pc \in ReminderKinds : pc = remind.pc
    BY <1>0 DEF QueueReminder, RemindHolds, ReminderTypes, RunType
  <1>4. g \in remind.due /\ remind.held = {} /\ ~reminder[g].stamp[pc] /\ crashes' = crashes
    BY <1>0, <1>3 DEF QueueReminder, RemindHolds
  <1> DEFINE old == reminder[g].queued[pc]
             row == [reminder[g] EXCEPT !.queued[pc] = old + 1]
  <1>5. old \in 0..MaxMails /\ old <= n /\ old + 1 \in 0..MaxMails /\ crashes \in Nat
    BY <1>0, <1>1, <1>2, ReminderFieldTypes, MailBounds
  <1>6. reminder' = [reminder EXCEPT ![g] = row]
    BY <1>0, <1>3 DEF QueueReminder, ReminderTypes
  <1>7. row \in ReminderRow /\ row.stamp = reminder[g].stamp /\ row.queued[pc] = old + 1
        /\ \A kind \in ReminderKinds \ {pc} : row.queued[kind] = reminder[g].queued[kind]
    <2> HIDE DEF old
    <2> QED
      BY <1>0, <1>5 DEF ReminderTypes, ReminderRow
  <1> HIDE DEF row
  <1>8. \A h \in MailGrants, kind \in ReminderKinds :
            /\ reminder'[h].stamp[kind] = reminder[h].stamp[kind]
            /\ ~(h = g /\ kind = pc) => reminder'[h].queued[kind] = reminder[h].queued[kind]
    BY <1>0, <1>6, <1>7 DEF ReminderTypes
  <1>9. reminder'[g].queued[pc] = old + 1
    BY <1>0, <1>6, <1>7 DEF ReminderTypes
  <1>10. remind' = [remind EXCEPT !.due = remind.due \ {g}, !.held = {g}]
    BY DEF QueueReminder
  <1>11. remind' \in RunType /\ remind'.pc = pc /\ remind'.due = remind.due \ {g}
         /\ remind'.held = {g}
    BY <1>0, <1>3, <1>10 DEF ReminderTypes, RunType
  <1>12. ReminderTypes'
    BY <1>0, <1>4, <1>6, <1>7, <1>11 DEF ReminderTypes
  <1>13. CountsHold'
    <2>1. \A h \in MailGrants, kind \in ReminderKinds : reminder'[h].queued[kind] <= n + 1
      BY <1>0, <1>1, <1>5, <1>8, <1>9, ReminderFieldTypes
    <2> QED
      BY <1>2, <2>1 DEF CountsHold
  <1>14. RemindHolds'
    <2>1. remind'.pc # "idle"
      BY <1>11 DEF ReminderKinds
    <2>2. \A h \in remind'.due : h \notin remind'.held /\ ~reminder'[h].stamp[remind'.pc]
      BY <1>0, <1>3, <1>8, <1>11 DEF RemindHolds, ReminderTypes, RunType
    <2>3. \A h \in MailGrants, kind \in ReminderKinds :
              reminder'[h].stamp[kind] => reminder'[h].queued[kind] > 0
      BY <1>0, <1>4, <1>8 DEF RemindHolds
    <2>4. reminder'[g].queued[pc] > 0
      BY <1>5, <1>9
    <2> QED
      BY <1>11, <2>1, <2>2, <2>3, <2>4 DEF RemindHolds
  <1>15. old > 0 => Loose(g, pc)
    BY <1>4 DEF Loose
  <1>16. \A h \in MailGrants, kind \in ReminderKinds :
             ~(h = g /\ kind = pc) => (Loose(h, kind)' <=> Loose(h, kind))
    BY <1>4, <1>8, <1>11 DEF Loose
  <1>17. ~Loose(g, pc)'
    BY <1>11 DEF Loose
  <1>18. Repeated' \subseteq Repeated
    <2> SUFFICES ASSUME NEW x \in Repeated' PROVE x \in Repeated
      OBVIOUS
    <2>1. x \in MailGrants \X ReminderKinds /\ x[1] \in MailGrants /\ x[2] \in ReminderKinds
          /\ (reminder'[x[1]].queued[x[2]] > 1 \/ Loose(x[1], x[2])')
      BY DEF Repeated
    <2>2. CASE x[1] = g /\ x[2] = pc
      <3>1. old > 0
        BY <1>5, <1>9, <1>17, <2>1, <2>2
      <3> QED
        BY <1>15, <2>1, <2>2, <3>1 DEF Repeated
    <2>3. CASE ~(x[1] = g /\ x[2] = pc)
      BY <1>8, <1>16, <2>1, <2>3 DEF Repeated
    <2> QED
      BY <2>2, <2>3
  <1>19. RepeatsHold'
    <2>1. IsFiniteSet(Repeated') /\ Cardinality(Repeated') <= crashes /\ Cardinality(Repeated') \in Nat
      <3>1. IsFiniteSet(Repeated) /\ Cardinality(Repeated) <= crashes
        BY <1>0 DEF RepeatsHold
      <3>2. IsFiniteSet(Repeated') /\ Cardinality(Repeated') <= Cardinality(Repeated)
        BY <1>18, <3>1, FS_Subset
      <3> QED
        BY <1>5, <3>1, <3>2, FS_CardinalityType
    <2>2. ASSUME NEW h \in MailGrants, NEW kind \in ReminderKinds
          PROVE  /\ reminder'[h].queued[kind] <= 1 + crashes
                 /\ Loose(h, kind)' => reminder'[h].queued[kind] <= crashes
      <3>1. CASE h = g /\ kind = pc
        BY <1>0, <1>5, <1>9, <1>15, <1>17, <3>1 DEF RepeatsHold
      <3>2. CASE ~(h = g /\ kind = pc)
        BY <1>0, <1>8, <1>16, <3>2 DEF RepeatsHold
      <3> QED
        BY <3>1, <3>2
    <2> QED
      BY <1>4, <2>1, <2>2 DEF RepeatsHold
  <1> QED
    BY <1>2, <1>12, <1>13, <1>14, <1>19 DEF MailInv

LEMMA StampReminderKeeps ==
  ASSUME MailInv, NEW g \in MailGrants, StampReminder(g) PROVE MailInv'
  <1>0. ReminderTypes /\ RemindHolds /\ RepeatsHold
    BY DEF MailInv
  <1>1. PICK pc \in ReminderKinds : pc = remind.pc
    BY <1>0 DEF StampReminder, RemindHolds, ReminderTypes, RunType
  <1>2. g \in remind.held /\ (\A h \in remind.held : h = g) /\ reminder[g].queued[pc] > 0
        /\ g \notin remind.due
    BY <1>0, <1>1 DEF StampReminder, RemindHolds
  <1> DEFINE row == [reminder[g] EXCEPT !.stamp[pc] = TRUE]
  <1>3. reminder' = [reminder EXCEPT ![g] = row]
    BY <1>0, <1>1 DEF StampReminder, StampColumn, ReminderTypes
  <1>4. row \in ReminderRow /\ row.queued = reminder[g].queued /\ row.stamp[pc] = TRUE
        /\ \A kind \in ReminderKinds \ {pc} : row.stamp[kind] = reminder[g].stamp[kind]
    BY <1>0 DEF ReminderTypes, ReminderRow
  <1> HIDE DEF row
  <1>5. \A h \in MailGrants, kind \in ReminderKinds :
            /\ reminder'[h].queued[kind] = reminder[h].queued[kind]
            /\ ~(h = g /\ kind = pc) => reminder'[h].stamp[kind] = reminder[h].stamp[kind]
    BY <1>0, <1>3, <1>4 DEF ReminderTypes
  <1>6. reminder'[g].stamp[pc] = TRUE
    BY <1>0, <1>3, <1>4 DEF ReminderTypes
  <1>7. remind' \in RunType /\ remind'.pc = pc /\ remind'.due = remind.due /\ remind'.held = {}
    BY <1>0, <1>1 DEF StampReminder, ReminderTypes, RunType
  <1>8. ReminderTypes'
    BY <1>0, <1>3, <1>4, <1>7 DEF StampReminder, ReminderTypes
  <1>9. RemindHolds'
    <2>1. remind'.pc # "idle"
      BY <1>7 DEF ReminderKinds
    <2>2. \A h \in remind'.due : ~reminder'[h].stamp[remind'.pc]
      BY <1>0, <1>1, <1>2, <1>5, <1>7 DEF RemindHolds, ReminderTypes, RunType
    <2>3. \A h \in MailGrants, kind \in ReminderKinds :
              reminder'[h].stamp[kind] => reminder'[h].queued[kind] > 0
      BY <1>0, <1>2, <1>5 DEF RemindHolds
    <2> QED
      BY <1>7, <2>1, <2>2, <2>3 DEF RemindHolds
  <1>10. \A h \in MailGrants, kind \in ReminderKinds : Loose(h, kind)' => Loose(h, kind)
    BY <1>1, <1>2, <1>5, <1>6 DEF Loose
  <1>11. Repeated' \subseteq Repeated
    BY <1>5, <1>10 DEF Repeated
  <1>12. crashes' = crashes /\ crashes \in Nat
    BY <1>0, MailBounds DEF StampReminder, ReminderTypes
  <1>13. RepeatsHold'
    <2>1. IsFiniteSet(Repeated) /\ Cardinality(Repeated) <= crashes
      BY <1>0 DEF RepeatsHold
    <2>2. IsFiniteSet(Repeated') /\ Cardinality(Repeated') <= Cardinality(Repeated)
      BY <1>11, <2>1, FS_Subset
    <2>3. Cardinality(Repeated') <= crashes
      BY <1>12, <2>1, <2>2, FS_CardinalityType
    <2> QED
      BY <1>0, <1>5, <1>10, <1>12, <2>2, <2>3 DEF RepeatsHold
  <1> QED
    BY <1>5, <1>8, <1>9, <1>13, RemindMoves DEF StampReminder

(* A crash forgets the one reminder that is held.                          *)
LEMMA CrashMailKeeps == ASSUME MailInv, CrashMail PROVE MailInv'
  <1>0. OutboxTypes /\ ReminderTypes /\ RowsHold /\ CountsHold /\ RemindHolds /\ RepeatsHold
    BY DEF MailInv
  <1>1. crashes \in Nat /\ crashes' = crashes + 1 /\ crashes' \in 0..MaxCrashes
        /\ drain' = NoDrain /\ remind' = NoRun /\ desk' = {}
        /\ UNCHANGED <<mail, purged, reminder>>
    BY <1>0, MailBounds DEF CrashMail, ReminderTypes
  <1>2. OutboxTypes'
    BY <1>0, <1>1 DEF OutboxTypes, NoDrain, DrainType
  <1>3. ReminderTypes'
    BY <1>0, <1>1 DEF ReminderTypes, NoRun, RunType
  <1>4. RowsHold' /\ CountsHold'
    BY <1>0, <1>1 DEF RowsHold, CountsHold, Filled
  <1>5. ClaimsHold'
    BY <1>1 DEF ClaimsHold, Claims, NoDrain
  <1>6. RemindHolds'
    BY <1>0, <1>1 DEF RemindHolds, NoRun
  <1> DEFINE held == {x \in MailGrants \X ReminderKinds : x[1] \in remind.held /\ x[2] = remind.pc}
  <1>7. \A x, y \in held : x = y
    BY <1>0 DEF RemindHolds
  <1>8. \A g \in MailGrants, kind \in ReminderKinds :
            Loose(g, kind)' => Loose(g, kind) \/ <<g, kind>> \in held
    BY <1>1 DEF Loose
  <1>9. Repeated' \subseteq Repeated \cup held
    BY <1>1, <1>8 DEF Repeated
  <1>10. IsFiniteSet(Repeated') /\ Cardinality(Repeated') <= crashes + 1
    <2>1. IsFiniteSet(Repeated) /\ Cardinality(Repeated) <= crashes /\ Cardinality(Repeated) \in Nat
      BY <1>0, FS_CardinalityType DEF RepeatsHold
    <2>2. PICK x : held \subseteq {x}
      BY <1>7
    <2> HIDE DEF held
    <2>3. Repeated' \subseteq Repeated \cup {x}
      BY <1>9, <2>2
    <2>4. IsFiniteSet(Repeated \cup {x}) /\ Cardinality(Repeated \cup {x}) <= Cardinality(Repeated) + 1
          /\ Cardinality(Repeated \cup {x}) \in Nat
      BY <2>1, FS_AddElement, FS_CardinalityType
    <2>5. IsFiniteSet(Repeated') /\ Cardinality(Repeated') <= Cardinality(Repeated \cup {x})
      BY <2>3, <2>4, FS_Subset
    <2>6. Cardinality(Repeated') \in Nat
      BY <2>5, FS_CardinalityType
    <2> QED
      BY <1>1, <2>1, <2>4, <2>5, <2>6
  <1>11. RepeatsHold'
    <2>1. ASSUME NEW g \in MailGrants, NEW kind \in ReminderKinds
          PROVE  reminder'[g].queued[kind] <= crashes' /\ reminder'[g].queued[kind] \in Nat
      BY <1>0, <1>1, ReminderFieldTypes, MailBounds DEF RepeatsHold
    <2> QED
      BY <1>1, <1>10, <2>1 DEF RepeatsHold
  <1> QED
    BY <1>2, <1>3, <1>4, <1>5, <1>6, <1>11 DEF MailInv
-----------------------------------------------------------------------------
LEMMA MailKept == ASSUME MailInv, [MailNext]_mailVars PROVE MailInv'
  <1>1. CASE \E p \in People : ReadAddress(p) \/ QueueLetter(p) \/ PurgeRequester(p)
    BY <1>1, ReadAddressKeeps, QueueLetterKeeps, PurgeRequesterKeeps
  <1>2. CASE DrainNext
    BY <1>2, DrainClaimKeeps, HandOverKeeps, RecordMailKeeps DEF DrainNext
  <1>3. CASE \E m \in Mails : BackoffEnds(m)
    BY <1>3, BackoffEndsKeeps
  <1>4. CASE RedactDeliveredMail
    BY <1>4, RedactKeeps
  <1>5. CASE StartRemind
    <2>1. remind.held = {}
      BY <1>5 DEF StartRemind, MailInv, RemindHolds
    <2> QED
      BY <1>5, <2>1, ReadDueKeeps DEF StartRemind, ReminderKinds
  <1>6. CASE GoOn
    BY <1>6, ReadDueKeeps DEF GoOn, ReminderKinds
  <1>7. CASE CloseUnaccepted
    BY <1>7, CloseUnacceptedKeeps
  <1>8. CASE \E g \in MailGrants :
                 QueueReminder(g) \/ StampReminder(g) \/ GrantMoves(g) \/ GrantEnds(g)
    BY <1>8, QueueReminderKeeps, StampReminderKeeps, PhaseStepKeeps
  <1>9. CASE CrashMail
    BY <1>9, CrashMailKeeps
  <1>10. CASE UNCHANGED mailVars
    <2>1. OutboxTypes' /\ RowsHold' /\ ClaimsHold'
      BY <1>10 DEF MailInv, OutboxTypes, RowsHold, ClaimsHold, Claims, mailVars
    <2> QED
      BY <1>10, <2>1, OutboxMoves DEF mailVars
  <1> QED
    BY <1>1, <1>2, <1>3, <1>4, <1>5, <1>6, <1>7, <1>8, <1>9, <1>10 DEF MailNext

(* The inductive invariant of the outbox and the reminders.                *)
THEOREM MailInductive == MailSpec => []MailInv
  <1> QED
    BY MailStart, MailKept, PTL DEF MailSpec

LEMMA MailTypesFollow == MailInv => MailTypeOK
  <1> SUFFICES ASSUME MailInv PROVE MailTypeOK
    OBVIOUS
  <1>1. OutboxTypes /\ ReminderTypes
    BY DEF MailInv
  <1>2. \A g \in MailGrants : /\ reminder[g].phase \in {"inert", "live", "closed", "over"}
                              /\ reminder[g].stamp \in [ReminderKinds -> BOOLEAN]
                              /\ reminder[g].queued \in [ReminderKinds -> 0..MaxMails]
    BY <1>1 DEF ReminderTypes, ReminderRow
  <1> QED
    BY <1>1, <1>2 DEF OutboxTypes, ReminderTypes, DrainType, RunType, MailTypeOK

(* Every variable of the outbox, its drain and its reminders keeps its     *)
(* type; a row is never tried more often than MAX_ATTEMPTS (queue.ts).     *)
THEOREM MailTypes == MailSpec => []MailTypeOK
  <1> QED
    BY MailTypesFollow, MailInductive, PTL

(* PurgeIsFinal: what a drain takes up for an erased person was queued     *)
(* after the erasure by somebody who had read the address before, and what *)
(* it takes up without an address was in flight when it was erased         *)
(* (purgeRequester, redactDeliveredMail, drainOutbox).                     *)
THEOREM PurgedMailStaysPurged == MailSpec => []PurgeIsFinal
  <1>1. MailInv => PurgeIsFinal
    BY DEF MailInv, ClaimsHold, Claims, PurgeIsFinal
  <1> QED
    BY <1>1, MailInductive, PTL

(* RemindedOnce: a crash repeats at most one reminder, and the stamp of    *)
(* one kind is not set by a mail of the other (expiry.ts).                 *)
THEOREM CrashesRepeatReminders == MailSpec => []RemindedOnce
  <1>1. ASSUME MailInv PROVE RemindedOnce
    <2>0. ReminderTypes /\ RemindHolds /\ RepeatsHold
      BY <1>1 DEF MailInv
    <2> DEFINE Twice == {x \in MailGrants \X ReminderKinds : reminder[x[1]].queued[x[2]] > 1}
    <2>1. Twice \subseteq Repeated
      BY DEF Repeated
    <2>2. Cardinality(Twice) <= crashes
      <3> HIDE DEF Twice
      <3>1. IsFiniteSet(Repeated) /\ Cardinality(Repeated) <= crashes /\ crashes \in Nat
        BY <2>0, MailBounds DEF RepeatsHold, ReminderTypes
      <3>2. IsFiniteSet(Twice) /\ Cardinality(Twice) <= Cardinality(Repeated)
        BY <2>1, <3>1, FS_Subset
      <3> QED
        BY <3>1, <3>2, FS_CardinalityType
    <2> QED
      BY <2>0, <2>2 DEF RemindHolds, RepeatsHold, RemindedOnce
  <1> QED
    BY <1>1, MailInductive, PTL
-----------------------------------------------------------------------------
(* Every disjunct of SubsNext by itself.                                   *)
SubscriberStep ==
    \/ \E a \in Addresses, topics \in SUBSET Topics : Subscribe(a, topics)
    \/ \E i \in Subs : ConfirmSubscription(i)
    \/ \E i \in Subs : LinkExpires(i)
    \/ SweepUnconfirmed
    \/ \E i \in Subs, topics \in SUBSET Topics : SaveSubscription(i, topics)
    \/ \E i \in Subs : Unsubscribe(i)

PostStep ==
    \/ \E p \in Posts, date \in 0..MaxMinute : SaveMeta(p, date)
    \/ \E p \in Posts : SaveTranslations(p)
    \/ \E p \in Posts : DeleteUpdate(p)
    \/ PassMinute

NoticeStep == NotifyRead \/ NotifyCommit \/ NotifyLost

LEMMA SubsSteps == SubsNext => SubscriberStep \/ PostStep \/ NoticeStep
  BY DEF SubsNext, SubscriberStep, PostStep, NoticeStep

(* A date among others has a latest one.                                   *)
LEMMA LessIsWellFounded == IsWellFoundedOn({ss \in Nat \X Nat : ss[1] < ss[2]}, Nat)
  BY NatLessThanWellFounded DEF OpToRel

LEMMA LatestExists ==
  ASSUME NEW N \in Nat, NEW D \in SUBSET (1..N), D # {}
  PROVE  \E d \in D : \A e \in D : e <= d
  <1> DEFINE R == {ss \in Nat \X Nat : ss[1] < ss[2]}
             T == {N - d : d \in D}
  <1>1. T \subseteq Nat /\ T # {}
    <2>1. \A d \in D : N - d \in Nat
      OBVIOUS
    <2> QED
      BY <2>1
  <1>2. PICK x \in T : \A y \in T : ~ (<<y, x>> \in R)
    <2> HIDE DEF T
    <2> QED
      BY <1>1, LessIsWellFounded, WFMin
  <1>3. PICK d \in D : x = N - d
    OBVIOUS
  <1>4. ASSUME NEW e \in D PROVE e <= d
    <2>1. N - e \in T /\ N - e \in Nat /\ x \in Nat
      BY <1>1
    <2>2. ~ (N - e < x)
      BY <1>2, <2>1
    <2> QED
      BY <1>3, <2>2
  <1> QED
    BY <1>4
-----------------------------------------------------------------------------
PostRows == [Posts -> [date : 0..MaxMinute, translated : BOOLEAN]]

SubsTypes ==
    /\ sub \in [Subs -> SubRow]
    /\ post \in PostRows
    /\ minute \in 0..MaxMinute
    /\ plans \subseteq Plan
    /\ told \in [Subs -> SUBSET (Posts \X (0..MaxMinute))]
    /\ between \subseteq Posts

(* A plan is for one row, and brings nothing dated after its cursor.       *)
PlansHold ==
    /\ \A n \in plans : n.cursor <= minute /\ \A x \in n.posts : x[2] <= n.cursor
    /\ \A n, m \in plans : n.id = m.id => n = m

(* What a row was told of is past.                                         *)
ToldIsPast == \A i \in Subs : \A x \in told[i] : x[2] <= minute

SubsInv == SubsTypes /\ PlansHold /\ ToldIsPast /\ NoticesAreNews

LEMMA SubscriptionsStart == SubsInit => SubsInv
  <1> SUFFICES ASSUME SubsInit PROVE SubsInv
    OBVIOUS
  <1>1. sub \in [Subs -> SubRow] /\ \A i \in Subs : sub[i].state = "absent"
    BY DEF SubsInit
  <1>2. SubsTypes
    BY <1>1, SubscriptionAssumption DEF SubsInit, SubsTypes, PostRows, Never
  <1> QED
    BY <1>1, <1>2 DEF SubsInit, SubsInv, PlansHold, ToldIsPast, NoticesAreNews

(* A subscriber's step changes rows only; a confirmed row is as it was or  *)
(* stands at the clock.                                                    *)
LEMMA RowsMove ==
  ASSUME SubsTypes, SubscriberStep
  PROVE  /\ UNCHANGED <<post, minute, plans, told, between>>
         /\ sub' \in [Subs -> SubRow]
         /\ \A i \in Subs : sub'[i].state = "confirmed" =>
               \/ sub[i].state = "confirmed" /\ sub'[i].cursor = sub[i].cursor
                  /\ sub'[i].floor = sub[i].floor
               \/ sub'[i].cursor = minute /\ sub'[i].floor = minute
  <1> DEFINE Goal ==
        /\ UNCHANGED <<post, minute, plans, told, between>>
        /\ sub' \in [Subs -> SubRow]
        /\ \A i \in Subs : sub'[i].state = "confirmed" =>
              \/ sub[i].state = "confirmed" /\ sub'[i].cursor = sub[i].cursor
                 /\ sub'[i].floor = sub[i].floor
              \/ sub'[i].cursor = minute /\ sub'[i].floor = minute
  <1>0. sub \in [Subs -> SubRow] /\ minute \in 0..MaxMinute
    BY DEF SubsTypes
  <1>1. ASSUME NEW a \in Addresses, NEW topics \in SUBSET Topics, Subscribe(a, topics) PROVE Goal
    <2>1. PICK i \in Subs :
              sub' = [sub EXCEPT ![i].state = "unconfirmed", ![i].to = a, ![i].topics = topics,
                                 ![i].link = TRUE]
      BY <1>1 DEF Subscribe, Of
    <2>2. /\ sub'[i].state = "unconfirmed" /\ \A j \in Subs \ {i} : sub'[j] = sub[j]
          /\ sub' \in [Subs -> SubRow]
      <3>1. sub[i] \in SubRow
        BY <1>0
      <3>2. [sub[i] EXCEPT !.state = "unconfirmed", !.to = a, !.topics = topics, !.link = TRUE]
                \in SubRow
        BY ONLY <3>1, a \in Addresses, topics \in SUBSET Topics DEF SubRow
      <3>3. sub' = [sub EXCEPT ![i] = [sub[i] EXCEPT !.state = "unconfirmed", !.to = a,
                                                     !.topics = topics, !.link = TRUE]]
        BY ONLY <2>1
      <3>4. [sub[i] EXCEPT !.state = "unconfirmed", !.to = a, !.topics = topics, !.link = TRUE].state
                = "unconfirmed"
        BY ONLY <3>1 DEF SubRow
      <3> QED
        BY ONLY <1>0, <3>2, <3>3, <3>4
    <2> QED
      BY <1>1, <2>2 DEF Subscribe
  <1>2. ASSUME NEW i \in Subs, ConfirmSubscription(i) PROVE Goal
    <2>1. /\ sub'[i].cursor = minute /\ sub'[i].floor = minute
          /\ \A j \in Subs \ {i} : sub'[j] = sub[j]
          /\ sub' \in [Subs -> SubRow]
      BY <1>0, <1>2 DEF ConfirmSubscription, SubRow
    <2> QED
      BY <1>2, <2>1 DEF ConfirmSubscription
  <1>3. ASSUME NEW i \in Subs, LinkExpires(i) PROVE Goal
    <2>1. /\ sub'[i].state = "unconfirmed" /\ \A j \in Subs \ {i} : sub'[j] = sub[j]
          /\ sub' \in [Subs -> SubRow]
      BY <1>0, <1>3 DEF LinkExpires, SubRow
    <2> QED
      BY <1>3, <2>1 DEF LinkExpires
  <1>4. ASSUME SweepUnconfirmed PROVE Goal
    <2>1. \A i \in Subs : sub'[i] = sub[i] \/ sub'[i].state = "gone"
      BY <1>0, <1>4 DEF SweepUnconfirmed, SubRow
    <2>2. sub' \in [Subs -> SubRow]
      BY <1>0, <1>4 DEF SweepUnconfirmed, SubRow
    <2> QED
      BY <1>4, <2>1, <2>2 DEF SweepUnconfirmed
  <1>5. ASSUME NEW i \in Subs, NEW topics \in SUBSET Topics, SaveSubscription(i, topics) PROVE Goal
    <2>1. Saved(sub[i], topics) \in SubRow /\ Saved(sub[i], topics).cursor = minute
          /\ Saved(sub[i], topics).floor = minute
      BY <1>0 DEF Saved, SubRow
    <2> QED
      BY <1>0, <1>5, <2>1 DEF SaveSubscription
  <1>6. ASSUME NEW i \in Subs, Unsubscribe(i) PROVE Goal
    <2>1. /\ sub'[i].state = "gone" /\ \A j \in Subs \ {i} : sub'[j] = sub[j]
          /\ sub' \in [Subs -> SubRow]
      BY <1>0, <1>6 DEF Unsubscribe, SubRow
    <2> QED
      BY <1>6, <2>1 DEF Unsubscribe
  <1> QED
    BY <1>1, <1>2, <1>3, <1>4, <1>5, <1>6 DEF SubscriberStep

LEMMA SubscribersKeep == ASSUME SubsInv, SubscriberStep PROVE SubsInv'
  <1>1. SubsTypes /\ PlansHold /\ ToldIsPast /\ NoticesAreNews
    BY DEF SubsInv
  <1>2. /\ UNCHANGED <<post, minute, plans, told, between>>
        /\ sub' \in [Subs -> SubRow]
        /\ \A i \in Subs : sub'[i].state = "confirmed" =>
              \/ sub[i].state = "confirmed" /\ sub'[i].cursor = sub[i].cursor
                 /\ sub'[i].floor = sub[i].floor
              \/ sub'[i].cursor = minute /\ sub'[i].floor = minute
    BY <1>1, RowsMove
  <1>3. SubsTypes' /\ PlansHold' /\ ToldIsPast'
    BY <1>1, <1>2 DEF SubsTypes, PlansHold, ToldIsPast
  <1>4. NoticesAreNews'
    <2> SUFFICES ASSUME NEW i \in Subs, sub'[i].state = "confirmed"
                 PROVE  /\ sub'[i].cursor >= sub'[i].floor
                        /\ \A x \in told[i] : x[2] <= sub'[i].cursor
      BY <1>2 DEF NoticesAreNews
    <2>1. CASE sub[i].state = "confirmed" /\ sub'[i].cursor = sub[i].cursor
               /\ sub'[i].floor = sub[i].floor
      BY <1>1, <2>1 DEF NoticesAreNews
    <2>2. CASE sub'[i].cursor = minute /\ sub'[i].floor = minute
      <3>1. minute \in Nat
        BY <1>1, SubscriptionAssumption DEF SubsTypes
      <3> QED
        BY <1>1, <2>2, <3>1 DEF ToldIsPast
    <2> QED
      BY <1>2, <2>1, <2>2
  <1> QED
    BY <1>3, <1>4 DEF SubsInv

LEMMA PostsKeep == ASSUME SubsInv, PostStep PROVE SubsInv'
  <1>1. SubsTypes /\ PlansHold /\ ToldIsPast /\ NoticesAreNews
    BY DEF SubsInv
  <1>2. UNCHANGED <<sub, plans, told>>
    BY DEF PostStep, SaveMeta, SaveTranslations, DeleteUpdate, PassMinute
  <1>3. minute' \in 0..MaxMinute /\ minute <= minute'
    <2>1. minute' = minute \/ (minute < MaxMinute /\ minute' = minute + 1)
      BY DEF PostStep, SaveMeta, SaveTranslations, DeleteUpdate, PassMinute
    <2>2. minute \in 0..MaxMinute /\ MaxMinute \in Nat
      BY <1>1, SubscriptionAssumption DEF SubsTypes
    <2> QED
      BY ONLY <2>1, <2>2
  <1>4. post' \in PostRows
    <2>0. post \in PostRows /\ 0 \in 0..MaxMinute
      BY <1>1, SubscriptionAssumption DEF SubsTypes
    <2>1. ASSUME NEW p \in Posts, NEW date \in 0..MaxMinute, SaveMeta(p, date)
          PROVE  post' \in PostRows
      BY <2>0, <2>1 DEF SaveMeta, PostRows
    <2>2. ASSUME NEW p \in Posts, SaveTranslations(p) PROVE post' \in PostRows
      BY <2>0, <2>2 DEF SaveTranslations, PostRows
    <2>3. ASSUME NEW p \in Posts, DeleteUpdate(p) PROVE post' \in PostRows
      BY <2>0, <2>3 DEF DeleteUpdate, PostRows, Never
    <2> QED
      BY <2>0, <2>1, <2>2, <2>3 DEF PostStep, PassMinute
  <1>5. between' \subseteq Posts
    BY <1>1 DEF SubsTypes, PostStep, SaveMeta, SaveTranslations, DeleteUpdate, PassMinute, NotesLive
  <1>6. SubsTypes'
    BY <1>1, <1>2, <1>3, <1>4, <1>5 DEF SubsTypes
  <1>7. PlansHold'
    <2>1. \A n \in plans : n.cursor \in 1..MaxMinute
      BY <1>1 DEF SubsTypes, Plan
    <2> QED
      BY <1>1, <1>2, <1>3, <2>1, SubscriptionAssumption DEF SubsTypes, PlansHold
  <1>8. ToldIsPast'
    <2>1. \A i \in Subs : \A x \in told[i] : x[2] \in 0..MaxMinute
      BY <1>1 DEF SubsTypes
    <2> QED
      BY <1>1, <1>2, <1>3, <2>1, SubscriptionAssumption DEF SubsTypes, ToldIsPast
  <1> QED
    BY <1>1, <1>2, <1>6, <1>7, <1>8 DEF SubsInv, NoticesAreNews
-----------------------------------------------------------------------------
(* A plan moves its row to the latest post it found, which is live.        *)
LEMMA PlanIsSound ==
  ASSUME SubsTypes, NEW i \in DueSubs
  PROVE  /\ PlanFor(i) \in Plan /\ PlanFor(i).id = i
         /\ PlanFor(i).cursor <= minute
         /\ \A x \in PlanFor(i).posts : x[2] <= PlanFor(i).cursor
  <1> DEFINE Dates == {post[p].date : p \in News(i)}
             Latest(d) == (\E p \in News(i) : post[p].date = d)
                          /\ \A p \in News(i) : post[p].date <= d
             latest == CHOOSE d \in 1..MaxMinute : Latest(d)
             posts == {<<p, post[p].date>> : p \in {q \in News(i) : post[q].translated}}
  <1>1. minute \in 0..MaxMinute /\ MaxMinute \in Nat
    BY SubscriptionAssumption DEF SubsTypes
  <1>2. /\ i \in Subs /\ News(i) # {} /\ News(i) \subseteq Posts
        /\ \A p \in News(i) : post[p].date \in 1..minute
    BY DEF DueSubs, News, IsLive
  <1>3. Dates \in SUBSET (1..MaxMinute) /\ Dates # {}
    BY <1>1, <1>2
  <1>4. \E d \in 1..MaxMinute : Latest(d)
    <2>1. PICK d \in Dates : \A e \in Dates : e <= d
      <3> HIDE DEF Dates
      <3> QED
        BY <1>1, <1>3, LatestExists
    <2> QED
      BY <1>3, <2>1
  <1>5. latest \in 1..MaxMinute /\ Latest(latest)
    BY <1>4
  <1>6. latest <= minute
    BY <1>1, <1>2, <1>5
  <1>7. PlanFor(i) = [id |-> i, cursor |-> latest, posts |-> posts]
    BY DEF PlanFor
  <1>8. posts \subseteq Posts \X (1..MaxMinute) /\ \A x \in posts : x[2] <= latest
    BY <1>1, <1>2, <1>5
  <1> HIDE DEF latest, posts
  <1> QED
    BY <1>2, <1>5, <1>6, <1>7, <1>8 DEF Plan

LEMMA NoticeReadKeeps == ASSUME SubsInv, NotifyRead PROVE SubsInv'
  <1>1. SubsTypes /\ ToldIsPast /\ NoticesAreNews
        /\ UNCHANGED <<sub, post, minute, told, between>>
    BY DEF SubsInv, NotifyRead
  <1>2. PICK S \in SUBSET DueSubs : plans' = {PlanFor(i) : i \in S}
    BY DEF NotifyRead
  <1>3. \A i \in S : /\ PlanFor(i) \in Plan /\ PlanFor(i).id = i
                     /\ PlanFor(i).cursor <= minute
                     /\ \A x \in PlanFor(i).posts : x[2] <= PlanFor(i).cursor
    BY <1>1, PlanIsSound
  <1>4. SubsTypes'
    BY <1>1, <1>2, <1>3 DEF SubsTypes
  <1>5. PlansHold'
    BY <1>1, <1>2, <1>3 DEF PlansHold
  <1> QED
    BY <1>1, <1>4, <1>5 DEF SubsInv, ToldIsPast, NoticesAreNews

(* The update: a confirmed row ends past its plan, and does not go back.   *)
LEMMA NoticeCommitKeeps == ASSUME SubsInv, NotifyCommit PROVE SubsInv'
  <1>1. SubsTypes /\ PlansHold /\ ToldIsPast /\ NoticesAreNews
        /\ UNCHANGED <<post, minute, between>> /\ plans' = {}
    BY DEF SubsInv, NotifyCommit
  <1>2. minute \in Nat /\ MaxMinute \in Nat
    BY <1>1, SubscriptionAssumption DEF SubsTypes
  <1>3. ASSUME NEW n \in plans
        PROVE  n.id \in Subs /\ n.cursor \in 1..MaxMinute /\ n.posts \subseteq Posts \X (1..MaxMinute)
    BY <1>1 DEF SubsTypes, Plan
  <1>4. ASSUME NEW i \in Subs
        PROVE  /\ sub'[i] \in SubRow
               /\ sub'[i].state = sub[i].state /\ sub'[i].floor = sub[i].floor
               /\ sub[i].state = "confirmed" => sub[i].cursor <= sub'[i].cursor
               /\ \A n \in plans : n.id = i /\ sub[i].state = "confirmed" =>
                      n.cursor <= sub'[i].cursor
    <2>0. sub[i] \in SubRow /\ sub[i].cursor \in Nat
      BY <1>1, <1>2 DEF SubsTypes, SubRow
    <2>1. CASE ~ \E n \in plans : n.id = i
      <3>1. sub'[i] = sub[i]
        BY <2>1 DEF NotifyCommit
      <3> QED
        BY <2>0, <2>1, <3>1
    <2>2. CASE \E n \in plans : n.id = i
      <3>1. PICK n \in plans : n.id = i
        BY <2>2
      <3>2. (CHOOSE m \in plans : m.id = i) = n /\ \A m \in plans : m.id = i => m = n
        BY <1>1, <3>1 DEF PlansHold
      <3>3. sub'[i] = Advanced(sub[i], n.cursor)
        BY <2>2, <3>2 DEF NotifyCommit
      <3>4. n.cursor \in 0..MaxMinute
        BY <1>2, <1>3
      <3>5. /\ Advanced(sub[i], n.cursor) \in SubRow
            /\ Advanced(sub[i], n.cursor).state = sub[i].state
            /\ Advanced(sub[i], n.cursor).floor = sub[i].floor
            /\ sub[i].state = "confirmed" =>
                  /\ sub[i].cursor <= Advanced(sub[i], n.cursor).cursor
                  /\ n.cursor <= Advanced(sub[i], n.cursor).cursor
        BY <1>2, <2>0, <3>4 DEF Advanced, SubRow
      <3> QED
        BY <3>2, <3>3, <3>5
    <2> QED
      BY <2>1, <2>2
  <1>5. ASSUME NEW i \in Subs, NEW x \in told'[i]
        PROVE  x \in told[i] \/ \E n \in plans : n.id = i /\ x \in n.posts
    BY <1>5 DEF NotifyCommit
  <1>6. sub' \in [Subs -> SubRow]
    <2>1. sub' = [i \in Subs |-> sub'[i]]
      BY DEF NotifyCommit
    <2> QED
      BY <1>4, <2>1
  <1>7. told' \in [Subs -> SUBSET (Posts \X (0..MaxMinute))]
    <2>1. told' = [i \in Subs |-> told'[i]]
      BY DEF NotifyCommit
    <2>2. \A i \in Subs : told'[i] \subseteq Posts \X (0..MaxMinute)
      BY <1>1, <1>2, <1>3, <1>5 DEF SubsTypes
    <2> QED
      BY <2>1, <2>2
  <1>8. SubsTypes' /\ PlansHold'
    BY <1>1, <1>6, <1>7 DEF SubsTypes, PlansHold
  <1>9. ToldIsPast'
    <2> SUFFICES ASSUME NEW i \in Subs, NEW x \in told'[i] PROVE x[2] <= minute
      BY <1>1 DEF ToldIsPast
    <2>1. CASE x \in told[i]
      BY <1>1, <2>1 DEF ToldIsPast
    <2>2. ASSUME NEW n \in plans, x \in n.posts PROVE x[2] <= minute
      <3>1. x[2] <= n.cursor /\ n.cursor <= minute /\ x[2] \in Nat /\ n.cursor \in Nat
        BY <1>1, <1>2, <1>3, <2>2 DEF PlansHold
      <3> QED
        BY <1>2, <3>1
    <2> QED
      BY <1>5, <2>1, <2>2
  <1>10. NoticesAreNews'
    <2> SUFFICES ASSUME NEW i \in Subs, sub'[i].state = "confirmed"
                 PROVE  /\ sub'[i].cursor >= sub'[i].floor
                        /\ \A x \in told'[i] : x[2] <= sub'[i].cursor
      BY DEF NoticesAreNews
    <2>1. /\ sub[i].state = "confirmed" /\ sub[i].cursor <= sub'[i].cursor
          /\ sub'[i].floor = sub[i].floor
          /\ \A n \in plans : n.id = i => n.cursor <= sub'[i].cursor
      BY <1>4
    <2>2. sub[i].cursor \in Nat /\ sub'[i].cursor \in Nat /\ sub[i].floor \in Nat
      BY <1>1, <1>2, <1>4 DEF SubsTypes, SubRow
    <2>3. sub'[i].cursor >= sub'[i].floor
      BY <1>1, <2>1, <2>2 DEF NoticesAreNews
    <2>4. ASSUME NEW x \in told[i] PROVE x[2] <= sub'[i].cursor
      <3>1. x[2] <= sub[i].cursor /\ x[2] \in Nat
        BY <1>1, <1>2, <2>1 DEF NoticesAreNews, SubsTypes
      <3> QED
        BY <2>1, <2>2, <3>1
    <2>5. ASSUME NEW n \in plans, n.id = i, NEW x \in n.posts PROVE x[2] <= sub'[i].cursor
      <3>1. x[2] <= n.cursor /\ x[2] \in Nat /\ n.cursor \in Nat
        BY <1>1, <1>2, <1>3 DEF PlansHold
      <3>2. n.cursor <= sub'[i].cursor
        BY <2>1, <2>5
      <3> QED
        BY <2>2, <3>1, <3>2
    <2> QED
      BY <1>5, <2>3, <2>4, <2>5
  <1> QED
    BY <1>8, <1>9, <1>10 DEF SubsInv

LEMMA NoticeLostKeeps == ASSUME SubsInv, NotifyLost PROVE SubsInv'
  BY DEF NotifyLost, SubsInv, SubsTypes, PlansHold, ToldIsPast, NoticesAreNews
-----------------------------------------------------------------------------
(* The inductive invariant: types, sound plans, and rows past what they    *)
(* were told.                                                              *)
THEOREM SubscriptionsInvariant == SubsSpec => []SubsInv
  <1>1. SubsInv /\ [SubsNext]_subsVars => SubsInv'
    <2> SUFFICES ASSUME SubsInv, [SubsNext]_subsVars PROVE SubsInv'
      OBVIOUS
    <2>1. CASE UNCHANGED subsVars
      BY <2>1 DEF subsVars, SubsInv, SubsTypes, PlansHold, ToldIsPast, NoticesAreNews
    <2> QED
      BY <2>1, SubsSteps, SubscribersKeep, PostsKeep, NoticeReadKeeps, NoticeCommitKeeps, NoticeLostKeeps
      DEF NoticeStep
  <1> QED
    BY <1>1, SubscriptionsStart, PTL DEF SubsSpec

(* Every row, post and plan keeps its type.                                *)
THEOREM SubscriptionsTypes == SubsSpec => []SubsTypeOK
  <1>1. SubsInv => SubsTypeOK
    BY DEF SubsInv, SubsTypes, PostRows, SubsTypeOK
  <1> QED
    BY <1>1, SubscriptionsInvariant, PTL

(* NoticesAreNews: the cursor of a confirmed row is past every post it was *)
(* told of and past the moment it was last confirmed or saved.             *)
THEOREM NothingRepeated == SubsSpec => []NoticesAreNews
  <1>1. SubsInv => NoticesAreNews
    BY DEF SubsInv
  <1> QED
    BY <1>1, SubscriptionsInvariant, PTL
=============================================================================

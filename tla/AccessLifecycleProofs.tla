------------------------ MODULE AccessLifecycleProofs ------------------------
(***************************************************************************)
(* What AccessLifecycle guarantees for every number of requests, grants,   *)
(* people, agreements, concurrent decisions and concurrent click-throughs. *)
(* The argument is IInv: a plan that a transaction made from what it read  *)
(* stays good until it commits, although nothing it read was locked.       *)
(***************************************************************************)
EXTENDS AccessLifecycle, TLAPS

-----------------------------------------------------------------------------
(* A plan, of a decision or a click-through, lists only grants it is right *)
(* to start once they are complete...                                      *)
LEMMA ListIsGood ==
    ASSUME TypeOK, \A g \in Grants : Minted(g) => RowOK(grant[g], accepted, clock),
           NEW person \in Requesters, NEW plan \in Plan
    PROVE  /\ Listed(plan, person) \in Plan
           /\ Listed(plan, person).now = plan.now
           /\ ListOK(Listed(plan, person), person, grant)
<1> DEFINE new == Listed(plan, person)
<1>1. /\ new \in Plan /\ new.now = plan.now
      /\ new.targets = {g \in Grants : /\ Minted(g)
                                       /\ Holder(g) = person
                                       /\ StillWaits(grant[g], plan.now)}
  BY DEF Listed, Plan
<1>2. ASSUME NEW g \in new.targets PROVE WaitOK(grant[g], new, person)
  <2>1. /\ g \in Grants /\ Minted(g) /\ Submitter[grant[g].request] = person
        /\ StillWaits(grant[g], plan.now)
    BY <1>1 DEF Holder
  <2>2. RowOK(grant[g], accepted, clock) /\ grant[g] \in GrantRow
    BY <2>1 DEF TypeOK
  <2>3. grant[g].request \in Requests
    BY <2>1, <2>2 DEF GrantRow, Minted
  <2>4. plan.now < grant[g].deadline
    BY <2>1, <2>2 DEF StillWaits, RowOK, Plan, GrantRow
  <2>5. QED
    BY <1>1, <2>1, <2>3, <2>4 DEF WaitOK
<1>3. QED
  BY <1>1, <1>2 DEF ListOK

(* ...and picks, of those, the ones that valid acceptances complete.       *)
LEMMA ChosenIsGood ==
    ASSUME TypeOK, NEW person \in Requesters, NEW plan \in Plan,
           ListOK(plan, person, grant), NEW held \in Found(person)
    PROVE  /\ Chosen(plan, held) \in Plan
           /\ Chosen(plan, held).now = plan.now
           /\ Chosen(plan, held).held = held
           /\ PlanOK(Chosen(plan, held), person, grant, accepted)
<1> DEFINE new == Chosen(plan, held)
<1>1. held \subseteq accepted /\ \A a \in held : Covers(a.by, person)
  BY DEF Found, ValidFor
<1>2. /\ new \in Plan /\ new.now = plan.now /\ new.held = held
      /\ new.targets = {g \in plan.targets : Satisfied(grant[g], held)}
  BY <1>1 DEF TypeOK, Chosen, Plan
<1>3. ASSUME NEW g \in new.targets PROVE TargetOK(grant[g], new, person)
  <2>1. WaitOK(grant[g], plan, person) /\ Satisfied(grant[g], held)
    BY <1>2 DEF ListOK
  <2>2. QED
    BY <1>2, <2>1 DEF TargetOK, WaitOK, Satisfied
<1>4. HeldOK(new.held, person, accepted)
  BY <1>1, <1>2 DEF HeldOK
<1>5. QED
  BY <1>2, <1>3, <1>4 DEF PlanOK

(* Starting a target of a good plan keeps the row's promises, and changes  *)
(* nothing a later plan could have relied on.                              *)
LEMMA StartedIsGood ==
    ASSUME NEW row \in GrantRow, NEW plan \in Plan, NEW person,
           NEW signed, NEW now \in Nat,
           RowOK(row, signed, now), plan.now <= now,
           HeldOK(plan.held, person, signed), TargetOK(row, plan, person)
    PROVE  /\ Started(row, plan) \in GrantRow
           /\ RowOK(Started(row, plan), signed, now)
           /\ Started(row, plan).request = row.request
           /\ Started(row, plan).required = row.required
           /\ Started(row, plan).deadline = row.deadline
           /\ Started(row, plan).revokedAt = row.revokedAt
           /\ Started(row, plan).closedAt = row.closedAt
           /\ row.expiresAt # Null => Started(row, plan).expiresAt = row.expiresAt
<1> DEFINE new == Started(row, plan)
<1>1. EvidenceFor(row, plan.held) \subseteq Acceptance
  BY DEF EvidenceFor, Plan
<1>2. new \in GrantRow
  <2>1. plan.now + TermDays \in Nat
    BY LifecycleAssumption DEF Plan
  <2>2. row.evidence \cup EvidenceFor(row, plan.held) \in SUBSET Acceptance
    BY <1>1 DEF GrantRow
  <2>3. QED
    BY <2>1, <2>2 DEF Started, GrantRow, Null
<1>3. /\ new.request = row.request
      /\ new.required = row.required
      /\ new.deadline = row.deadline
      /\ new.revokedAt = row.revokedAt
      /\ new.closedAt = row.closedAt
      /\ new.evidence = row.evidence \cup EvidenceFor(row, plan.held)
      /\ new.expiresAt = IF row.expiresAt = Null THEN plan.now + TermDays ELSE row.expiresAt
      /\ new.dueAt = IF row.expiresAt = Null THEN Null ELSE row.dueAt
  BY DEF Started, GrantRow
<1>4. new.expiresAt # Null
  BY <1>3, LifecycleAssumption DEF Plan, Null
<1>5. ASSUME NEW t \in row.required
      PROVE  \E a \in new.evidence : /\ a \in signed
                                     /\ a.template = t
                                     /\ Covers(a.by, Submitter[row.request])
  <2>1. PICK a \in plan.held : a.template = t
    BY DEF TargetOK, TemplatesOf
  <2>2. a \in signed /\ Covers(a.by, Submitter[row.request])
    BY <2>1 DEF HeldOK, TargetOK, WaitOK
  <2>3. a \in new.evidence
    BY <1>3, <2>1 DEF EvidenceFor
  <2>4. QED
    BY <2>1, <2>2, <2>3
<1>6. /\ new.deadline # Null => new.expiresAt < new.deadline + TermDays
      /\ new.expiresAt <= now + TermDays
  <2>1. CASE row.expiresAt = Null
    BY <1>3, <2>1, LifecycleAssumption DEF TargetOK, WaitOK, Plan, GrantRow, Null
  <2>2. CASE row.expiresAt # Null
    BY <1>3, <2>2 DEF RowOK
  <2>3. QED
    BY <2>1, <2>2
<1>7. RowOK(new, signed, now)
  BY <1>3, <1>4, <1>5, <1>6 DEF RowOK
<1>8. QED
  BY <1>2, <1>3, <1>7

-----------------------------------------------------------------------------
(* What no step takes from a committed grant. *)
KeepsRow(row, new) == /\ new.request = row.request
                      /\ new.required = row.required
                      /\ new.deadline = row.deadline

Frame == /\ TypeOK'
         /\ clock <= clock'
         /\ accepted \subseteq accepted'
         /\ \A g \in Grants : Minted(g) => KeepsRow(grant[g], grant'[g])

(* Time passing and further signatures break no promise of a row. *)
LEMMA RowStays ==
    ASSUME NEW row \in GrantRow, NEW signed, NEW signed2, signed \subseteq signed2,
           NEW now \in Nat, NEW now2 \in Nat, now <= now2, RowOK(row, signed, now)
    PROVE  RowOK(row, signed2, now2)
BY LifecycleAssumption DEF RowOK, GrantRow

(* A plan made earlier survives whatever the others do meanwhile. *)
LEMMA PlanStays ==
    ASSUME NEW plan \in Plan, NEW person, NEW rows, NEW rows2,
           NEW signed, NEW signed2, signed \subseteq signed2,
           \A g \in Grants : rows[g].request \in Requests => KeepsRow(rows[g], rows2[g]),
           PlanOK(plan, person, rows, signed)
    PROVE  PlanOK(plan, person, rows2, signed2)
<1>1. HeldOK(plan.held, person, signed2)
  BY DEF PlanOK, HeldOK
<1>2. ASSUME NEW g \in plan.targets PROVE TargetOK(rows2[g], plan, person)
  <2>1. TargetOK(rows[g], plan, person)
    BY DEF PlanOK
  <2>2. KeepsRow(rows[g], rows2[g])
    BY <2>1 DEF TargetOK, WaitOK, Plan
  <2>3. QED
    BY <2>1, <2>2 DEF TargetOK, WaitOK, KeepsRow
<1>3. QED
  BY <1>1, <1>2 DEF PlanOK

LEMMA ListStays ==
    ASSUME NEW plan \in Plan, NEW person, NEW rows, NEW rows2,
           \A g \in Grants : rows[g].request \in Requests => KeepsRow(rows[g], rows2[g]),
           ListOK(plan, person, rows)
    PROVE  ListOK(plan, person, rows2)
BY DEF ListOK, WaitOK, KeepsRow, Plan

(* The parts of the invariant a step leaves alone follow from the frame.   *)
LEMMA FrameRows ==
    ASSUME IInv, Frame, NEW g \in Grants, Minted(g), grant'[g] = grant[g]
    PROVE  RowOK(grant'[g], accepted', clock')
<1>1. grant[g] \in GrantRow /\ clock \in Nat /\ clock' \in Nat
  BY DEF IInv, TypeOK, Frame
<1>2. RowOK(grant[g], accepted, clock)
  BY DEF IInv
<1>3. QED
  BY <1>1, <1>2, RowStays DEF Frame

LEMMA FramePlan ==
    ASSUME IInv, Frame, NEW plan \in Plan, NEW person
    PROVE  /\ ListOK(plan, person, grant) => ListOK(plan, person, grant')
           /\ PlanOK(plan, person, grant, accepted)
                => PlanOK(plan, person, grant', accepted')
<1>1. \A g \in Grants : grant[g].request \in Requests => KeepsRow(grant[g], grant'[g])
  BY LifecycleAssumption DEF Frame, Minted
<1>2. QED
  BY <1>1, ListStays, PlanStays DEF Frame

LEMMA FrameDecision ==
    ASSUME IInv, Frame, NEW d \in Deciders, decision'[d] = decision[d],
           Drafting(d) => ~ Minted(decision[d].own)'
    PROVE  DecisionOK(d)'
<1>1. /\ decision[d] \in Decision /\ clock \in Nat /\ clock' \in Nat /\ clock <= clock'
      /\ DecisionOK(d)
  BY DEF IInv, TypeOK, Frame
<1>2. /\ decision[d].row \in GrantRow /\ decision[d].plan \in Plan
      /\ Drafting(d)' <=> Drafting(d)
  BY <1>1 DEF Decision, Drafting
<1>3. /\ decision[d].pc # "idle" => decision[d].request \in Requests
      /\ decision[d].plan.now <= clock'
  BY <1>1, <1>2 DEF DecisionOK, Plan
<1>4. Drafting(d) => /\ decision[d].row.request = decision[d].request
                     /\ RowOK(decision[d].row, accepted', clock')
  BY <1>1, <1>2, RowStays DEF DecisionOK, Frame
<1>5. /\ decision[d].pc = "listed" =>
            ListOK(decision[d].plan, Submitter[decision[d].request], grant')
      /\ decision[d].pc = "approving" =>
            PlanOK(decision[d].plan, Submitter[decision[d].request], grant', accepted')
  BY <1>1, <1>2, FramePlan DEF DecisionOK
<1>6. QED
  BY <1>2, <1>3, <1>4, <1>5 DEF DecisionOK, Minted

LEMMA FrameReader ==
    ASSUME IInv, Frame, NEW h \in Readers, reader'[h] = reader[h]
    PROVE  ReaderOK(h)'
<1>1. /\ reader[h] \in Reader /\ ReaderOK(h)
      /\ clock \in Nat /\ clock' \in Nat /\ clock <= clock'
  BY DEF IInv, TypeOK, Frame
<1>2. reader[h].plan \in Plan /\ reader[h].plan.now <= clock'
  BY <1>1 DEF ReaderOK, Reader, Plan
<1>3. /\ reader[h].pc = "listed" => ListOK(reader[h].plan, reader[h].person, grant')
      /\ reader[h].pc = "activating" =>
            PlanOK(reader[h].plan, reader[h].person, grant', accepted')
  BY <1>1, <1>2, FramePlan DEF ReaderOK
<1>4. QED
  BY <1>2, <1>3 DEF ReaderOK

LEMMA FrameApproved ==
    ASSUME IInv, Frame,
           \A r \in Requests : request'[r].status = "approved"
                                  => request[r].status = "approved"
    PROVE  ApprovedHasGrant'
<1>1. ASSUME NEW r \in Requests, request'[r].status = "approved"
      PROVE  \E g \in Grants : grant'[g].request = r
  <2>1. PICK g \in Grants : grant[g].request = r
    BY <1>1 DEF IInv, ApprovedHasGrant
  <2>2. grant'[g].request = r
    BY <2>1, LifecycleAssumption DEF Frame, Minted, KeepsRow
  <2>3. QED
    BY <2>2
<1>2. QED
  BY <1>1 DEF ApprovedHasGrant

-----------------------------------------------------------------------------
(* Steps that leave every grant row alone.                                 *)
LEMMA QuietStep ==
    ASSUME IInv, TypeOK', grant' = grant, clock <= clock',
           accepted \subseteq accepted',
           \A d \in Deciders : decision'[d] = decision[d] \/ DecisionOK(d)',
           OwnDistinct',
           \A h \in Readers : reader'[h] = reader[h] \/ ReaderOK(h)',
           \A r \in Requests : request'[r].status = "approved"
                                  => request[r].status = "approved"
    PROVE  IInv'
<1>1. Frame
  BY DEF Frame, KeepsRow
<1>2. \A g \in Grants : Minted(g)' => RowOK(grant'[g], accepted', clock')
  BY <1>1, FrameRows DEF Minted
<1>3. ASSUME NEW d \in Deciders PROVE DecisionOK(d)'
  <2>1. CASE decision'[d] = decision[d]
    <3>1. Drafting(d) => ~ Minted(decision[d].own)'
      BY <2>1 DEF IInv, DecisionOK, Minted
    <3>2. QED
      BY <1>1, <2>1, <3>1, FrameDecision
  <2>2. QED
    BY <2>1
<1>4. \A h \in Readers : ReaderOK(h)'
  BY <1>1, FrameReader
<1>5. ApprovedHasGrant'
  BY <1>1, FrameApproved
<1>6. QED
  BY <1>2, <1>3, <1>4, <1>5 DEF IInv

(* An idle decision owes nothing, and cannot own what another one owns.    *)
LEMMA IdleOwes ==
    ASSUME NEW d \in Deciders, decision' = [decision EXCEPT ![d] = IdleDecision],
           IInv, clock' \in Nat
    PROVE  /\ decision' \in [Deciders -> Decision]
           /\ DecisionOK(d)'
           /\ OwnDistinct'
<1>1. IdleDecision \in Decision /\ IdleDecision.pc = "idle" /\ IdleDecision.plan.now = 0
  BY LifecycleAssumption DEF IdleDecision, Decision, NoGrant, GrantRow, EmptyPlan, Plan, Null
<1>2. decision' \in [Deciders -> Decision]
  BY <1>1 DEF IInv, TypeOK
<1>3. /\ decision'[d].pc = "idle" /\ decision'[d].plan.now = 0
      /\ \A e \in Deciders \ {d} : decision'[e] = decision[e]
  BY <1>1 DEF IInv, TypeOK
<1>4. DecisionOK(d)'
  BY <1>3 DEF DecisionOK, Drafting
<1>5. OwnDistinct'
  BY <1>3 DEF OwnDistinct, Drafting, IInv
<1>6. QED
  BY <1>2, <1>4, <1>5

LEMMA IdleReaderType ==
    IdleReader \in Reader /\ IdleReader.pc = "idle" /\ IdleReader.plan.now = 0
BY LifecycleAssumption DEF IdleReader, Reader, EmptyPlan, Plan

-----------------------------------------------------------------------------
(* Steps that write grant rows: what remains once the rows are shown good. *)
LEMMA WritingStep ==
    ASSUME IInv, Frame,
           \A g \in Grants : Minted(g)' => RowOK(grant'[g], accepted', clock'),
           \A d \in Deciders :
              \/ DecisionOK(d)'
              \/ /\ decision'[d] = decision[d]
                 /\ Drafting(d) => ~ Minted(decision[d].own)',
           OwnDistinct',
           \A h \in Readers : reader'[h] = reader[h] \/ ReaderOK(h)',
           ApprovedHasGrant'
    PROVE  IInv'
<1>1. ASSUME NEW d \in Deciders PROVE DecisionOK(d)'
  <2>1. CASE /\ decision'[d] = decision[d]
             /\ Drafting(d) => ~ Minted(decision[d].own)'
    BY <2>1, FrameDecision
  <2>2. QED
    BY <2>1
<1>2. \A h \in Readers : ReaderOK(h)'
  BY FrameReader
<1>3. QED
  BY <1>1, <1>2 DEF IInv, Frame

-----------------------------------------------------------------------------
LEMMA InitGood == ASSUME Init PROVE IInv
<1>1. NoGrant \in GrantRow /\ NoGrant.request = NoRequest
  BY DEF NoGrant, GrantRow, Null
<1>2. IdleDecision \in Decision /\ IdleDecision.pc = "idle" /\ IdleDecision.plan.now = 0
  BY <1>1, LifecycleAssumption DEF IdleDecision, Decision, EmptyPlan, Plan
<1>3. TypeOK
  BY <1>1, <1>2, IdleReaderType DEF Init, TypeOK, RequestRow, Statuses, Null
<1>4. \A g \in Grants : ~ Minted(g)
  BY <1>1 DEF Init, Minted
<1>5. /\ \A d \in Deciders : DecisionOK(d)
      /\ OwnDistinct
      /\ \A h \in Readers : ReaderOK(h)
  BY <1>2, IdleReaderType DEF Init, DecisionOK, Drafting, OwnDistinct, ReaderOK
<1>6. ApprovedHasGrant
  BY DEF Init, ApprovedHasGrant
<1>7. QED
  BY <1>3, <1>4, <1>5, <1>6 DEF IInv

(* A row fresh from createGrant is good, whichever way it is minted.       *)
LEMMA NewGrantGood ==
    ASSUME clock \in Nat \ {0}, NEW signed, NEW r \in Requests,
           NEW required \in SUBSET Templates
    PROVE  /\ NewGrant(r, required) \in GrantRow
           /\ NewGrant(r, required).request = r
           /\ RowOK(NewGrant(r, required), signed, clock)
<1> DEFINE new == NewGrant(r, required)
<1>1. /\ new.request = r
      /\ new.required = required
      /\ new.expiresAt = IF required # {} THEN Null ELSE clock + TermDays
      /\ new.dueAt = IF required # {} THEN clock + DueDays ELSE Null
      /\ new.deadline = IF required # {} THEN clock + DueDays ELSE Null
  BY DEF NewGrant
<1>2. new \in GrantRow
  <2>1. clock + TermDays \in Nat /\ clock + DueDays \in Nat
    BY LifecycleAssumption
  <2>2. QED
    BY <2>1 DEF NewGrant, GrantRow, Null
<1>3. RowOK(new, signed, clock)
  <2>1. CASE required = {}
    BY <1>1, <2>1, LifecycleAssumption DEF RowOK, Null
  <2>2. CASE required # {}
    BY <1>1, <2>2, LifecycleAssumption DEF RowOK, Null
  <2>3. QED
    BY <2>1, <2>2
<1>4. QED
  BY <1>1, <1>2, <1>3

-----------------------------------------------------------------------------
LEMMA SubmitKeeps ==
    ASSUME IInv, NEW r \in Requests, SubmitRequest(r) PROVE IInv'
<1>1. TypeOK'
  BY DEF IInv, TypeOK, SubmitRequest, RequestRow, Statuses
<1>2. /\ \A q \in Requests : request'[q].status = "approved"
                                => request[q].status = "approved"
      /\ OwnDistinct'
  BY DEF IInv, TypeOK, SubmitRequest, OwnDistinct, Drafting
<1>3. QED
  BY <1>1, <1>2, QuietStep DEF SubmitRequest, IInv, TypeOK

LEMMA SweepKeeps ==
    ASSUME IInv, SweepUnverified PROVE IInv'
<1>1. TypeOK'
  BY DEF IInv, TypeOK, SweepUnverified, RequestRow, Statuses
<1>2. /\ \A q \in Requests : request'[q].status = "approved"
                                => request[q].status = "approved"
      /\ OwnDistinct'
  BY DEF IInv, TypeOK, SweepUnverified, OwnDistinct, Drafting, RequestRow
<1>3. UNCHANGED <<clock, grant, accepted, decision, reader>> /\ clock \in Nat
  BY DEF SweepUnverified, IInv, TypeOK
<1>4. QED
  BY <1>1, <1>2, <1>3, QuietStep

(* One step of a decision that only it sees: it may take a free id for the *)
(* grant it mints, and then keeps it.                                      *)
LEMMA DraftStep ==
    ASSUME IInv, NEW d \in Deciders, NEW new \in Decision,
           decision' = [decision EXCEPT ![d] = new],
           UNCHANGED <<clock, request, grant, accepted, version, reader>>,
           DecisionOK(d)',
           Drafting(d)' => \/ new.own \in FreeGrants
                           \/ Drafting(d) /\ new.own = decision[d].own
    PROVE  IInv'
<1>1. /\ decision' \in [Deciders -> Decision] /\ decision'[d] = new
      /\ \A e \in Deciders \ {d} : decision'[e] = decision[e]
  BY DEF IInv, TypeOK
<1>2. TypeOK' /\ clock \in Nat
  BY <1>1 DEF IInv, TypeOK
<1>3. OwnDistinct'
  <2>1. SUFFICES ASSUME NEW e \in Deciders \ {d}, Drafting(d)', Drafting(e)
                 PROVE  new.own # decision[e].own
    BY <1>1 DEF OwnDistinct, Drafting, IInv
  <2>2. QED
    BY <2>1 DEF FreeGrants, OwnDistinct, IInv
<1>4. QED
  BY <1>1, <1>2, <1>3, QuietStep

LEMMA DecideOpenKeeps ==
    ASSUME IInv, NEW d \in Deciders, NEW r \in Requests, DecideOpen(d, r)
    PROVE  IInv'
<1> DEFINE new == [decision[d] EXCEPT !.pc = "open", !.request = r]
<1>1. decision[d] \in Decision /\ decision[d].plan.now <= clock
  BY DEF IInv, TypeOK, DecisionOK, Drafting
<1>2. /\ new \in Decision /\ new.pc = "open" /\ new.request = r
      /\ new.plan = decision[d].plan
  BY <1>1 DEF Decision
<1> HIDE DEF new
<1>3. /\ decision' = [decision EXCEPT ![d] = new]
      /\ UNCHANGED <<clock, request, grant, accepted, version, reader>>
  BY DEF DecideOpen, IInv, TypeOK, new
<1>4. decision'[d] = new
  BY <1>3 DEF IInv, TypeOK
<1>5. DecisionOK(d)' /\ ~ Drafting(d)'
  BY <1>1, <1>2, <1>3, <1>4 DEF DecisionOK, Drafting
<1>6. QED
  BY <1>2, <1>3, <1>5, DraftStep

LEMMA DecideWithoutGrantKeeps ==
    ASSUME IInv, NEW d \in Deciders, NEW status \in {"info_requested", "denied"},
           DecideWithoutGrant(d, status)
    PROVE  IInv'
<1>1. decision' \in [Deciders -> Decision] /\ DecisionOK(d)' /\ OwnDistinct'
  BY IdleOwes DEF DecideWithoutGrant, IInv, TypeOK
<1>2. decision[d].request \in Requests
  BY DEF DecideWithoutGrant, IInv, DecisionOK
<1>3. TypeOK'
  BY <1>1, <1>2 DEF IInv, TypeOK, DecideWithoutGrant, RequestRow, Statuses
<1>4. /\ \A q \in Requests : request'[q].status = "approved"
                                => request[q].status = "approved"
      /\ \A e \in Deciders \ {d} : decision'[e] = decision[e]
  BY <1>2 DEF IInv, TypeOK, DecideWithoutGrant, RequestRow
<1>5. QED
  BY <1>1, <1>3, <1>4, QuietStep DEF DecideWithoutGrant, IInv, TypeOK

LEMMA DecideRollbackKeeps ==
    ASSUME IInv, NEW d \in Deciders, DecideRollback(d) PROVE IInv'
<1>1. decision' \in [Deciders -> Decision] /\ DecisionOK(d)' /\ OwnDistinct'
  BY IdleOwes DEF DecideRollback, IInv, TypeOK
<1>2. TypeOK'
  BY <1>1 DEF IInv, TypeOK, DecideRollback
<1>3. \A e \in Deciders \ {d} : decision'[e] = decision[e]
  BY DEF IInv, TypeOK, DecideRollback
<1>4. QED
  BY <1>1, <1>2, <1>3, QuietStep DEF DecideRollback, IInv, TypeOK

(* Approving writes the transaction's own row, under an id nobody has... *)
LEMMA DecideApproveKeeps ==
    ASSUME IInv, NEW d \in Deciders, DecideApprove(d) PROVE IInv'
<1> DEFINE r == decision[d].request
<1>1. /\ r \in Requests /\ decision[d] \in Decision /\ decision[d].plan.now <= clock
      /\ decision \in [Deciders -> Decision]
  BY DEF DecideApprove, IInv, DecisionOK, TypeOK
<1>2. PICK g \in FreeGrants, required \in SUBSET {t \in Templates : version[t] # 0} :
        decision' = [decision EXCEPT ![d].pc = "minted", ![d].own = g,
                       ![d].row = NewGrant(r, required)]
  BY DEF DecideApprove
<1> DEFINE row == NewGrant(r, required)
<1>3. row \in GrantRow /\ row.request = r /\ RowOK(row, accepted, clock)
  BY <1>1, NewGrantGood DEF IInv, TypeOK
<1>4. g \in Grants /\ ~ Minted(g)
  BY DEF FreeGrants
<1> HIDE DEF row
<1> DEFINE new == [decision[d] EXCEPT !.pc = "minted", !.own = g, !.row = row]
<1>5. /\ new \in Decision /\ new.pc = "minted" /\ new.own = g /\ new.row = row
      /\ new.request = r /\ new.plan = decision[d].plan
  BY <1>1, <1>3, <1>4 DEF Decision
<1>6. decision' = [decision EXCEPT ![d] = new]
  BY <1>1, <1>2 DEF row
<1> HIDE DEF new
<1>7. UNCHANGED <<clock, request, grant, accepted, version, reader>>
  BY DEF DecideApprove
<1>8. decision'[d] = new
  BY <1>1, <1>6
<1>9. DecisionOK(d)'
  BY <1>1, <1>3, <1>4, <1>5, <1>7, <1>8 DEF DecisionOK, Minted
<1>10. QED
  BY <1>5, <1>6, <1>7, <1>9, DraftStep

(* ...and the fast path only plans. *)
LEMMA PlanStep ==
    ASSUME IInv, NEW d \in Deciders, Drafting(d),
           NEW pc \in {"starting", "listed", "approving"},
           NEW plan \in Plan, plan.now <= clock, NEW row \in GrantRow,
           row.request = decision[d].request, RowOK(row, accepted, clock),
           pc = "listed" => ListOK(plan, Submitter[decision[d].request], grant),
           pc = "approving" =>
             PlanOK(plan, Submitter[decision[d].request], grant, accepted),
           decision' = [decision EXCEPT ![d] = [decision[d] EXCEPT
                          !.pc = pc, !.plan = plan, !.row = row]],
           UNCHANGED <<clock, request, grant, accepted, version, reader>>
    PROVE  IInv'
<1> DEFINE new == [decision[d] EXCEPT !.pc = pc, !.plan = plan, !.row = row]
<1>1. /\ decision[d] \in Decision /\ decision[d].request \in Requests
      /\ decision \in [Deciders -> Decision] /\ ~ Minted(decision[d].own)
  BY DEF IInv, TypeOK, DecisionOK, Drafting
<1>2. /\ new \in Decision /\ new.pc = pc /\ new.own = decision[d].own
      /\ new.row = row /\ new.plan = plan /\ new.request = decision[d].request
  BY <1>1 DEF Decision
<1>3. decision' = [decision EXCEPT ![d] = new]
  OBVIOUS
<1> HIDE DEF new
<1>4. decision'[d] = new
  BY <1>1, <1>3
<1>5. DecisionOK(d)'
  BY <1>1, <1>2, <1>4 DEF DecisionOK, Minted
<1>6. QED
  BY <1>2, <1>3, <1>5, DraftStep

LEMMA DraftHolds ==
    ASSUME IInv, NEW d \in Deciders, Drafting(d)
    PROVE  /\ decision \in [Deciders -> Decision] /\ decision[d] \in Decision
           /\ decision[d].plan \in Plan /\ decision[d].plan.now <= clock
           /\ decision[d].row \in GrantRow
           /\ decision[d].row.request = decision[d].request
           /\ RowOK(decision[d].row, accepted, clock)
           /\ decision[d].request \in Requests
           /\ Submitter[decision[d].request] \in Requesters
           /\ clock \in Nat
<1>1. decision[d].pc # "idle" /\ DecisionOK(d)
  BY DEF Drafting, IInv
<1>2. QED
  BY <1>1, LifecycleAssumption DEF IInv, TypeOK, DecisionOK, Decision

LEMMA DecideStartKeeps ==
    ASSUME IInv, NEW d \in Deciders, DecideStart(d) PROVE IInv'
<1> DEFINE plan == [decision[d].plan EXCEPT !.now = clock]
<1>1. Drafting(d) /\ UNCHANGED <<clock, request, grant, accepted, version, reader>>
  BY DEF DecideStart, Drafting
<1>2. plan \in Plan /\ plan.now <= clock
  BY <1>1, DraftHolds DEF Plan
<1>3. decision' = [decision EXCEPT ![d] = [decision[d] EXCEPT
                     !.pc = "starting", !.plan = plan, !.row = decision[d].row]]
  BY <1>1, DraftHolds DEF DecideStart, Decision
<1> HIDE DEF plan
<1>4. QED
  BY <1>1, <1>2, <1>3, DraftHolds, PlanStep

LEMMA DecideListKeeps ==
    ASSUME IInv, NEW d \in Deciders, DecideList(d) PROVE IInv'
<1> DEFINE person == Submitter[decision[d].request]
           plan == Listed(decision[d].plan, person)
<1>1. Drafting(d) /\ UNCHANGED <<clock, request, grant, accepted, version, reader>>
  BY DEF DecideList, Drafting
<1>2. /\ plan \in Plan /\ plan.now = decision[d].plan.now
      /\ ListOK(plan, person, grant)
  BY <1>1, DraftHolds, ListIsGood DEF IInv
<1>3. decision' = [decision EXCEPT ![d] = [decision[d] EXCEPT
                     !.pc = "listed", !.plan = plan, !.row = decision[d].row]]
  BY <1>1, DraftHolds DEF DecideList, Decision
<1> HIDE DEF plan
<1>4. QED
  BY <1>1, <1>2, <1>3, DraftHolds, PlanStep

LEMMA DecideLookupKeeps ==
    ASSUME IInv, NEW d \in Deciders, DecideLookup(d) PROVE IInv'
<1> DEFINE me == decision[d]
           person == Submitter[me.request]
<1>1. /\ Drafting(d) /\ UNCHANGED <<clock, request, grant, accepted, version, reader>>
      /\ ListOK(me.plan, person, grant)
  BY DEF DecideLookup, Drafting, IInv, DecisionOK
<1>2. PICK held \in Found(person) :
        decision' = [decision EXCEPT
          ![d].pc = "approving",
          ![d].plan = Chosen(@, held),
          ![d].row = IF StillWaits(me.row, me.plan.now) /\ Satisfied(me.row, held)
                     THEN Started(me.row, Chosen(me.plan, held)) ELSE me.row]
  BY DEF DecideLookup
<1> DEFINE plan == Chosen(me.plan, held)
           starts == StillWaits(me.row, me.plan.now) /\ Satisfied(me.row, held)
           row == IF starts THEN Started(me.row, plan) ELSE me.row
<1>3. /\ plan \in Plan /\ plan.now = me.plan.now /\ plan.held = held
      /\ PlanOK(plan, person, grant, accepted)
  BY <1>1, DraftHolds, ChosenIsGood DEF IInv
<1>4. row \in GrantRow /\ row.request = me.request /\ RowOK(row, accepted, clock)
  <2>1. CASE starts
    <3>1. me.plan.now < me.row.deadline
      BY <1>1, <2>1, DraftHolds DEF StillWaits, RowOK, Plan, GrantRow
    <3>2. TargetOK(me.row, plan, person)
      BY <1>1, <1>3, <2>1, <3>1, DraftHolds DEF TargetOK, WaitOK, Satisfied
    <3>3. HeldOK(plan.held, person, accepted)
      BY <1>3 DEF PlanOK
    <3>4. QED
      BY <1>1, <1>3, <2>1, <3>2, <3>3, DraftHolds, StartedIsGood
  <2>2. CASE ~ starts
    BY <1>1, <2>2, DraftHolds
  <2>3. QED
    BY <2>1, <2>2
<1>5. decision' = [decision EXCEPT ![d] = [decision[d] EXCEPT
                     !.pc = "approving", !.plan = plan, !.row = row]]
  BY <1>1, <1>2, DraftHolds DEF Decision
<1> HIDE DEF plan, row, starts
<1>6. QED
  BY <1>1, <1>3, <1>4, <1>5, DraftHolds, PlanStep

(* A step of a click-through that writes no grant. *)
LEMMA ReaderStep ==
    ASSUME IInv, NEW h \in Readers, NEW new \in Reader,
           reader' = [reader EXCEPT ![h] = new],
           accepted' \subseteq Acceptance, accepted \subseteq accepted',
           UNCHANGED <<clock, request, grant, version, decision>>,
           new.plan.now <= clock,
           new.pc = "listed" => ListOK(new.plan, new.person, grant),
           new.pc = "activating" => PlanOK(new.plan, new.person, grant, accepted)
    PROVE  IInv'
<1>1. /\ reader' \in [Readers -> Reader] /\ reader'[h] = new
      /\ \A k \in Readers \ {h} : reader'[k] = reader[k]
  BY DEF IInv, TypeOK
<1>2. TypeOK' /\ OwnDistinct' /\ clock \in Nat
  BY <1>1 DEF IInv, TypeOK, OwnDistinct, Drafting
<1>3. PlanOK(new.plan, new.person, grant, accepted) =>
        PlanOK(new.plan, new.person, grant, accepted')
  BY DEF PlanOK, HeldOK
<1>4. ReaderOK(h)'
  BY <1>1, <1>3 DEF ReaderOK
<1>5. QED
  BY <1>1, <1>2, <1>4, QuietStep

LEMMA ReaderHolds ==
    ASSUME IInv, NEW h \in Readers
    PROVE  /\ reader \in [Readers -> Reader] /\ reader[h] \in Reader
           /\ reader[h].plan \in Plan /\ reader[h].plan.now <= clock
           /\ reader[h].person \in Requesters
           /\ clock \in Nat /\ accepted \subseteq Acceptance
BY DEF IInv, TypeOK, ReaderOK, Reader

LEMMA OpenAgreementKeeps ==
    ASSUME IInv, NEW h \in Readers, NEW p \in Requesters, NEW t \in Templates,
           OpenAgreement(h, p, t)
    PROVE  IInv'
<1> DEFINE new == [reader[h] EXCEPT !.pc = "reading", !.person = p,
                                    !.template = t, !.version = version[t]]
<1>1. new \in Reader /\ new.pc = "reading" /\ new.plan = reader[h].plan
  BY ReaderHolds DEF Reader, IInv, TypeOK
<1>2. /\ reader' = [reader EXCEPT ![h] = new]
      /\ UNCHANGED <<clock, request, grant, accepted, version, decision>>
  BY ReaderHolds DEF OpenAgreement
<1> HIDE DEF new
<1>3. QED
  BY <1>1, <1>2, ReaderHolds, ReaderStep

LEMMA RecordAcceptanceKeeps ==
    ASSUME IInv, NEW h \in Readers, RecordAcceptance(h) PROVE IInv'
<1> DEFINE new == [reader[h] EXCEPT !.pc = "accepted"]
<1>1. new \in Reader /\ new.pc = "accepted" /\ new.plan = reader[h].plan
  BY ReaderHolds DEF Reader
<1>2. /\ reader' = [reader EXCEPT ![h] = new]
      /\ UNCHANGED <<clock, request, grant, version, decision>>
  BY ReaderHolds DEF RecordAcceptance
<1>3. accepted' \subseteq Acceptance /\ accepted \subseteq accepted'
  BY ReaderHolds DEF RecordAcceptance, Reader, Acceptance
<1> HIDE DEF new
<1>4. QED
  BY <1>1, <1>2, <1>3, ReaderHolds, ReaderStep

LEMMA LeaveKeeps ==
    ASSUME IInv, NEW h \in Readers, VersionMoved(h) \/ HandlerFails(h) PROVE IInv'
<1>1. /\ reader' = [reader EXCEPT ![h] = IdleReader]
      /\ UNCHANGED <<clock, request, grant, accepted, version, decision>>
  BY DEF VersionMoved, HandlerFails
<1>2. IdleReader \in Reader /\ IdleReader.pc = "idle" /\ IdleReader.plan.now <= clock
  BY IdleReaderType, ReaderHolds
<1>3. QED
  BY <1>1, <1>2, ReaderHolds, ReaderStep

LEMMA ActivateStartKeeps ==
    ASSUME IInv, NEW h \in Readers, ActivateStart(h) PROVE IInv'
<1> DEFINE plan == [reader[h].plan EXCEPT !.now = clock]
           new == [reader[h] EXCEPT !.pc = "starting", !.plan = plan]
<1>1. plan \in Plan /\ plan.now <= clock
  BY ReaderHolds DEF Plan
<1>2. /\ reader' = [reader EXCEPT ![h] = new]
      /\ UNCHANGED <<clock, request, grant, accepted, version, decision>>
  BY ReaderHolds DEF ActivateStart, Reader
<1> HIDE DEF plan
<1>3. new \in Reader /\ new.pc = "starting" /\ new.plan = plan
  BY <1>1, ReaderHolds DEF Reader
<1> HIDE DEF new
<1>4. QED
  BY <1>1, <1>2, <1>3, ReaderHolds, ReaderStep

LEMMA ActivateListKeeps ==
    ASSUME IInv, NEW h \in Readers, ActivateList(h) PROVE IInv'
<1> DEFINE plan == Listed(reader[h].plan, reader[h].person)
           new == [reader[h] EXCEPT !.pc = "listed", !.plan = plan]
<1>1. /\ plan \in Plan /\ plan.now = reader[h].plan.now
      /\ ListOK(plan, reader[h].person, grant)
  BY ReaderHolds, ListIsGood DEF IInv
<1>2. reader' = [reader EXCEPT ![h] = new]
  BY ReaderHolds DEF ActivateList, Reader
<1> HIDE DEF plan
<1>3. /\ new \in Reader /\ new.pc = "listed" /\ new.plan = plan
      /\ new.person = reader[h].person
  BY <1>1, ReaderHolds DEF Reader
<1>4. UNCHANGED <<clock, request, grant, accepted, version, decision>>
  BY DEF ActivateList
<1> HIDE DEF new
<1>5. QED
  BY <1>1, <1>2, <1>3, <1>4, ReaderHolds, ReaderStep

LEMMA ActivateReadKeeps ==
    ASSUME IInv, NEW h \in Readers, ActivateRead(h) PROVE IInv'
<1>1. PICK held \in Found(reader[h].person) :
        reader' = [reader EXCEPT ![h].pc = "activating", ![h].plan = Chosen(@, held)]
  BY DEF ActivateRead
<1> DEFINE plan == Chosen(reader[h].plan, held)
           new == [reader[h] EXCEPT !.pc = "activating", !.plan = plan]
<1>2. ListOK(reader[h].plan, reader[h].person, grant)
  BY DEF ActivateRead, IInv, ReaderOK
<1>3. /\ plan \in Plan /\ plan.now = reader[h].plan.now
      /\ PlanOK(plan, reader[h].person, grant, accepted)
  BY <1>2, ReaderHolds, ChosenIsGood DEF IInv
<1>4. reader' = [reader EXCEPT ![h] = new]
  BY <1>1, ReaderHolds DEF Reader
<1> HIDE DEF plan
<1>5. /\ new \in Reader /\ new.pc = "activating" /\ new.plan = plan
      /\ new.person = reader[h].person
  BY <1>3, ReaderHolds DEF Reader
<1>6. UNCHANGED <<clock, request, grant, accepted, version, decision>>
  BY DEF ActivateRead
<1> HIDE DEF new
<1>7. QED
  BY <1>3, <1>4, <1>5, <1>6, ReaderHolds, ReaderStep

LEMMA PublishKeeps ==
    ASSUME IInv, NEW t \in Templates, PublishVersion(t) PROVE IInv'
<1>1. TypeOK' /\ OwnDistinct' /\ clock \in Nat
  BY DEF IInv, TypeOK, PublishVersion, OwnDistinct, Drafting
<1>2. UNCHANGED <<clock, request, grant, accepted, decision, reader>>
  BY DEF PublishVersion
<1>3. QED
  BY <1>1, <1>2, QuietStep

LEMMA TickKeeps ==
    ASSUME IInv, Tick PROVE IInv'
<1>1. TypeOK' /\ OwnDistinct' /\ clock <= clock'
  BY DEF IInv, TypeOK, Tick, OwnDistinct, Drafting
<1>2. UNCHANGED <<request, grant, accepted, decision, reader>>
  BY DEF Tick
<1>3. QED
  BY <1>1, <1>2, QuietStep

-----------------------------------------------------------------------------
(* Committing a good plan: every row stays good and keeps what plans read. *)
LEMMA WithStartedGood ==
    ASSUME IInv, NEW plan \in Plan, NEW person \in Requesters,
           plan.now <= clock, PlanOK(plan, person, grant, accepted)
    PROVE  /\ WithStarted(plan) \in [Grants -> GrantRow]
           /\ \A g \in Grants :
                /\ KeepsRow(grant[g], WithStarted(plan)[g])
                /\ Minted(g) => RowOK(WithStarted(plan)[g], accepted, clock)
                /\ WithStarted(plan)[g].revokedAt = grant[g].revokedAt
                /\ WithStarted(plan)[g].closedAt = grant[g].closedAt
                /\ grant[g].expiresAt # Null =>
                     WithStarted(plan)[g].expiresAt = grant[g].expiresAt
<1> DEFINE new == WithStarted(plan)
<1>1. ASSUME NEW g \in Grants
      PROVE  /\ new[g] \in GrantRow
             /\ KeepsRow(grant[g], new[g])
             /\ Minted(g) => RowOK(new[g], accepted, clock)
             /\ new[g].revokedAt = grant[g].revokedAt
             /\ new[g].closedAt = grant[g].closedAt
             /\ grant[g].expiresAt # Null => new[g].expiresAt = grant[g].expiresAt
  <2>1. grant[g] \in GrantRow /\ clock \in Nat
    BY DEF IInv, TypeOK
  <2>2. CASE g \in plan.targets
    <3>1. TargetOK(grant[g], plan, person) /\ HeldOK(plan.held, person, accepted)
      BY <2>2 DEF PlanOK
    <3>2. Minted(g)
      BY <3>1, LifecycleAssumption DEF TargetOK, WaitOK, Minted
    <3>3. RowOK(grant[g], accepted, clock)
      BY <3>2 DEF IInv
    <3>4. new[g] = Started(grant[g], plan)
      BY <2>2 DEF WithStarted
    <3>5. QED
      BY <2>1, <3>1, <3>3, <3>4, StartedIsGood DEF KeepsRow
  <2>3. CASE g \notin plan.targets
    <3>1. new[g] = grant[g]
      BY <2>3 DEF WithStarted
    <3>2. QED
      BY <2>1, <3>1 DEF KeepsRow, IInv
  <2>4. QED
    BY <2>2, <2>3
<1>2. new = [g \in Grants |-> new[g]]
  BY DEF WithStarted
<1>3. QED
  BY <1>1, <1>2

LEMMA VerifyKeeps ==
    ASSUME IInv, NEW r \in Requests, VerifyRequest(r) PROVE IInv'
<1>1. UNCHANGED <<clock, accepted, version, decision, reader>> /\ clock \in Nat
  BY DEF VerifyRequest, IInv, TypeOK
<1>2. ASSUME NEW status \in {"denied", "pending"}, Verified(r, status), UNCHANGED grant
      PROVE  IInv'
  <2>1. TypeOK'
    BY <1>1, <1>2 DEF IInv, TypeOK, Verified, RequestRow, Statuses
  <2>2. /\ \A q \in Requests : request'[q].status = "approved"
                                  => request[q].status = "approved"
        /\ OwnDistinct'
    BY <1>1, <1>2 DEF IInv, TypeOK, Verified, RequestRow, OwnDistinct, Drafting
  <2>3. QED
    BY <1>1, <1>2, <2>1, <2>2, QuietStep
<1>3. ASSUME NEW g \in FreeGrants, Verified(r, "approved"),
             grant' = [grant EXCEPT ![g] = NewGrant(r, {})]
      PROVE  IInv'
  <2> DEFINE row == NewGrant(r, {})
  <2>1. row \in GrantRow /\ row.request = r /\ RowOK(row, accepted, clock)
    BY NewGrantGood DEF IInv, TypeOK
  <2> HIDE DEF row
  <2>2. /\ g \in Grants /\ ~ Minted(g)
        /\ \A d \in Deciders : Drafting(d) => decision[d].own # g
    BY DEF FreeGrants
  <2>3. /\ grant' \in [Grants -> GrantRow] /\ grant'[g] = row
        /\ \A k \in Grants \ {g} : grant'[k] = grant[k]
    BY <1>3, <2>1, <2>2 DEF IInv, TypeOK, row
  <2>4. TypeOK'
    BY ZenonT(40), <1>1, <1>3, <2>3 DEF IInv, TypeOK, Verified, RequestRow, Statuses
  <2>5. Frame
    BY <1>1, <2>2, <2>3, <2>4 DEF Frame, KeepsRow
  <2>6. \A k \in Grants : Minted(k)' => RowOK(grant'[k], accepted', clock')
    BY <1>1, <2>1, <2>3 DEF IInv, Minted
  <2>7. \A d \in Deciders : Drafting(d) => ~ Minted(decision[d].own)'
    <3>1. SUFFICES ASSUME NEW d \in Deciders, Drafting(d)
                   PROVE  ~ Minted(decision[d].own)'
      OBVIOUS
    <3>2. decision[d].own \in Grants /\ ~ Minted(decision[d].own) /\ decision[d].own # g
      BY <2>2, <3>1 DEF IInv, TypeOK, Decision, DecisionOK
    <3>3. QED
      BY <1>1, <2>3, <3>2 DEF Minted
  <2>8. ApprovedHasGrant'
    <3>1. ASSUME NEW q \in Requests, request'[q].status = "approved"
          PROVE  \E k \in Grants : grant'[k].request = q
      <4>1. CASE q = r
        BY <2>1, <2>2, <2>3, <4>1
      <4>2. CASE q # r
        <5>1. request[q].status = "approved"
          BY <1>3, <3>1, <4>2 DEF Verified, IInv, TypeOK
        <5>2. PICK k \in Grants : grant[k].request = q
          BY <5>1 DEF IInv, ApprovedHasGrant
        <5>3. k # g
          BY <2>2, <5>2, LifecycleAssumption DEF Minted
        <5>4. QED
          BY <2>3, <5>2, <5>3
      <4>3. QED
        BY <4>1, <4>2
    <3>2. QED
      BY <3>1 DEF ApprovedHasGrant
  <2>9. OwnDistinct'
    BY <1>1 DEF IInv, OwnDistinct, Drafting
  <2>10. QED
    BY <1>1, <2>5, <2>6, <2>7, <2>8, <2>9, WritingStep
<1>4. QED
  BY <1>2, <1>3 DEF VerifyRequest

LEMMA CloseKeeps ==
    ASSUME IInv, CloseUnaccepted PROVE IInv'
<1>1. UNCHANGED <<clock, request, accepted, version, decision, reader>> /\ clock \in Nat
  BY DEF CloseUnaccepted, IInv, TypeOK
<1>2. ASSUME NEW g \in Grants
      PROVE  /\ grant'[g] \in GrantRow
             /\ KeepsRow(grant[g], grant'[g])
             /\ Minted(g)' = Minted(g)
             /\ Minted(g) => RowOK(grant'[g], accepted, clock)
  <2>1. grant[g] \in GrantRow /\ (Minted(g) => RowOK(grant[g], accepted, clock))
    BY DEF IInv, TypeOK
  <2>2. grant'[g] = grant[g] \/ grant'[g] = [grant[g] EXCEPT !.closedAt = clock]
    BY DEF CloseUnaccepted
  <2>3. QED
    BY <1>1, <2>1, <2>2 DEF GrantRow, KeepsRow, Minted, RowOK
<1>3. grant' = [g \in Grants |-> grant'[g]]
  BY DEF CloseUnaccepted
<1>4. TypeOK'
  BY <1>1, <1>2, <1>3 DEF IInv, TypeOK
<1>5. Frame
  BY <1>1, <1>2, <1>4 DEF Frame
<1>6. /\ \A d \in Deciders : Drafting(d) => ~ Minted(decision[d].own)'
      /\ OwnDistinct'
  BY <1>1, <1>2 DEF IInv, TypeOK, Decision, DecisionOK, Drafting, OwnDistinct, Minted
<1>7. ApprovedHasGrant'
  BY <1>1, <1>5, FrameApproved
<1>8. QED
  BY <1>1, <1>2, <1>5, <1>6, <1>7, WritingStep

LEMMA RevokeKeeps ==
    ASSUME IInv, NEW k \in Grants, RevokeGrant(k) PROVE IInv'
<1>1. UNCHANGED <<clock, request, accepted, version, decision, reader>> /\ clock \in Nat
  BY DEF RevokeGrant, IInv, TypeOK
<1>2. ASSUME NEW g \in Grants
      PROVE  /\ grant'[g] \in GrantRow
             /\ KeepsRow(grant[g], grant'[g])
             /\ Minted(g)' = Minted(g)
             /\ Minted(g) => RowOK(grant'[g], accepted, clock)
  <2>1. grant[g] \in GrantRow /\ (Minted(g) => RowOK(grant[g], accepted, clock))
    BY DEF IInv, TypeOK
  <2>2. grant'[g] = grant[g] \/ grant'[g] = [grant[g] EXCEPT !.revokedAt = clock]
    BY DEF RevokeGrant, IInv, TypeOK
  <2>3. QED
    BY <1>1, <2>1, <2>2 DEF GrantRow, KeepsRow, Minted, RowOK
<1>3. grant' = [g \in Grants |-> grant'[g]]
  BY DEF RevokeGrant, IInv, TypeOK
<1>4. TypeOK'
  BY <1>1, <1>2, <1>3 DEF IInv, TypeOK
<1>5. Frame
  BY <1>1, <1>2, <1>4 DEF Frame
<1>6. /\ \A d \in Deciders : Drafting(d) => ~ Minted(decision[d].own)'
      /\ OwnDistinct'
  BY <1>1, <1>2 DEF IInv, TypeOK, Decision, DecisionOK, Drafting, OwnDistinct, Minted
<1>7. ApprovedHasGrant'
  BY <1>1, <1>5, FrameApproved
<1>8. QED
  BY <1>1, <1>2, <1>5, <1>6, <1>7, WritingStep

LEMMA ActivateCommitKeeps ==
    ASSUME IInv, NEW h \in Readers, ActivateCommit(h) PROVE IInv'
<1> DEFINE plan == reader[h].plan
<1>1. /\ UNCHANGED <<clock, request, accepted, version, decision>>
      /\ clock \in Nat
      /\ grant' = WithStarted(plan)
      /\ reader' = [reader EXCEPT ![h] = IdleReader]
  BY DEF ActivateCommit, IInv, TypeOK
<1>2. /\ plan \in Plan /\ reader[h].person \in Requesters
      /\ plan.now <= clock /\ PlanOK(plan, reader[h].person, grant, accepted)
  BY DEF ActivateCommit, IInv, TypeOK, Reader, ReaderOK
<1>3. /\ grant' \in [Grants -> GrantRow]
      /\ \A g \in Grants : /\ KeepsRow(grant[g], grant'[g])
                           /\ Minted(g) => RowOK(grant'[g], accepted, clock)
  BY <1>1, <1>2, WithStartedGood
<1>4. /\ reader' \in [Readers -> Reader] /\ ReaderOK(h)'
      /\ \A k \in Readers \ {h} : reader'[k] = reader[k]
  BY <1>1, IdleReaderType DEF IInv, TypeOK, ReaderOK
<1>5. TypeOK'
  BY <1>1, <1>3, <1>4 DEF IInv, TypeOK
<1>6. Frame
  BY <1>1, <1>3, <1>5 DEF Frame
<1>7. /\ \A g \in Grants : Minted(g)' = Minted(g)
      /\ \A d \in Deciders : Drafting(d) => ~ Minted(decision[d].own)'
      /\ OwnDistinct'
  BY <1>1, <1>3 DEF KeepsRow, Minted, IInv, TypeOK, Decision, DecisionOK, Drafting, OwnDistinct
<1>8. ApprovedHasGrant'
  BY <1>1, <1>6, FrameApproved
<1>9. QED
  BY <1>1, <1>3, <1>4, <1>6, <1>7, <1>8, WritingStep

LEMMA DecideCommitKeeps ==
    ASSUME IInv, NEW d \in Deciders, DecideCommit(d) PROVE IInv'
<1> DEFINE me == decision[d]
           started == WithStarted(me.plan)
<1>1. /\ UNCHANGED <<clock, accepted, version, reader>>
      /\ clock \in Nat
      /\ grant' = [started EXCEPT ![me.own] = me.row]
      /\ request' = [request EXCEPT ![me.request].status = "approved"]
      /\ decision' = [decision EXCEPT ![d] = IdleDecision]
      /\ me.pc = "approving"
  BY DEF DecideCommit, IInv, TypeOK
<1>2. /\ me \in Decision /\ me.request \in Requests
      /\ me.row.request = me.request /\ RowOK(me.row, accepted, clock)
      /\ me.plan.now <= clock /\ PlanOK(me.plan, Submitter[me.request], grant, accepted)
      /\ ~ Minted(me.own)
  BY <1>1 DEF IInv, TypeOK, DecisionOK, Drafting
<1>3. /\ me.row \in GrantRow /\ me.own \in Grants /\ me.plan \in Plan
      /\ Submitter[me.request] \in Requesters
  BY <1>2, LifecycleAssumption DEF Decision
<1>4. /\ started \in [Grants -> GrantRow]
      /\ \A g \in Grants : /\ KeepsRow(grant[g], started[g])
                           /\ Minted(g) => RowOK(started[g], accepted, clock)
  BY <1>2, <1>3, WithStartedGood
<1> HIDE DEF started
<1>5. /\ grant' \in [Grants -> GrantRow]
      /\ grant'[me.own] = me.row
      /\ \A g \in Grants \ {me.own} : grant'[g] = started[g]
  BY <1>1, <1>3, <1>4
<1>6. decision' \in [Deciders -> Decision] /\ DecisionOK(d)' /\ OwnDistinct'
  BY <1>1, IdleOwes
<1>7. \A e \in Deciders \ {d} : decision'[e] = decision[e]
  BY <1>1 DEF IInv, TypeOK
<1>8. /\ request' \in [Requests -> RequestRow]
      /\ \A r \in Requests \ {me.request} : request'[r] = request[r]
  BY <1>1, <1>2 DEF IInv, TypeOK, RequestRow, Statuses
<1>9. TypeOK'
  BY <1>1, <1>5, <1>6, <1>8 DEF IInv, TypeOK
<1>10. \A g \in Grants : Minted(g) => g # me.own /\ KeepsRow(grant[g], grant'[g])
  BY <1>2, <1>4, <1>5
<1>11. Frame
  BY <1>1, <1>9, <1>10 DEF Frame
<1>12. ASSUME NEW g \in Grants, Minted(g)'
       PROVE  RowOK(grant'[g], accepted', clock')
  <2>1. CASE g = me.own
    BY <1>1, <1>2, <1>5, <2>1
  <2>2. CASE g # me.own
    <3>1. grant'[g] = started[g] /\ Minted(g)
      BY <1>4, <1>5, <1>12, <2>2 DEF KeepsRow, Minted
    <3>2. QED
      BY <1>1, <1>4, <3>1
  <2>3. QED
    BY <2>1, <2>2
<1>13. ASSUME NEW e \in Deciders \ {d}, Drafting(e)
       PROVE  ~ Minted(decision[e].own)'
  <2>1. decision[e].own \in Grants /\ ~ Minted(decision[e].own)
    BY <1>13 DEF IInv, TypeOK, Decision, DecisionOK
  <2>2. decision[e].own # me.own
    BY <1>1, <1>13 DEF IInv, OwnDistinct, Drafting
  <2>3. grant'[decision[e].own] = started[decision[e].own]
    BY <1>5, <2>1, <2>2
  <2>4. QED
    BY <1>4, <1>7, <2>1, <2>3 DEF KeepsRow, Minted
<1>14. ASSUME NEW r \in Requests, request'[r].status = "approved"
       PROVE  \E g \in Grants : grant'[g].request = r
  <2>1. CASE r = me.request
    BY <1>2, <1>3, <1>5, <2>1
  <2>2. CASE r # me.request
    <3>1. PICK g \in Grants : grant[g].request = r
      BY <1>8, <1>14, <2>2 DEF IInv, ApprovedHasGrant
    <3>2. grant'[g].request = r
      BY <1>10, <3>1, LifecycleAssumption DEF Minted, KeepsRow
    <3>3. QED
      BY <3>2
  <2>3. QED
    BY <2>1, <2>2
<1>15. ApprovedHasGrant'
  BY <1>14 DEF ApprovedHasGrant
<1>16. QED
  BY <1>1, <1>6, <1>7, <1>11, <1>12, <1>13, <1>15, WritingStep

-----------------------------------------------------------------------------
(* No step, by whichever actor and after whatever others did between its   *)
(* read and its write, leaves the invariant.                               *)
LEMMA StepKeeps == ASSUME IInv, [Next]_vars PROVE IInv'
<1>1. CASE UNCHANGED vars
  <2>1. UNCHANGED <<clock, request, grant, accepted, version, decision, reader>>
    BY <1>1 DEF vars
  <2>2. TypeOK' /\ OwnDistinct' /\ clock <= clock'
    BY <2>1 DEF IInv, TypeOK, OwnDistinct, Drafting
  <2>3. QED
    BY <2>1, <2>2, QuietStep
<1>2. CASE \E r \in Requests : SubmitRequest(r) \/ VerifyRequest(r)
  BY <1>2, SubmitKeeps, VerifyKeeps
<1>3. CASE SweepUnverified
  BY <1>3, SweepKeeps
<1>4. CASE \E d \in Deciders :
          \/ \E r \in Requests : DecideOpen(d, r)
          \/ DecideWithoutGrant(d, "info_requested")
          \/ DecideWithoutGrant(d, "denied")
          \/ DecideApprove(d)
          \/ DecideStart(d)
          \/ DecideList(d)
          \/ DecideLookup(d)
          \/ DecideCommit(d)
          \/ DecideRollback(d)
  BY <1>4, DecideOpenKeeps, DecideWithoutGrantKeeps, DecideApproveKeeps,
     DecideStartKeeps, DecideListKeeps, DecideLookupKeeps,
     DecideCommitKeeps, DecideRollbackKeeps
<1>5. CASE \E h \in Readers :
          \/ \E p \in Requesters, t \in Templates : OpenAgreement(h, p, t)
          \/ RecordAcceptance(h)
          \/ VersionMoved(h)
          \/ HandlerFails(h)
          \/ ActivateStart(h)
          \/ ActivateList(h)
          \/ ActivateRead(h)
          \/ ActivateCommit(h)
  BY <1>5, OpenAgreementKeeps, RecordAcceptanceKeeps, LeaveKeeps,
     ActivateStartKeeps, ActivateListKeeps, ActivateReadKeeps, ActivateCommitKeeps
<1>6. CASE CloseUnaccepted \/ \E g \in Grants : RevokeGrant(g)
  BY <1>6, CloseKeeps, RevokeKeeps
<1>7. CASE (\E t \in Templates : PublishVersion(t)) \/ Tick
  BY <1>7, PublishKeeps, TickKeeps
<1>8. QED
  BY <1>1, <1>2, <1>3, <1>4, <1>5, <1>6, <1>7 DEF Next

(* The inductive invariant holds in every reachable state, for any number  *)
(* of requests, grants, agreements and concurrent actors.                  *)
THEOREM LifecycleInvariant == Spec => []IInv
<1>1. Init => IInv
  BY InitGood
<1>2. IInv /\ [Next]_vars => IInv'
  BY StepKeeps
<1>3. QED
  BY <1>1, <1>2, PTL DEF Spec

(* Every value keeps its type (requests.ts, grants.ts, activation.ts).     *)
THEOREM TypeCorrect == Spec => []TypeOK
<1>1. IInv => TypeOK
  BY DEF IInv
<1>2. QED
  BY <1>1, LifecycleInvariant, PTL

(* activateGrants never starts a clock on less than what the grant         *)
(* requires, although it locks nothing between its reads and its UPDATE.   *)
THEOREM OnlyAcceptedGrantsRun == Spec => []StartedOnAcceptances
<1>1. IInv => StartedOnAcceptances
  BY DEF IInv, StartedOnAcceptances, RowOK, Holder
<1>2. QED
  BY <1>1, LifecycleInvariant, PTL

(* A late commit starts the clock at the instant its activation began,     *)
(* which is before the deadline of every row it listed and never ahead of  *)
(* the clock: no waiting grant outlives its deadline by more than a term,  *)
(* and none has more than a term left.                                     *)
THEOREM ClocksStartInTheirWindow == Spec => []ClockStartsInWindow
<1>1. IInv => ClockStartsInWindow
  BY DEF IInv, ClockStartsInWindow, RowOK
<1>2. QED
  BY <1>1, LifecycleInvariant, PTL

(* access_grant_inert_check: what waits has the deadline it was given.     *)
THEOREM EveryWaitIsDated == Spec => []WaitingHasDeadline
<1>1. IInv => WaitingHasDeadline
  BY DEF IInv, WaitingHasDeadline, RowOK, Inert
<1>2. QED
  BY <1>1, LifecycleInvariant, PTL

(* decideRequest and verifyRequest commit a status with its grant, and no  *)
(* other transaction parts them.                                           *)
THEOREM ApprovalsAreAnswered == Spec => []ApprovedHasGrant
<1>1. IInv => ApprovedHasGrant
  BY DEF IInv
<1>2. QED
  BY <1>1, LifecycleInvariant, PTL

-----------------------------------------------------------------------------
(* EndsAreFinal, of one row and one step. *)
KeepsEnds(row, new) ==
    /\ row.expiresAt # Null => new.expiresAt = row.expiresAt
    /\ row.revokedAt # Null => new.revokedAt = row.revokedAt
    /\ row.closedAt # Null => new.closedAt = row.closedAt

LEMMA ActivationKeepsEnds ==
    ASSUME IInv, NEW g \in Grants, Minted(g),
           NEW plan \in Plan, NEW person \in Requesters,
           plan.now <= clock, PlanOK(plan, person, grant, accepted)
    PROVE  KeepsEnds(grant[g], WithStarted(plan)[g])
BY WithStartedGood DEF KeepsEnds

LEMMA DecisionKeepsEnds ==
    ASSUME IInv, NEW g \in Grants, Minted(g), NEW d \in Deciders, DecideCommit(d)
    PROVE  KeepsEnds(grant[g], grant'[g])
<1> DEFINE me == decision[d]
           started == WithStarted(me.plan)
<1>1. me \in Decision /\ me.request \in Requests /\ ~ Minted(me.own)
      /\ me.plan.now <= clock /\ PlanOK(me.plan, Submitter[me.request], grant, accepted)
  BY DEF DecideCommit, IInv, TypeOK, DecisionOK, Drafting
<1>2. me.plan \in Plan /\ Submitter[me.request] \in Requesters
  BY <1>1, LifecycleAssumption DEF Decision
<1>3. started \in [Grants -> GrantRow] /\ KeepsEnds(grant[g], started[g])
  BY <1>1, <1>2, WithStartedGood, ActivationKeepsEnds
<1>4. grant' = [started EXCEPT ![me.own] = me.row]
  BY DEF DecideCommit
<1> HIDE DEF started
<1>5. grant'[g] = started[g]
  BY <1>1, <1>3, <1>4
<1>6. QED
  BY <1>3, <1>5

LEMMA StepKeepsEnds ==
    ASSUME IInv, [Next]_vars, NEW g \in Grants, Minted(g)
    PROVE  KeepsEnds(grant[g], grant'[g])
<1>1. CASE grant' = grant
  BY <1>1 DEF KeepsEnds
<1>2. CASE \E r \in Requests : VerifyRequest(r)
  <2>1. PICK r \in Requests : VerifyRequest(r)
    BY <1>2
  <2>2. CASE \E k \in FreeGrants : grant' = [grant EXCEPT ![k] = NewGrant(r, {})]
    <3>1. PICK k \in FreeGrants : grant' = [grant EXCEPT ![k] = NewGrant(r, {})]
      BY <2>2
    <3>2. k \in Grants /\ k # g
      BY <3>1 DEF FreeGrants
    <3>3. grant'[g] = grant[g]
      BY <3>1, <3>2 DEF IInv, TypeOK
    <3>4. QED
      BY <3>3 DEF KeepsEnds
  <2>3. QED
    BY <1>1, <2>1, <2>2 DEF VerifyRequest
<1>3. CASE \E d \in Deciders : DecideCommit(d)
  BY <1>3, DecisionKeepsEnds
<1>4. CASE \E h \in Readers : ActivateCommit(h)
  <2>1. PICK h \in Readers : ActivateCommit(h)
    BY <1>4
  <2>2. /\ reader[h].plan \in Plan /\ reader[h].person \in Requesters
        /\ PlanOK(reader[h].plan, reader[h].person, grant, accepted)
        /\ reader[h].plan.now <= clock
    BY <2>1 DEF ActivateCommit, IInv, TypeOK, Reader, ReaderOK
  <2>3. QED
    BY <2>1, <2>2, ActivationKeepsEnds DEF ActivateCommit
<1>5. CASE CloseUnaccepted
  <2>1. \/ grant'[g] = grant[g]
        \/ grant[g].closedAt = Null /\ grant'[g] = [grant[g] EXCEPT !.closedAt = clock]
    BY <1>5 DEF CloseUnaccepted, Lapsed
  <2>2. QED
    BY <2>1 DEF KeepsEnds, IInv, TypeOK, GrantRow
<1>6. CASE \E k \in Grants : RevokeGrant(k)
  <2>1. \/ grant'[g] = grant[g]
        \/ grant[g].revokedAt = Null /\ grant'[g] = [grant[g] EXCEPT !.revokedAt = clock]
    BY <1>6 DEF RevokeGrant, IInv, TypeOK
  <2>2. QED
    BY <2>1 DEF KeepsEnds, IInv, TypeOK, GrantRow
<1>7. QED
  BY <1>1, <1>2, <1>3, <1>4, <1>5, <1>6
  DEF Next, vars, SubmitRequest, SweepUnverified, DecideOpen, DecideWithoutGrant,
      DecideApprove, DecideStart, DecideList, DecideLookup, DecideRollback,
      OpenAgreement, RecordAcceptance, VersionMoved, HandlerFails,
      ActivateStart, ActivateList, ActivateRead, PublishVersion, Tick

(* However activations, revocations and the sweep interleave, what ended a *)
(* grant, and what started it, is written once.                            *)
THEOREM EndsNeverRewritten == Spec => EndsAreFinal
<1>1. IInv /\ [Next]_vars =>
        [\A g \in Grants : Minted(g) =>
           /\ grant[g].expiresAt # Null => grant'[g].expiresAt = grant[g].expiresAt
           /\ grant[g].revokedAt # Null => grant'[g].revokedAt = grant[g].revokedAt
           /\ grant[g].closedAt # Null => grant'[g].closedAt = grant[g].closedAt]_vars
  BY StepKeepsEnds DEF KeepsEnds
<1>2. QED
  BY <1>1, LifecycleInvariant, PTL DEF Spec, EndsAreFinal

-----------------------------------------------------------------------------
(* One grant per request.  decideRequest does not lock the request it      *)
(* reads, so the promise needs what a lock would give: no two decisions of *)
(* one request at a time.  Then a request somebody is deciding still waits *)
(* for its decision, and one that has a grant waits for none.              *)
DecidedAlone ==
    \A d, e \in Deciders :
        /\ decision[d].pc # "idle" /\ decision[e].pc # "idle"
        /\ decision[d].request = decision[e].request
        => d = e

Awaits(rows, r) == rows[r].status \in {"pending", "info_requested"}

AnsweredOnce ==
    /\ OneGrantPerRequest
    /\ \A g \in Grants : Minted(g) => request[grant[g].request].status = "approved"
    /\ \A d \in Deciders : decision[d].pc # "idle" => Awaits(request, decision[d].request)

SameAnswers == \A g \in Grants : grant'[g].request = grant[g].request

LEMMA GrantsAnswer ==
    ASSUME IInv, NEW g \in Grants, Minted(g) PROVE grant[g].request \in Requests
<1>1. grant[g] \in GrantRow
  BY DEF IInv, TypeOK
<1>2. QED
  BY <1>1 DEF GrantRow, Minted

LEMMA DecisionsAsk ==
    ASSUME IInv, NEW d \in Deciders, decision[d].pc # "idle"
    PROVE  decision[d].request \in Requests
<1>1. decision[d] \in Decision /\ DecisionOK(d)
  BY DEF IInv, TypeOK
<1>2. QED
  BY <1>1 DEF Decision, DecisionOK

(* A step that mints no grant, ends no wait but that of a request nobody   *)
(* else is deciding, and starts deciding only what waits.                  *)
LEMMA NoGrantStep ==
    ASSUME IInv, AnsweredOnce, SameAnswers,
           \A g \in Grants : Minted(g) =>
              request'[grant[g].request].status = "approved",
           \A d \in Deciders :
              \/ decision'[d].pc = "idle"
              \/ Awaits(request', decision'[d].request)
    PROVE  AnsweredOnce'
<1>1. \A g \in Grants : grant'[g].request = grant[g].request
  BY DEF SameAnswers
<1>2. \A g \in Grants : Minted(g)' <=> Minted(g)
  BY <1>1 DEF Minted
<1>3. OneGrantPerRequest'
  <2>1. SUFFICES ASSUME NEW g \in Grants, NEW h \in Grants, Minted(g)',
                        grant'[g].request = grant'[h].request
                 PROVE  g = h
    BY DEF OneGrantPerRequest
  <2>2. Minted(g) /\ grant[g].request = grant[h].request
    BY <1>1, <1>2, <2>1
  <2>3. QED
    BY <2>2 DEF AnsweredOnce, OneGrantPerRequest
<1>4. \A g \in Grants : Minted(g)' => request'[grant'[g].request].status = "approved"
  BY <1>1, <1>2
<1>5. QED
  BY <1>3, <1>4 DEF AnsweredOnce

(* A grant for a request that has none, which is approved with it.         *)
LEMMA GrantStep ==
    ASSUME IInv, AnsweredOnce, NEW r \in Requests, NEW k \in Grants,
           ~ Minted(k), request[r].status # "approved",
           grant'[k].request = r,
           \A g \in Grants : g # k => grant'[g].request = grant[g].request,
           request'[r].status = "approved",
           \A q \in Requests : q # r => request'[q] = request[q],
           \A d \in Deciders :
              \/ decision'[d].pc = "idle"
              \/ decision'[d] = decision[d] /\ decision[d].request # r
    PROVE  AnsweredOnce'
<1>1. \A g \in Grants : Minted(g) => grant[g].request \in Requests /\ grant[g].request # r
  BY GrantsAnswer DEF AnsweredOnce
<1>2. \A g \in Grants : Minted(g)' <=> (Minted(g) \/ g = k)
  BY LifecycleAssumption DEF Minted
<1>3. OneGrantPerRequest'
  <2>1. SUFFICES ASSUME NEW g \in Grants, NEW h \in Grants, Minted(g)',
                        grant'[g].request = grant'[h].request
                 PROVE  g = h
    BY DEF OneGrantPerRequest
  <2>2. Minted(h)'
    BY <2>1 DEF Minted
  <2>3. CASE g = k \/ h = k
    <3>1. \A m \in Grants : m # k /\ Minted(m)' => grant'[m].request # r
      BY <1>1, <1>2
    <3>2. QED
      BY <2>1, <2>2, <2>3, <3>1
  <2>4. CASE g # k /\ h # k
    <3>1. Minted(g) /\ grant[g].request = grant[h].request
      BY <1>2, <2>1, <2>4
    <3>2. QED
      BY <3>1 DEF AnsweredOnce, OneGrantPerRequest
  <2>5. QED
    BY <2>3, <2>4
<1>4. \A g \in Grants : Minted(g)' => request'[grant'[g].request].status = "approved"
  BY <1>1, <1>2 DEF AnsweredOnce
<1>5. ASSUME NEW d \in Deciders, decision'[d].pc # "idle"
      PROVE  Awaits(request', decision'[d].request)
  <2>1. decision'[d] = decision[d] /\ decision[d].request # r
    BY <1>5
  <2>2. Awaits(request, decision[d].request) /\ decision[d].request \in Requests
    BY <1>5, <2>1, DecisionsAsk DEF AnsweredOnce
  <2>3. QED
    BY <2>1, <2>2 DEF Awaits
<1>6. QED
  BY <1>3, <1>4, <1>5 DEF AnsweredOnce

(* Starting, closing and revoking grants leave every row to its request.   *)
LEMMA StartsKeepAnswers ==
    ASSUME IInv, NEW plan \in Plan, NEW person \in Requesters,
           plan.now <= clock, PlanOK(plan, person, grant, accepted)
    PROVE  \A g \in Grants : WithStarted(plan)[g].request = grant[g].request
<1>1. \A g \in Grants : KeepsRow(grant[g], WithStarted(plan)[g])
  BY WithStartedGood
<1>2. QED
  BY <1>1 DEF KeepsRow

LEMMA EndsKeepAnswers ==
    ASSUME IInv, CloseUnaccepted \/ \E g \in Grants : RevokeGrant(g)
    PROVE  SameAnswers
<1>1. ASSUME NEW g \in Grants PROVE grant'[g].request = grant[g].request
  <2>1. grant[g] \in GrantRow /\ grant \in [Grants -> GrantRow]
    BY DEF IInv, TypeOK
  <2>2. \/ grant'[g] = grant[g]
        \/ grant'[g] = [grant[g] EXCEPT !.closedAt = clock]
        \/ grant'[g] = [grant[g] EXCEPT !.revokedAt = clock]
    BY <2>1 DEF CloseUnaccepted, RevokeGrant
  <2>3. QED
    BY <2>1, <2>2 DEF GrantRow
<1>2. QED
  BY <1>1 DEF SameAnswers

(* The decisions under way that a step leaves alone still decide what      *)
(* waits, when no status of theirs is touched.                             *)
LEMMA OthersAwait ==
    ASSUME IInv, AnsweredOnce, NEW d \in Deciders, decision'[d] = decision[d],
           decision[d].pc # "idle",
           request'[decision[d].request].status = request[decision[d].request].status
    PROVE  Awaits(request', decision'[d].request)
BY DEF AnsweredOnce, Awaits

LEMMA IdleNow ==
    ASSUME IInv, NEW d \in Deciders, decision' = [decision EXCEPT ![d] = IdleDecision]
    PROVE  /\ decision'[d].pc = "idle"
           /\ \A e \in Deciders : e # d => decision'[e] = decision[e]
BY DEF IInv, TypeOK, IdleDecision

LEMMA OpenKeepsOne ==
    ASSUME IInv, AnsweredOnce, NEW d \in Deciders, NEW r \in Requests, DecideOpen(d, r)
    PROVE  AnsweredOnce'
<1>1. /\ decision \in [Deciders -> Decision]
      /\ decision' = [decision EXCEPT ![d] = [decision[d] EXCEPT !.pc = "open", !.request = r]]
  BY DEF DecideOpen, IInv, TypeOK
<1>2. /\ decision'[d].request = r
      /\ \A e \in Deciders : e # d => decision'[e] = decision[e]
  BY <1>1 DEF Decision
<1>3. Awaits(request, r) /\ request' = request /\ SameAnswers
  BY DEF DecideOpen, Awaits, SameAnswers
<1>4. \A e \in Deciders : decision'[e].pc = "idle" \/ Awaits(request', decision'[e].request)
  BY <1>2, <1>3, OthersAwait
<1>5. QED
  BY <1>3, <1>4, NoGrantStep DEF AnsweredOnce

(* Minting and planning change the decision, not what it decides. *)
LEMMA ApproveKeepsOne ==
    ASSUME IInv, AnsweredOnce, NEW d \in Deciders,
           \/ DecideApprove(d) \/ DecideStart(d)
           \/ DecideList(d) \/ DecideLookup(d)
    PROVE  AnsweredOnce'
<1>1. /\ decision \in [Deciders -> Decision]
      /\ decision[d].pc # "idle" /\ request' = request /\ grant' = grant
  BY DEF DecideApprove, DecideStart, DecideList, DecideLookup, IInv, TypeOK
<1>2. /\ decision'[d].request = decision[d].request
      /\ \A e \in Deciders : e # d => decision'[e] = decision[e]
  <2>1. ASSUME NEW pc, NEW plan, NEW own, NEW row,
               decision' = [decision EXCEPT ![d] = [decision[d] EXCEPT
                              !.pc = pc, !.plan = plan, !.own = own, !.row = row]]
        PROVE  /\ decision'[d].request = decision[d].request
               /\ \A e \in Deciders : e # d => decision'[e] = decision[e]
    BY <1>1, <2>1 DEF Decision
  <2>2. \E pc, plan, own, row :
          decision' = [decision EXCEPT ![d] = [decision[d] EXCEPT
                         !.pc = pc, !.plan = plan, !.own = own, !.row = row]]
    <3>1. CASE DecideApprove(d)
      <4>1. PICK g \in FreeGrants, required \in SUBSET Templates :
              decision' = [decision EXCEPT ![d].pc = "minted", ![d].own = g,
                             ![d].row = NewGrant(decision[d].request, required)]
        BY <3>1 DEF DecideApprove
      <4> DEFINE row == NewGrant(decision[d].request, required)
      <4> HIDE DEF row
      <4>2. decision' = [decision EXCEPT ![d] = [decision[d] EXCEPT
              !.pc = "minted", !.plan = decision[d].plan, !.own = g, !.row = row]]
        BY <1>1, <4>1 DEF row, Decision
      <4>3. QED
        BY <4>2
    <3>2. CASE DecideStart(d)
      <4> DEFINE plan == [decision[d].plan EXCEPT !.now = clock]
      <4>1. decision' = [decision EXCEPT ![d] = [decision[d] EXCEPT !.pc = "starting",
              !.plan = plan, !.own = decision[d].own, !.row = decision[d].row]]
        BY <1>1, <3>2 DEF DecideStart, Decision
      <4>2. QED
        BY <4>1
    <3>3. CASE DecideList(d)
      <4> DEFINE plan == Listed(decision[d].plan, Submitter[decision[d].request])
      <4>1. decision' = [decision EXCEPT ![d] = [decision[d] EXCEPT !.pc = "listed",
              !.plan = plan, !.own = decision[d].own, !.row = decision[d].row]]
        BY <1>1, <3>3 DEF DecideList, Decision
      <4>2. QED
        BY <4>1
    <3>4. CASE DecideLookup(d)
      <4> DEFINE row(held) ==
            IF /\ StillWaits(decision[d].row, decision[d].plan.now)
               /\ Satisfied(decision[d].row, held)
            THEN Started(decision[d].row, Chosen(decision[d].plan, held))
            ELSE decision[d].row
      <4>1. PICK held \in Found(Submitter[decision[d].request]) :
              decision' = [decision EXCEPT ![d].pc = "approving",
                             ![d].plan = Chosen(@, held), ![d].row = row(held)]
        BY <3>4 DEF DecideLookup
      <4> HIDE DEF row
      <4>2. decision' = [decision EXCEPT ![d] = [decision[d] EXCEPT !.pc = "approving",
              !.plan = Chosen(decision[d].plan, held), !.own = decision[d].own,
              !.row = row(held)]]
        BY <1>1, <4>1 DEF Decision
      <4>3. QED
        BY <4>2
    <3>5. QED
      BY <3>1, <3>2, <3>3, <3>4
  <2>3. QED
    BY <2>1, <2>2
<1>3. Awaits(request', decision'[d].request)
  BY <1>1, <1>2 DEF AnsweredOnce
<1>4. \A e \in Deciders : decision'[e].pc = "idle" \/ Awaits(request', decision'[e].request)
  BY <1>1, <1>2, <1>3, OthersAwait
<1>5. QED
  BY <1>1, <1>4, NoGrantStep DEF AnsweredOnce, SameAnswers

LEMMA RollbackKeepsOne ==
    ASSUME IInv, AnsweredOnce, NEW d \in Deciders, DecideRollback(d)
    PROVE  AnsweredOnce'
<1>1. /\ request' = request /\ SameAnswers
      /\ decision'[d].pc = "idle"
      /\ \A e \in Deciders : e # d => decision'[e] = decision[e]
  BY IdleNow DEF DecideRollback, SameAnswers
<1>2. \A e \in Deciders : decision'[e].pc = "idle" \/ Awaits(request', decision'[e].request)
  BY <1>1, OthersAwait
<1>3. QED
  BY <1>1, <1>2, NoGrantStep DEF AnsweredOnce

LEMMA NoGrantKeepsOne ==
    ASSUME IInv, AnsweredOnce, DecidedAlone, NEW d \in Deciders, NEW status,
           DecideWithoutGrant(d, status)
    PROVE  AnsweredOnce'
<1> DEFINE r == decision[d].request
<1>1. /\ request' = [request EXCEPT ![r].status = status]
      /\ decision[d].pc = "open" /\ SameAnswers
  BY DEF DecideWithoutGrant, SameAnswers
<1>2. r \in Requests /\ Awaits(request, r)
  BY <1>1, DecisionsAsk DEF AnsweredOnce
<1>3. \A q \in Requests : q # r => request'[q] = request[q]
  BY <1>1 DEF IInv, TypeOK
<1>4. /\ decision'[d].pc = "idle"
      /\ \A e \in Deciders : e # d => decision'[e] = decision[e]
  BY IdleNow DEF DecideWithoutGrant
<1>5. ASSUME NEW g \in Grants, Minted(g)
      PROVE  request'[grant[g].request].status = "approved"
  <2>1. grant[g].request \in Requests /\ request[grant[g].request].status = "approved"
    BY <1>5, GrantsAnswer DEF AnsweredOnce
  <2>2. grant[g].request # r
    BY <1>2, <2>1 DEF Awaits
  <2>3. QED
    BY <1>3, <2>1, <2>2
<1>6. ASSUME NEW e \in Deciders, decision'[e].pc # "idle"
      PROVE  Awaits(request', decision'[e].request)
  <2>1. e # d /\ decision'[e] = decision[e] /\ decision[e].pc # "idle"
    BY <1>4, <1>6
  <2>2. decision[e].request # r /\ decision[e].request \in Requests
    BY <1>1, <2>1, DecisionsAsk DEF DecidedAlone
  <2>3. QED
    BY <1>3, <2>1, <2>2, OthersAwait
<1>7. QED
  BY <1>1, <1>5, <1>6, NoGrantStep

LEMMA CommitKeepsOne ==
    ASSUME IInv, AnsweredOnce, DecidedAlone, NEW d \in Deciders, DecideCommit(d)
    PROVE  AnsweredOnce'
<1> DEFINE me == decision[d]
           r == me.request
           started == WithStarted(me.plan)
<1>1. /\ r \in Requests /\ me \in Decision /\ me.row.request = r
      /\ me.plan.now <= clock /\ PlanOK(me.plan, Submitter[r], grant, accepted)
      /\ ~ Minted(me.own) /\ Awaits(request, r) /\ me.pc = "approving"
  BY DEF DecideCommit, IInv, TypeOK, DecisionOK, Drafting, AnsweredOnce
<1>2. me.own \in Grants /\ me.plan \in Plan /\ Submitter[r] \in Requesters
  BY <1>1, LifecycleAssumption DEF Decision
<1>3. /\ started \in [Grants -> GrantRow]
      /\ \A g \in Grants : started[g].request = grant[g].request
  BY <1>1, <1>2, WithStartedGood DEF KeepsRow
<1>4. grant' = [started EXCEPT ![me.own] = me.row]
  BY DEF DecideCommit
<1> HIDE DEF started
<1>5. grant'[me.own].request = r
  BY <1>1, <1>2, <1>3, <1>4
<1>6. \A g \in Grants : g # me.own => grant'[g].request = grant[g].request
  BY <1>2, <1>3, <1>4
<1>7. /\ request'[r].status = "approved"
      /\ \A q \in Requests : q # r => request'[q] = request[q]
  BY <1>1 DEF DecideCommit, IInv, TypeOK, RequestRow
<1>8. /\ decision'[d].pc = "idle"
      /\ \A e \in Deciders : e # d => decision'[e] = decision[e]
  BY IdleNow DEF DecideCommit
<1>9. \A e \in Deciders :
         \/ decision'[e].pc = "idle"
         \/ decision'[e] = decision[e] /\ decision[e].request # r
  BY <1>1, <1>8 DEF DecidedAlone
<1>10. request[r].status # "approved"
  BY <1>1 DEF Awaits
<1> HIDE DEF r
<1>11. QED
  BY <1>1, <1>2, <1>5, <1>6, <1>7, <1>9, <1>10, GrantStep DEF r

LEMMA RequestersKeepOne ==
    ASSUME IInv, AnsweredOnce, NEW r \in Requests, SubmitRequest(r) \/ VerifyRequest(r)
    PROVE  AnsweredOnce'
<1>1. decision' = decision /\ request[r].status \in {"none", "unverified"}
  BY Zenon DEF SubmitRequest, VerifyRequest
<1>2. \A d \in Deciders : decision[d].pc # "idle" =>
         decision[d].request # r /\ decision[d].request \in Requests
  BY <1>1, DecisionsAsk DEF AnsweredOnce, Awaits
<1>3. \A g \in Grants : Minted(g) =>
         grant[g].request # r /\ grant[g].request \in Requests
  BY <1>1, GrantsAnswer DEF AnsweredOnce
<1>4. \A q \in Requests : q # r => request'[q] = request[q]
  BY DEF SubmitRequest, VerifyRequest, Verified, IInv, TypeOK
<1>5. \A d \in Deciders : decision'[d].pc = "idle" \/ Awaits(request', decision'[d].request)
  BY <1>1, <1>2, <1>4, OthersAwait
<1>6. CASE grant' = grant
  <2>1. \A g \in Grants : Minted(g) => request'[grant[g].request].status = "approved"
    BY <1>3, <1>4 DEF AnsweredOnce
  <2>2. QED
    BY <1>5, <1>6, <2>1, NoGrantStep DEF SameAnswers
<1>7. ASSUME NEW k \in FreeGrants, Verified(r, "approved"),
             grant' = [grant EXCEPT ![k] = NewGrant(r, {})]
      PROVE  AnsweredOnce'
  <2>1. k \in Grants /\ ~ Minted(k)
    BY DEF FreeGrants
  <2>2. NewGrant(r, {}).request = r
    BY DEF NewGrant
  <2>3. /\ grant'[k].request = r
        /\ \A g \in Grants : g # k => grant'[g].request = grant[g].request
    BY <1>7, <2>1, <2>2 DEF IInv, TypeOK
  <2>4. request'[r].status = "approved"
    BY <1>7 DEF Verified, IInv, TypeOK, RequestRow
  <2>5. QED
    BY <1>1, <1>2, <1>4, <2>1, <2>3, <2>4, GrantStep
<1>8. QED
  BY <1>6, <1>7 DEF SubmitRequest, VerifyRequest

LEMMA SweepKeepsOne == ASSUME IInv, AnsweredOnce, SweepUnverified PROVE AnsweredOnce'
<1>1. SameAnswers /\ decision' = decision
  BY DEF SweepUnverified, SameAnswers
<1>2. \A q \in Requests : request[q].status # "unverified" => request'[q] = request[q]
  BY DEF SweepUnverified, Sweepable
<1>3. \A g \in Grants : Minted(g) => request'[grant[g].request].status = "approved"
  BY <1>2, GrantsAnswer DEF AnsweredOnce
<1>4. ASSUME NEW d \in Deciders, decision[d].pc # "idle"
      PROVE  Awaits(request', decision'[d].request)
  <2>1. Awaits(request, decision[d].request) /\ decision[d].request \in Requests
    BY <1>4, DecisionsAsk DEF AnsweredOnce
  <2>2. request'[decision[d].request] = request[decision[d].request]
    BY <1>2, <2>1 DEF Awaits
  <2>3. QED
    BY <1>1, <1>4, <2>2, OthersAwait
<1>5. QED
  BY <1>1, <1>3, <1>4, NoGrantStep

LEMMA StepKeepsOne ==
    ASSUME IInv, AnsweredOnce, DecidedAlone, [Next]_vars
    PROVE  AnsweredOnce'
<1>1. ASSUME SameAnswers, request' = request, decision' = decision
      PROVE  AnsweredOnce'
  <2>1. \A d \in Deciders : decision'[d].pc = "idle" \/ Awaits(request', decision'[d].request)
    BY <1>1 DEF AnsweredOnce
  <2>2. QED
    BY <1>1, <2>1, NoGrantStep DEF AnsweredOnce
<1>2. CASE \E r \in Requests : SubmitRequest(r) \/ VerifyRequest(r)
  BY <1>2, RequestersKeepOne
<1>3. CASE SweepUnverified
  BY <1>3, SweepKeepsOne
<1>4. CASE \E d \in Deciders : DecideCommit(d)
  BY <1>4, CommitKeepsOne
<1>5. CASE \E d \in Deciders :
          \/ \E r \in Requests : DecideOpen(d, r)
          \/ DecideWithoutGrant(d, "info_requested")
          \/ DecideWithoutGrant(d, "denied")
          \/ DecideApprove(d)
          \/ DecideStart(d)
          \/ DecideList(d)
          \/ DecideLookup(d)
          \/ DecideRollback(d)
  BY <1>5, OpenKeepsOne, NoGrantKeepsOne, ApproveKeepsOne, RollbackKeepsOne
<1>6. CASE \E h \in Readers : ActivateCommit(h)
  <2>1. PICK h \in Readers : ActivateCommit(h)
    BY <1>6
  <2>2. /\ reader[h].plan \in Plan /\ reader[h].person \in Requesters
        /\ PlanOK(reader[h].plan, reader[h].person, grant, accepted)
        /\ reader[h].plan.now <= clock
    BY <2>1 DEF ActivateCommit, IInv, TypeOK, Reader, ReaderOK
  <2>3. QED
    BY <1>1, <2>1, <2>2, StartsKeepAnswers DEF ActivateCommit, SameAnswers
<1>7. CASE CloseUnaccepted \/ \E g \in Grants : RevokeGrant(g)
  BY <1>1, <1>7, EndsKeepAnswers DEF CloseUnaccepted, RevokeGrant
<1>8. CASE grant' = grant /\ request' = request /\ decision' = decision
  BY <1>1, <1>8 DEF SameAnswers
<1>9. QED
  BY <1>2, <1>3, <1>4, <1>5, <1>6, <1>7, <1>8
  DEF Next, vars, OpenAgreement, RecordAcceptance, VersionMoved,
      HandlerFails, ActivateStart, ActivateList, ActivateRead, PublishVersion, Tick

LEMMA StartsOne == ASSUME Init PROVE AnsweredOnce
<1>1. \A g \in Grants : ~ Minted(g)
  BY DEF Init, Minted, NoGrant
<1>2. \A d \in Deciders : decision[d].pc = "idle"
  BY DEF Init, IdleDecision
<1>3. QED
  BY <1>1, <1>2 DEF AnsweredOnce, OneGrantPerRequest

(* decideRequest mints one grant per request wherever no two decisions of  *)
(* a request overlap: all it lacks is the lock on the row it reads.  (That *)
(* it does lack it is the run lifecycle_two_decisions.)                    *)
THEOREM AloneMintsOnce == Spec /\ []DecidedAlone => []OneGrantPerRequest
<1>1. Init => AnsweredOnce
  BY StartsOne
<1>2. IInv /\ AnsweredOnce /\ DecidedAlone /\ [Next]_vars => AnsweredOnce'
  BY StepKeepsOne
<1>3. AnsweredOnce => OneGrantPerRequest
  BY DEF AnsweredOnce
<1>4. QED
  BY <1>1, <1>2, <1>3, LifecycleInvariant, PTL DEF Spec

(* With one decision in flight at a time nothing more is needed: however   *)
(* verifications, sweeps, signatures and revocations interleave with it, a *)
(* request has at most one grant.                                          *)
THEOREM OneDeciderMintsOnce ==
    ASSUME \A d, e \in Deciders : d = e
    PROVE  Spec => []OneGrantPerRequest
<1>1. DecidedAlone
  BY DEF DecidedAlone
<1>2. QED
  BY <1>1, AloneMintsOnce, PTL
==============================================================================

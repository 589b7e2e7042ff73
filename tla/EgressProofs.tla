---------------------------- MODULE EgressProofs ----------------------------
(***************************************************************************)
(* A consumer that follows the last secret it was shown verifies every     *)
(* request: for any number of deliveries, channels, ticks that overlap,    *)
(* rotations and restarts.                                                 *)
(*                                                                         *)
(* Two facts carry it.  A claim never holds a later version of a secret    *)
(* than its channel.  And while anything is claimed the key of the process *)
(* is the one the canary stands for, or there is no key: the comparison is *)
(* made once at the start of a tick, the batch is used much later, and in  *)
(* between only a restart changes the key, which drops every batch.        *)
(***************************************************************************)
EXTENDS EgressDelivery, TLAPS

Phases == {"idle", "locked", "picked", "after", "posting", "answered", "sweep"}
ChannelRow ==
    [enabled : BOOLEAN, cold : BOOLEAN, version : 1..MaxSecret,
     known : {NoSecret} \cup (RootKeys \X (1..MaxSecret)), off : Nat, logged : Nat]
TickRow == [pc : Phases, set : SUBSET (Deliveries \cup Channels \cup Claim),
            told : SUBSET Claim, answer : Answers]

(* What a tick holds depends on how far it is.                             *)
Holds(row) ==
    /\ row.pc = "picked" => row.set \subseteq Deliveries
    /\ row.pc \in {"posting", "answered"} => row.set \subseteq Claim
    /\ row.pc # "answered" => row.told = {}

EgressTypes ==
    /\ delivery \in [Deliveries -> DeliveryRow]
    /\ \A d \in Deliveries : /\ delivery[d].status = "pending" => delivery[d].attempts < Attempts
                             /\ delivery[d].due => delivery[d].claims < MaxClaims
    /\ channel \in [Channels -> ChannelRow]
    /\ erased \in {"nothing", "person", "file"}
    /\ canary \in RootKeys \cup {NoRoot}
    /\ env \in Environments /\ starts \in 0..MaxStarts
    /\ lock \in Ticks \cup {NoTick}
    /\ slot \subseteq Claim
    /\ tick \in [Ticks -> TickRow]
    /\ \A t \in Ticks : Holds(tick[t])

(* The claims a process has in hand: before a batch is taken, and after.   *)
InHand == slot \cup UNION {tick[t].set \cup tick[t].told :
                              t \in {u \in Ticks : tick[u].pc \in {"posting", "answered"}}}

(* No claim is ahead of its channel, nor beyond its attempts, and no       *)
(* consumer is ahead of its channel.                                       *)
NoneAhead ==
    /\ \A k \in InHand : /\ k.attempts < Attempts
                         /\ k.version <= channel[ChannelOf[k.d]].version
    /\ \A c \in Channels : channel[c].known[2] <= channel[c].version

(* A tick past the comparison, or anything claimed, means it held.         *)
KeyHolds ==
    (InHand # {} \/ \E t \in Ticks : tick[t].pc \in {"locked", "picked"}) =>
        env.key \in {NoRoot, canary}

LogMatches == \A c \in Channels : channel[c].logged = channel[c].off

EgressInv == EgressTypes /\ NoneAhead /\ KeyHolds /\ LogMatches
-----------------------------------------------------------------------------
(* Every disjunct of EgressNext by itself.                                 *)
TickStep(t) ==
    \/ StartTick(t)
    \/ \E S \in SUBSET Deliveries : PickCandidates(t, S)
    \/ LockCandidates(t)
    \/ TakeBatch(t)
    \/ \E k \in tick[t].set : SkipDelivery(t, k)
    \/ \E k \in tick[t].set, a \in Answers : Post(t, k, a)
    \/ \E k \in tick[t].told : RecordOutcome(t, k)
    \/ FindStale(t)
    \/ \E c \in Channels : DisableStale(t, c)
    \/ EndTick(t)

OtherStep ==
    \/ \E c \in Channels, on \in BOOLEAN, skip \in BOOLEAN : SetEndpointEnabled(c, on, skip)
    \/ \E c \in Channels : BumpSecretVersion(c)
    \/ \E c \in Channels : RevealSecret(c)
    \/ \E c \in Channels : GrowCold(c)
    \/ \E d \in Deliveries : FallDue(d)
    \/ \E what \in {"person", "file"} : Erase(what)
    \/ \E e \in Environments : RestartProcess(e)

LEMMA EgressSteps == EgressNext => (\E t \in Ticks : TickStep(t)) \/ OtherStep
  BY DEF EgressNext, TickStep, OtherStep

LEMMA ClaimFields ==
  ASSUME NEW k \in Claim
  PROVE  k.d \in Deliveries /\ k.attempts \in 0..Attempts /\ k.version \in 1..MaxSecret
         /\ ChannelOf[k.d] \in Channels
  BY EgressAssumption DEF Claim

LEMMA TickTypes ==
  ASSUME NEW t \in Ticks, EgressTypes
  PROVE  /\ tick[t].pc \in Phases /\ tick[t].told \subseteq Claim
         /\ tick[t].set \subseteq Deliveries \cup Channels \cup Claim
         /\ tick[t].answer \in Answers /\ Holds(tick[t])
  BY DEF EgressTypes, TickRow
-----------------------------------------------------------------------------
LEMMA InitHolds == EgressInit => EgressInv
  <1> SUFFICES ASSUME EgressInit PROVE EgressInv
    OBVIOUS
  <1> USE EgressAssumption
  <1>1. delivery \in [Deliveries -> DeliveryRow]
    BY DEF EgressInit, DeliveryRow
  <1>2. channel \in [Channels -> ChannelRow]
    <2>1. MaxSecret \in Nat \ {0} /\ 1 \in 1..MaxSecret
      OBVIOUS
    <2>2. [enabled |-> TRUE, cold |-> FALSE, version |-> 1, known |-> NoSecret,
           off |-> 0, logged |-> 0] \in ChannelRow
      BY ONLY <2>1 DEF ChannelRow
    <2> QED
      BY <2>2 DEF EgressInit
  <1>3. Asleep \in TickRow /\ Holds(Asleep)
    BY DEF Asleep, TickRow, Phases, Answers, Holds
  <1>4. tick \in [Ticks -> TickRow] /\ \A t \in Ticks : tick[t] = Asleep
    BY <1>3 DEF EgressInit
  <1>5. \A d \in Deliveries : delivery[d].attempts < Attempts /\ delivery[d].claims < MaxClaims
    BY DEF EgressInit
  <1>6. EgressTypes
    <2>1. FirstEnvironment \in Environments /\ MaxStarts \in Nat
      OBVIOUS
    <2>2. /\ erased = "nothing" /\ canary = NoRoot /\ env \in Environments
          /\ starts \in 0..MaxStarts /\ lock = NoTick /\ slot = {}
      BY <2>1 DEF EgressInit
    <2> QED
      BY ONLY <1>1, <1>2, <1>3, <1>4, <1>5, <2>1, <2>2 DEF EgressTypes
  <1>7. InHand = {} /\ \A t \in Ticks : tick[t].pc = "idle"
    BY <1>4 DEF EgressInit, InHand, Asleep
  <1>8. \A c \in Channels : channel[c].known[2] = 0 /\ channel[c].version = 1
                            /\ channel[c].logged = 0 /\ channel[c].off = 0
    BY DEF EgressInit, NoSecret
  <1> QED
    BY <1>6, <1>7, <1>8 DEF EgressInv, NoneAhead, KeyHolds, LogMatches

(* Tick t moves on to a row, and no other tick.                            *)
Row(pc, set, told, answer) == [pc |-> pc, set |-> set, told |-> told, answer |-> answer]
Moves(t, row) ==
    /\ tick' = [u \in Ticks |-> tick'[u]]
    /\ tick'[t] = row
    /\ \A u \in Ticks \ {t} : tick'[u] = tick[u]

LEMMA RowReplaced ==
  ASSUME EgressTypes, NEW t \in Ticks, NEW row \in TickRow, Holds(row), Moves(t, row)
  PROVE  tick' \in [Ticks -> TickRow] /\ \A u \in Ticks : Holds(tick'[u])
  BY DEF EgressTypes, Moves

LEMMA RowShape ==
  ASSUME NEW pc \in Phases, NEW set \in SUBSET (Deliveries \cup Channels \cup Claim),
         NEW told \in SUBSET Claim, NEW answer \in Answers
  PROVE  Row(pc, set, told, answer) \in TickRow
  BY DEF TickRow, Row
-----------------------------------------------------------------------------
LEMMA TickTypesKept ==
  ASSUME EgressTypes, NoneAhead, NEW t \in Ticks, TickStep(t) PROVE EgressTypes'
  <1> USE EgressAssumption
  <1>1. ASSUME StartTick(t) PROVE EgressTypes'
    <2> DEFINE pc == IF env.on /\ ~Mismatch THEN "locked" ELSE "after"
               row == Row(pc, tick[t].set, tick[t].told, tick[t].answer)
    <2>1. tick[t] = Asleep /\ Moves(t, row)
      BY <1>1 DEF StartTick, Row, Moves, EgressTypes, TickRow
    <2>2. row \in TickRow /\ Holds(row)
      BY <2>1, RowShape, TickTypes DEF Phases, Holds, Row, Asleep
    <2>3. env.key \in RootKeys \cup {NoRoot}
      BY DEF EgressTypes
    <2>4. canary' \in RootKeys \cup {NoRoot} /\ lock' \in Ticks \cup {NoTick} /\ slot' = {}
      BY <1>1, <2>3 DEF StartTick, EgressTypes
    <2> HIDE DEF row, pc
    <2>5. tick' \in [Ticks -> TickRow] /\ \A u \in Ticks : Holds(tick'[u])
      BY <2>1, <2>2, RowReplaced
    <2> QED
      BY <1>1, <2>4, <2>5 DEF StartTick, EgressTypes
  <1>2. ASSUME NEW S \in SUBSET Deliveries, PickCandidates(t, S) PROVE EgressTypes'
    <2> DEFINE row == Row("picked", S, tick[t].told, tick[t].answer)
    <2>1. Moves(t, row) /\ tick[t].pc = "locked"
      BY <1>2 DEF PickCandidates, Row, Moves, EgressTypes, TickRow
    <2>2. row \in TickRow /\ Holds(row)
      BY <2>1, RowShape, TickTypes DEF Phases, Holds, Row
    <2> HIDE DEF row
    <2>3. tick' \in [Ticks -> TickRow] /\ \A u \in Ticks : Holds(tick'[u])
      BY <2>1, <2>2, RowReplaced
    <2> QED
      BY <1>2, <2>3 DEF PickCandidates, EgressTypes
  <1>3. ASSUME LockCandidates(t) PROVE EgressTypes'
    <2> DEFINE C == {d \in tick[t].set : StillOwed(d)}
               row == Row("after", {}, tick[t].told, tick[t].answer)
    <2>1. Moves(t, row) /\ tick[t].pc = "picked"
      BY <1>3 DEF LockCandidates, Row, Moves, EgressTypes, TickRow
    <2>2. row \in TickRow /\ Holds(row)
      BY <2>1, RowShape, TickTypes DEF Phases, Holds, Row
    <2>3. tick' \in [Ticks -> TickRow] /\ \A u \in Ticks : Holds(tick'[u])
      <3> HIDE DEF row
      <3> QED
        BY <2>1, <2>2, RowReplaced
    <2>4. \A d \in C : d \in Deliveries /\ delivery[d].status = "pending" /\ delivery[d].due
      BY <2>1, TickTypes DEF Holds, StillOwed, Owed
    <2>5. delivery' = [d \in Deliveries |-> IF d \in C
               THEN [delivery[d] EXCEPT !.due = FALSE, !.claims = @ + 1] ELSE delivery[d]]
          /\ slot' = {ClaimOf(d) : d \in C}
      BY <1>3 DEF LockCandidates
    <2> HIDE DEF C, row
    <2>6. delivery' \in [Deliveries -> DeliveryRow]
      <3>1. ASSUME NEW d \in Deliveries PROVE delivery'[d] \in DeliveryRow
        <4>1. CASE d \in C
          <5>1. delivery[d].claims + 1 \in 0..MaxClaims
            BY <2>4, <4>1 DEF EgressTypes, DeliveryRow
          <5> QED
            BY <2>5, <4>1, <5>1 DEF EgressTypes, DeliveryRow
        <4>2. CASE d \notin C
          BY <2>5, <4>2 DEF EgressTypes
        <4> QED
          BY <4>1, <4>2
      <3> QED
        BY <2>5, <3>1
    <2>7. \A d \in Deliveries :
              /\ delivery'[d].status = "pending" => delivery'[d].attempts < Attempts
              /\ delivery'[d].due => delivery'[d].claims < MaxClaims
      BY ZenonT(40), <2>5 DEF EgressTypes, DeliveryRow
    <2>8. slot' \subseteq Claim
      <3>1. ASSUME NEW d \in C PROVE ClaimOf(d) \in Claim
        <4>1. d \in Deliveries /\ ChannelOf[d] \in Channels
          BY <2>4
        <4>2. delivery[d].attempts \in 0..Attempts /\ channel[ChannelOf[d]].version \in 1..MaxSecret
          BY <4>1 DEF EgressTypes, DeliveryRow, ChannelRow
        <4> QED
          BY ONLY <4>1, <4>2 DEF ClaimOf, Claim
      <3> QED
        BY <2>5, <3>1
    <2> QED
      BY <1>3, <2>3, <2>6, <2>7, <2>8 DEF LockCandidates, EgressTypes
  <1>4. ASSUME TakeBatch(t) PROVE EgressTypes'
    <2> DEFINE row == Row("posting", slot, tick[t].told, tick[t].answer)
    <2>1. Moves(t, row) /\ tick[t].pc = "after"
      BY <1>4 DEF TakeBatch, Row, Moves, EgressTypes, TickRow
    <2>2. slot \subseteq Claim
      BY DEF EgressTypes
    <2>3. row \in TickRow /\ Holds(row)
      BY <2>1, <2>2, RowShape, TickTypes DEF Phases, Holds, Row
    <2> HIDE DEF row
    <2>4. tick' \in [Ticks -> TickRow] /\ \A u \in Ticks : Holds(tick'[u])
      BY <2>1, <2>3, RowReplaced
    <2> QED
      BY <1>4, <2>4 DEF TakeBatch, EgressTypes
  <1>5. ASSUME NEW k \in tick[t].set, SkipDelivery(t, k) PROVE EgressTypes'
    <2> DEFINE row == Row("posting", tick[t].set \ {k}, tick[t].told, tick[t].answer)
    <2>1. Moves(t, row) /\ tick[t].pc = "posting"
      BY <1>5 DEF SkipDelivery, Row, Moves, EgressTypes, TickRow
    <2>2. row \in TickRow /\ Holds(row)
      BY <2>1, RowShape, TickTypes DEF Phases, Holds, Row
    <2>3. tick' \in [Ticks -> TickRow] /\ \A u \in Ticks : Holds(tick'[u])
      <3> HIDE DEF row
      <3> QED
        BY <2>1, <2>2, RowReplaced
    <2>4. delivery' = [delivery EXCEPT ![k.d].status = "skipped"] /\ k.d \in Deliveries
      BY <1>5, <2>1, TickTypes, ClaimFields DEF SkipDelivery, Holds
    <2>5. delivery' \in [Deliveries -> DeliveryRow]
      BY <2>4 DEF EgressTypes, DeliveryRow
    <2>6. \A d \in Deliveries :
              /\ delivery'[d].status = "pending" => delivery'[d].attempts < Attempts
              /\ delivery'[d].due => delivery'[d].claims < MaxClaims
      BY <2>4 DEF EgressTypes, DeliveryRow
    <2> QED
      BY <1>5, <2>3, <2>5, <2>6 DEF SkipDelivery, EgressTypes
  <1>6. ASSUME NEW k \in tick[t].set, NEW a \in Answers, Post(t, k, a) PROVE EgressTypes'
    <2> DEFINE row == Row("answered", tick[t].set \ {k}, {k}, a)
    <2>1. Moves(t, row) /\ tick[t].pc = "posting"
      BY <1>6 DEF Post, Row, Moves, EgressTypes, TickRow
    <2>2. row \in TickRow /\ Holds(row)
      BY <2>1, RowShape, TickTypes DEF Phases, Holds, Row
    <2> HIDE DEF row
    <2>3. tick' \in [Ticks -> TickRow] /\ \A u \in Ticks : Holds(tick'[u])
      BY <2>1, <2>2, RowReplaced
    <2> QED
      BY <1>6, <2>3 DEF Post, EgressTypes
  <1>8. ASSUME FindStale(t) PROVE EgressTypes'
    <2> DEFINE stale == {c \in Channels : env.on /\ Stale(c)}
               row == Row("sweep", stale, tick[t].told, tick[t].answer)
    <2>1. Moves(t, row) /\ tick[t].pc = "posting"
      BY <1>8 DEF FindStale, Row, Moves, EgressTypes, TickRow
    <2>2. row \in TickRow /\ Holds(row)
      BY <2>1, RowShape, TickTypes DEF Phases, Holds, Row
    <2> HIDE DEF row
    <2>3. tick' \in [Ticks -> TickRow] /\ \A u \in Ticks : Holds(tick'[u])
      BY <2>1, <2>2, RowReplaced
    <2> QED
      BY <1>8, <2>3 DEF FindStale, EgressTypes
  <1>9. ASSUME NEW c \in Channels, DisableStale(t, c) PROVE EgressTypes'
    <2> DEFINE row == Row("sweep", tick[t].set \ {c}, tick[t].told, tick[t].answer)
    <2>1. Moves(t, row) /\ tick[t].pc = "sweep"
      BY <1>9 DEF DisableStale, Row, Moves, EgressTypes, TickRow
    <2>2. row \in TickRow /\ Holds(row)
      BY <2>1, RowShape, TickTypes DEF Phases, Holds, Row
    <2>3. tick' \in [Ticks -> TickRow] /\ \A u \in Ticks : Holds(tick'[u])
      <3> HIDE DEF row
      <3> QED
        BY <2>1, <2>2, RowReplaced
    <2>4. channel' \in [Channels -> ChannelRow]
      BY <1>9 DEF DisableStale, EgressTypes, ChannelRow
    <2> QED
      BY <1>9, <2>3, <2>4 DEF DisableStale, EgressTypes
  <1>10. ASSUME EndTick(t) PROVE EgressTypes'
    <2>1. Asleep \in TickRow /\ Holds(Asleep) /\ Moves(t, Asleep)
      BY <1>10 DEF EndTick, Asleep, TickRow, Phases, Answers, Holds, Moves, EgressTypes
    <2>2. tick' \in [Ticks -> TickRow] /\ \A u \in Ticks : Holds(tick'[u])
      BY <2>1, RowReplaced
    <2> QED
      BY <1>10, <2>2 DEF EndTick, EgressTypes
  <1>7. ASSUME NEW k \in tick[t].told, k.attempts < Attempts, RecordOutcome(t, k)
        PROVE EgressTypes'
    <2> DEFINE row == Row("posting", tick[t].set, {}, "unsent")
               status == Outcome(k, tick[t].answer)
    <2>1. Moves(t, row) /\ tick[t].pc = "answered"
      BY <1>7 DEF RecordOutcome, Row, Moves, EgressTypes, TickRow
    <2>2. row \in TickRow /\ Holds(row)
      BY <2>1, RowShape, TickTypes DEF Phases, Holds, Row, Answers
    <2>3. tick' \in [Ticks -> TickRow] /\ \A u \in Ticks : Holds(tick'[u])
      <3> HIDE DEF row
      <3> QED
        BY <2>1, <2>2, RowReplaced
    <2>4. k \in Claim /\ k.d \in Deliveries /\ k.attempts + 1 \in 0..Attempts
      BY <1>7, TickTypes, ClaimFields
    <2>5. status \in {"delivered", "failed", "pending"}
          /\ (status = "pending" => k.attempts + 1 < Attempts)
      BY <2>4 DEF Outcome
    <2>6. delivery' = [delivery EXCEPT ![k.d].status = status, ![k.d].attempts = k.attempts + 1]
      BY <1>7 DEF RecordOutcome
    <2> HIDE DEF status
    <2>7. delivery' \in [Deliveries -> DeliveryRow]
      BY <2>4, <2>5, <2>6 DEF EgressTypes, DeliveryRow
    <2>8. \A d \in Deliveries :
              /\ delivery'[d].status = "pending" => delivery'[d].attempts < Attempts
              /\ delivery'[d].due => delivery'[d].claims < MaxClaims
      BY <2>4, <2>5, <2>6 DEF EgressTypes, DeliveryRow
    <2>9. channel' \in [Channels -> ChannelRow]
      <3>1. channel' \in {channel, [channel EXCEPT ![ChannelOf[k.d]].cold = FALSE]}
        BY <1>7 DEF RecordOutcome
      <3>2. ChannelOf[k.d] \in Channels /\ channel \in [Channels -> ChannelRow]
        BY <2>4, ClaimFields DEF EgressTypes
      <3>3. [channel EXCEPT ![ChannelOf[k.d]].cold = FALSE] \in [Channels -> ChannelRow]
        BY ONLY <3>2 DEF ChannelRow
      <3> QED
        BY ONLY <3>1, <3>2, <3>3
    <2> QED
      BY <1>7, <2>3, <2>7, <2>8, <2>9 DEF RecordOutcome, EgressTypes
  <1>11. ASSUME NEW k \in tick[t].told, RecordOutcome(t, k) PROVE k.attempts < Attempts
    BY <1>11 DEF RecordOutcome, NoneAhead, InHand
  <1> QED
    BY <1>1, <1>2, <1>3, <1>4, <1>5, <1>6, <1>7, <1>8, <1>9, <1>10, <1>11 DEF TickStep

LEMMA OtherTypesKept == ASSUME EgressTypes, OtherStep PROVE EgressTypes'
  <1> USE EgressAssumption
  <1>1. ASSUME NEW c \in Channels, NEW on \in BOOLEAN, NEW skip \in BOOLEAN,
               SetEndpointEnabled(c, on, skip)
        PROVE EgressTypes'
    <2>1. channel' \in [Channels -> ChannelRow]
      BY <1>1 DEF SetEndpointEnabled, EgressTypes, ChannelRow
    <2>2. \A d \in Deliveries : delivery'[d] \in {delivery[d], [delivery[d] EXCEPT !.status = "skipped"]}
      BY <1>1 DEF SetEndpointEnabled
    <2>3. \A d \in Deliveries :
              /\ delivery'[d] \in DeliveryRow
              /\ delivery'[d].status = "pending" => delivery'[d].attempts < Attempts
              /\ delivery'[d].due => delivery'[d].claims < MaxClaims
      BY <2>2 DEF EgressTypes, DeliveryRow
    <2>4. delivery' \in [Deliveries -> DeliveryRow]
      BY <1>1, <2>3 DEF SetEndpointEnabled
    <2> QED
      BY <1>1, <2>1, <2>3, <2>4 DEF SetEndpointEnabled, EgressTypes
  <1>2. ASSUME NEW c \in Channels, BumpSecretVersion(c) PROVE EgressTypes'
    <2>1. channel' \in [Channels -> ChannelRow]
      BY <1>2 DEF BumpSecretVersion, EgressTypes, ChannelRow
    <2> QED
      BY <1>2, <2>1 DEF BumpSecretVersion, EgressTypes
  <1>3. ASSUME NEW c \in Channels, RevealSecret(c) PROVE EgressTypes'
    <2>1. env.key \in RootKeys /\ channel[c].version \in 1..MaxSecret
      BY <1>3 DEF RevealSecret, EgressTypes, ChannelRow
    <2> DEFINE shown == <<env.key, channel[c].version>>
    <2>2. shown \in {NoSecret} \cup (RootKeys \X (1..MaxSecret))
      BY <2>1
    <2>3. channel' = [channel EXCEPT ![c].known = shown] /\ channel \in [Channels -> ChannelRow]
      BY <1>3 DEF RevealSecret, EgressTypes
    <2> HIDE DEF shown
    <2>4. channel[c] \in ChannelRow
      BY <2>3
    <2>5. ASSUME NEW row \in ChannelRow, NEW s \in {NoSecret} \cup (RootKeys \X (1..MaxSecret))
          PROVE  [row EXCEPT !.known = s] \in ChannelRow
      BY DEF ChannelRow
    <2>6. channel' \in [Channels -> ChannelRow]
      BY <2>2, <2>3, <2>4, <2>5
    <2> QED
      BY <1>3, <2>6 DEF RevealSecret, EgressTypes
  <1>4. ASSUME NEW c \in Channels, GrowCold(c) PROVE EgressTypes'
    <2>0. \A row \in ChannelRow : [row EXCEPT !.cold = TRUE] \in ChannelRow
      BY DEF ChannelRow
    <2>1. channel' \in [Channels -> ChannelRow]
      BY <1>4, <2>0 DEF GrowCold, EgressTypes
    <2> QED
      BY <1>4, <2>1 DEF GrowCold, EgressTypes
  <1>5. ASSUME NEW d \in Deliveries, FallDue(d) PROVE EgressTypes'
    <2>1. delivery' \in [Deliveries -> DeliveryRow]
      BY <1>5 DEF FallDue, EgressTypes, DeliveryRow
    <2>2. \A x \in Deliveries :
              /\ delivery'[x].status = "pending" => delivery'[x].attempts < Attempts
              /\ delivery'[x].due => delivery'[x].claims < MaxClaims
      BY <1>5 DEF FallDue, EgressTypes, DeliveryRow
    <2> QED
      BY <1>5, <2>1, <2>2 DEF FallDue, EgressTypes
  <1>6. ASSUME NEW what \in {"person", "file"}, Erase(what) PROVE EgressTypes'
    BY <1>6 DEF Erase, EgressTypes
  <1>7. ASSUME NEW e \in Environments, RestartProcess(e) PROVE EgressTypes'
    <2>1. tick' = [t \in Ticks |-> Asleep] /\ Asleep \in TickRow /\ Holds(Asleep)
      BY <1>7 DEF RestartProcess, Asleep, TickRow, Phases, Answers, Holds
    <2>2. starts' \in 0..MaxStarts
      BY <1>7 DEF RestartProcess, EgressTypes
    <2> QED
      BY <1>7, <2>1, <2>2 DEF RestartProcess, EgressTypes, NoTick
  <1> QED
    BY <1>1, <1>2, <1>3, <1>4, <1>5, <1>6, <1>7 DEF OtherStep
-----------------------------------------------------------------------------
(* Claims come into hand only where a tick locks its candidates.           *)
Fresh == {ClaimOf(d) : d \in {x \in Deliveries : delivery[x].status = "pending"}}

LEMMA HandGrowsFresh ==
  ASSUME EgressTypes, NEW t \in Ticks, TickStep(t)
  PROVE  /\ InHand' \subseteq InHand \cup Fresh
         /\ ~ LockCandidates(t) => InHand' \subseteq InHand
  <1>0. \A u \in Ticks : tick[u] = Row(tick[u].pc, tick[u].set, tick[u].told, tick[u].answer)
    BY DEF EgressTypes, TickRow, Row
  <1>1. ASSUME NEW row, Moves(t, row), slot' \subseteq slot,
               row.pc \in {"posting", "answered"} => row.set \cup row.told \subseteq InHand
        PROVE  InHand' \subseteq InHand
    BY <1>1 DEF Moves, InHand
  <1> HIDE DEF InHand
  <1>2. ASSUME StartTick(t) PROVE InHand' \subseteq InHand
    <2>1. Moves(t, tick'[t]) /\ tick'[t].pc \in {"locked", "after"} /\ slot' \subseteq slot
      BY <1>2 DEF StartTick, Moves, EgressTypes, TickRow
    <2> QED
      BY <1>1, <2>1
  <1>3. ASSUME NEW S \in SUBSET Deliveries, PickCandidates(t, S) PROVE InHand' \subseteq InHand
    <2>1. Moves(t, tick'[t]) /\ tick'[t].pc = "picked" /\ slot' = slot
      BY <1>3 DEF PickCandidates, Moves, EgressTypes, TickRow
    <2> QED
      BY <1>1, <2>1
  <1>4. ASSUME LockCandidates(t) PROVE InHand' \subseteq InHand \cup Fresh
    <2>1. Moves(t, tick'[t]) /\ tick'[t].pc = "after" /\ tick[t].pc = "picked"
      BY <1>4 DEF LockCandidates, Moves, EgressTypes, TickRow
    <2>2. slot' \subseteq Fresh
      <3>1. \A d \in tick[t].set : StillOwed(d) =>
                d \in Deliveries /\ delivery[d].status = "pending"
        BY <2>1, TickTypes DEF Holds, StillOwed, Owed
      <3> QED
        BY <1>4, <3>1 DEF LockCandidates, Fresh
    <2> QED
      BY <2>1, <2>2 DEF Moves, InHand
  <1>5. ASSUME TakeBatch(t) PROVE InHand' \subseteq InHand
    <2>1. /\ Moves(t, tick'[t]) /\ tick'[t].set = slot /\ tick'[t].told = tick[t].told
          /\ tick[t].pc = "after" /\ slot' = {}
      BY <1>5 DEF TakeBatch, Moves, EgressTypes, TickRow
    <2>2. tick[t].told = {} /\ slot \subseteq InHand
      BY <2>1, TickTypes DEF Holds, InHand
    <2> QED
      BY <1>1, <2>1, <2>2
  <1>6. ASSUME NEW k \in tick[t].set, SkipDelivery(t, k) PROVE InHand' \subseteq InHand
    <2>1. /\ Moves(t, tick'[t]) /\ tick'[t].set \subseteq tick[t].set
          /\ tick'[t].told = tick[t].told /\ tick[t].pc = "posting" /\ slot' = slot
      BY <1>6 DEF SkipDelivery, Moves, EgressTypes, TickRow
    <2>2. tick[t].set \cup tick[t].told \subseteq InHand
      BY <2>1 DEF InHand
    <2> QED
      BY <1>1, <2>1, <2>2
  <1>7. ASSUME NEW k \in tick[t].set, NEW a \in Answers, Post(t, k, a) PROVE InHand' \subseteq InHand
    <2>1. /\ Moves(t, tick'[t]) /\ tick'[t].set \cup tick'[t].told \subseteq tick[t].set
          /\ tick[t].pc = "posting" /\ slot' = slot
      BY <1>7 DEF Post, Moves, EgressTypes, TickRow
    <2>2. tick[t].set \subseteq InHand
      BY <2>1 DEF InHand
    <2> QED
      BY <1>1, <2>1, <2>2
  <1>8. ASSUME NEW k \in tick[t].told, RecordOutcome(t, k) PROVE InHand' \subseteq InHand
    <2>1. /\ Moves(t, tick'[t]) /\ tick'[t].set = tick[t].set /\ tick'[t].told = {}
          /\ tick[t].pc = "answered" /\ slot' = slot
      BY <1>8 DEF RecordOutcome, Moves, EgressTypes, TickRow
    <2>2. tick[t].set \subseteq InHand
      BY <2>1 DEF InHand
    <2> QED
      BY <1>1, <2>1, <2>2
  <1>9. ASSUME FindStale(t) PROVE InHand' \subseteq InHand
    <2>1. Moves(t, tick'[t]) /\ tick'[t].pc = "sweep" /\ slot' = slot
      BY <1>9 DEF FindStale, Moves, EgressTypes, TickRow
    <2> QED
      BY <1>1, <2>1
  <1>10. ASSUME NEW c \in Channels, DisableStale(t, c) PROVE InHand' \subseteq InHand
    <2>1. Moves(t, tick'[t]) /\ tick'[t].pc = "sweep" /\ slot' = slot
      BY <1>10 DEF DisableStale, Moves, EgressTypes, TickRow
    <2> QED
      BY <1>1, <2>1
  <1>11. ASSUME EndTick(t) PROVE InHand' \subseteq InHand
    <2>1. Moves(t, tick'[t]) /\ tick'[t].pc = "idle" /\ slot' = slot
      BY <1>11 DEF EndTick, Moves, EgressTypes, TickRow, Asleep
    <2> QED
      BY <1>1, <2>1
  <1> QED
    BY <1>2, <1>3, <1>4, <1>5, <1>6, <1>7, <1>8, <1>9, <1>10, <1>11 DEF TickStep

LEMMA HandOtherwise ==
  ASSUME EgressTypes, OtherStep PROVE InHand' \subseteq InHand
  BY DEF OtherStep, InHand, SetEndpointEnabled, BumpSecretVersion, RevealSecret, FallDue, GrowCold,
         Erase, RestartProcess, Asleep

(* Rotations only go up; a consumer is shown the version of the moment;    *)
(* what is disabled is logged in the same transaction.                     *)
ChannelMoves(c) ==
    /\ channel'[c].version >= channel[c].version
    /\ channel'[c].known = channel[c].known \/ channel'[c].known = <<env.key, channel[c].version>>
    /\ channel[c].logged = channel[c].off => channel'[c].logged = channel'[c].off

LEMMA ChannelsMove ==
  ASSUME EgressTypes, (\E t \in Ticks : TickStep(t)) \/ OtherStep
  PROVE  \A c \in Channels : ChannelMoves(c)
  <1> USE DEF EgressTypes, ChannelRow, ChannelMoves
  <1>1. CASE channel' = channel
    BY <1>1
  <1>2. ASSUME NEW t \in Ticks, NEW k \in tick[t].told, RecordOutcome(t, k)
        PROVE \A c \in Channels : ChannelMoves(c)
    <2>1. channel' \in {channel, [channel EXCEPT ![ChannelOf[k.d]].cold = FALSE]}
      BY <1>2 DEF RecordOutcome
    <2> QED
      BY <2>1
  <1>3. ASSUME NEW t \in Ticks, NEW z \in Channels, DisableStale(t, z)
        PROVE \A c \in Channels : ChannelMoves(c)
    <2>1. channel' = channel \/ channel' =
              [channel EXCEPT ![z].enabled = FALSE, ![z].logged = @ + 1, ![z].off = @ + 1]
      BY <1>3 DEF DisableStale
    <2> QED
      BY <2>1
  <1>4. ASSUME NEW z \in Channels, NEW on \in BOOLEAN, NEW skip \in BOOLEAN,
               SetEndpointEnabled(z, on, skip)
        PROVE \A c \in Channels : ChannelMoves(c)
    BY <1>4 DEF SetEndpointEnabled
  <1>5. ASSUME NEW z \in Channels, BumpSecretVersion(z) PROVE \A c \in Channels : ChannelMoves(c)
    BY <1>5, EgressAssumption DEF BumpSecretVersion
  <1>6. ASSUME NEW z \in Channels, RevealSecret(z) PROVE \A c \in Channels : ChannelMoves(c)
    BY <1>6 DEF RevealSecret
  <1>7. ASSUME NEW z \in Channels, GrowCold(z) PROVE \A c \in Channels : ChannelMoves(c)
    BY <1>7 DEF GrowCold
  <1> QED
    BY ZenonT(40), <1>1, <1>2, <1>3, <1>4, <1>5, <1>6, <1>7
    DEF TickStep, OtherStep, StartTick, PickCandidates, LockCandidates, TakeBatch, SkipDelivery,
        Post, FindStale, EndTick, FallDue, Erase, RestartProcess

LEMMA NoneAheadKept ==
  ASSUME EgressTypes, NoneAhead, (\E t \in Ticks : TickStep(t)) \/ OtherStep PROVE NoneAhead'
  <1>1. InHand' \subseteq InHand \cup Fresh
    BY HandGrowsFresh, HandOtherwise
  <1>2. \A c \in Channels : ChannelMoves(c)
    BY ChannelsMove
  <1>3. \A c \in Channels : channel[c].version \in 1..MaxSecret /\ channel'[c].version \in 1..MaxSecret
    <2>1. EgressTypes'
      BY TickTypesKept, OtherTypesKept
    <2> QED
      BY <2>1 DEF EgressTypes, ChannelRow
  <1>4. InHand \subseteq Claim
    BY TickTypes DEF InHand, EgressTypes, Holds
  <1>5. ASSUME NEW k \in InHand'
        PROVE  k.attempts < Attempts /\ k.version <= channel'[ChannelOf[k.d]].version
    <2>1. CASE k \in InHand
      <3>1. /\ k.attempts < Attempts /\ k.version <= channel[ChannelOf[k.d]].version
            /\ k.version \in 1..MaxSecret /\ ChannelOf[k.d] \in Channels
        BY <1>4, <2>1, ClaimFields DEF NoneAhead
      <3> QED
        BY <1>2, <1>3, <3>1, EgressAssumption DEF ChannelMoves
    <2>2. CASE k \in Fresh
      <3>1. PICK d \in Deliveries : k = ClaimOf(d) /\ delivery[d].status = "pending"
        BY <2>2 DEF Fresh
      <3>2. k.attempts = delivery[d].attempts /\ k.d = d /\ k.version = channel[ChannelOf[d]].version
        BY <3>1 DEF ClaimOf
      <3>3. delivery[d].attempts < Attempts /\ ChannelOf[d] \in Channels
        BY <3>1, EgressAssumption DEF EgressTypes
      <3> QED
        BY <1>2, <1>3, <3>2, <3>3, EgressAssumption DEF ChannelMoves
    <2> QED
      BY <1>1, <1>5, <2>1, <2>2
  <1>6. ASSUME NEW c \in Channels PROVE channel'[c].known[2] <= channel'[c].version
    <2>1. channel[c].known[2] \in Nat
      BY EgressAssumption DEF EgressTypes, ChannelRow, NoSecret
    <2>2. CASE channel'[c].known = channel[c].known
      BY <1>2, <1>3, <2>1, <2>2, EgressAssumption DEF NoneAhead, ChannelMoves
    <2>3. CASE channel'[c].known = <<env.key, channel[c].version>>
      BY <1>2, <1>3, <2>3, EgressAssumption DEF ChannelMoves
    <2> QED
      BY <1>2, <2>2, <2>3 DEF ChannelMoves
  <1> QED
    BY <1>5, <1>6 DEF NoneAhead

LEMMA KeyKept ==
  ASSUME EgressTypes, KeyHolds, (\E t \in Ticks : TickStep(t)) \/ OtherStep PROVE KeyHolds'
  <1> DEFINE Past == \E t \in Ticks : tick[t].pc \in {"locked", "picked"}
  <1>0. canary \in RootKeys \cup {NoRoot}
    BY DEF EgressTypes
  <1>1. ASSUME NEW t \in Ticks, StartTick(t) PROVE KeyHolds'
    <2>0. tick[t].pc = "idle"
      BY <1>1 DEF StartTick, Asleep
    <2>1. TickStep(t) /\ ~ LockCandidates(t)
      BY <1>1, <2>0 DEF TickStep, LockCandidates
    <2>2. InHand' \subseteq InHand
      BY <2>1, HandGrowsFresh
    <2>3. env' = env /\ (canary' = canary \/ (canary = NoRoot /\ canary' = env.key))
      BY <1>1 DEF StartTick
    <2>4. CASE env.on /\ ~ Mismatch
      <3>1. canary' = IF canary = NoRoot THEN env.key ELSE canary
        BY <1>1, <2>4 DEF StartTick
      <3>2. env.key = NoRoot \/ env.key = canary'
        BY <2>4, <3>1 DEF Mismatch
      <3>3. env'.key = NoRoot \/ env'.key = canary'
        BY <2>3, <3>2
      <3> QED
        BY <3>3 DEF KeyHolds
    <2>5. CASE ~ (env.on /\ ~ Mismatch)
      <3>1. tick'[t].pc = "after" /\ \A u \in Ticks \ {t} : tick'[u] = tick[u]
        BY <1>1, <2>5 DEF StartTick, EgressTypes, TickRow
      <3>2. Past' => Past
        BY <3>1
      <3> QED
        BY <2>2, <2>3, <3>2 DEF KeyHolds
    <2> QED
      BY <2>4, <2>5
  <1>2. ASSUME NEW t \in Ticks, TickStep(t), ~ StartTick(t) PROVE KeyHolds'
    <2>1. UNCHANGED <<env, canary>>
      BY <1>2 DEF TickStep, PickCandidates, LockCandidates, TakeBatch, SkipDelivery, Post,
                  RecordOutcome, FindStale, DisableStale, EndTick
    <2>2. LockCandidates(t) => Past
      BY DEF LockCandidates
    <2>3. InHand' # {} => InHand # {} \/ Past
      BY <1>2, <2>2, HandGrowsFresh
    <2>4. Past' => Past
      <3>0. tick \in [Ticks -> TickRow]
        BY DEF EgressTypes
      <3>1. CASE \E S \in SUBSET Deliveries : PickCandidates(t, S)
        BY <3>1 DEF PickCandidates
      <3>2. CASE LockCandidates(t)
        BY <3>2 DEF LockCandidates
      <3>3. CASE TakeBatch(t)
        BY <3>0, <3>3 DEF TakeBatch, TickRow
      <3>4. CASE \E k \in tick[t].set : SkipDelivery(t, k)
        BY <3>0, <3>4 DEF SkipDelivery, TickRow
      <3>5. CASE \E k \in tick[t].set, a \in Answers : Post(t, k, a)
        BY <3>0, <3>5 DEF Post, TickRow
      <3>6. CASE \E k \in tick[t].told : RecordOutcome(t, k)
        BY <3>0, <3>6 DEF RecordOutcome, TickRow
      <3>7. CASE FindStale(t)
        BY <3>0, <3>7 DEF FindStale, TickRow
      <3>8. CASE \E c \in Channels : DisableStale(t, c)
        BY <3>0, <3>8 DEF DisableStale, TickRow
      <3>9. CASE EndTick(t)
        BY <3>0, <3>9 DEF EndTick, Asleep
      <3> QED
        BY <1>2, <3>1, <3>2, <3>3, <3>4, <3>5, <3>6, <3>7, <3>8, <3>9 DEF TickStep
    <2> QED
      BY <2>1, <2>3, <2>4 DEF KeyHolds
  <1>3. ASSUME NEW e \in Environments, RestartProcess(e) PROVE KeyHolds'
    BY <1>3 DEF RestartProcess, KeyHolds, InHand, Asleep
  <1>4. ASSUME OtherStep, \A e \in Environments : ~ RestartProcess(e) PROVE KeyHolds'
    BY <1>4 DEF OtherStep, SetEndpointEnabled, BumpSecretVersion, RevealSecret, GrowCold, FallDue,
                Erase, KeyHolds, InHand
  <1> QED
    BY <1>1, <1>2, <1>3, <1>4
-----------------------------------------------------------------------------
(* The inductive invariant: types, no claim or consumer ahead of its       *)
(* channel, the key compared still standing while anything is claimed, and *)
(* a log entry for each automatic disablement.                             *)
THEOREM EgressInvariant == EgressSpec => []EgressInv
  <1>1. EgressInv /\ [EgressNext]_egressVars => EgressInv'
    <2> SUFFICES ASSUME EgressInv, [EgressNext]_egressVars PROVE EgressInv'
      OBVIOUS
    <2>1. EgressTypes /\ NoneAhead /\ KeyHolds /\ LogMatches
      BY DEF EgressInv
    <2>2. CASE EgressNext
      <3>1. (\E t \in Ticks : TickStep(t)) \/ OtherStep
        BY <2>2, EgressSteps
      <3>2. EgressTypes'
        BY <2>1, <3>1, TickTypesKept, OtherTypesKept
      <3>3. LogMatches'
        BY <2>1, <3>1, ChannelsMove DEF LogMatches, ChannelMoves
      <3> QED
        BY <2>1, <3>1, <3>2, <3>3, NoneAheadKept, KeyKept DEF EgressInv
    <2>3. CASE UNCHANGED egressVars
      <3> USE <2>1, <2>3 DEF egressVars
      <3>1. EgressTypes'
        BY DEF EgressTypes
      <3>2. InHand' = InHand
        BY DEF InHand
      <3>3. NoneAhead'
        BY <3>2 DEF NoneAhead
      <3>4. KeyHolds'
        BY <3>2 DEF KeyHolds
      <3>5. LogMatches'
        BY DEF LogMatches
      <3> QED
        BY <3>1, <3>3, <3>4, <3>5 DEF EgressInv
    <2> QED
      BY <2>2, <2>3
  <1> QED
    BY <1>1, InitHolds, PTL DEF EgressSpec

LEMMA EgressTypesFollow == EgressInv => EgressTypeOK
  BY DEF EgressInv, EgressTypes, EgressTypeOK, ChannelRow, TickRow, Holds

(* Every variable of the delivery keeps its type.                          *)
THEOREM DeliveriesTypes == EgressSpec => []EgressTypeOK
  <1> QED
    BY EgressTypesFollow, EgressInvariant, PTL

(* DisabledIsLoggedOnce, however many ticks overlap on one endpoint.       *)
THEOREM EachDisablementLogged == EgressSpec => []DisabledIsLoggedOnce
  <1>1. EgressInv => DisabledIsLoggedOnce
    BY DEF EgressInv, LogMatches, DisabledIsLoggedOnce
  <1> QED
    BY <1>1, EgressInvariant, PTL

LEMMA ClaimVerifies ==
  ASSUME EgressInv, NEW t \in Ticks, tick[t].pc = "posting", NEW k \in tick[t].set,
         env.key # NoRoot
  PROVE  LET c == ChannelOf[k.d]
         IN  \/ Verifies(k) \/ channel[c].version > k.version
             \/ channel[c].known[2] + 1 < k.version \/ channel[c].known[1] # canary
  <1> DEFINE row == channel[ChannelOf[k.d]]
  <1>1. k \in Claim /\ k \in InHand
    BY TickTypes DEF EgressInv, Holds, InHand
  <1>2. /\ row.version \in 1..MaxSecret /\ k.version \in 1..MaxSecret
        /\ row.known \in {NoSecret} \cup (RootKeys \X (1..MaxSecret))
    BY <1>1, ClaimFields DEF EgressInv, EgressTypes, ChannelRow
  <1>3. k.version <= row.version /\ row.known[2] <= row.version /\ env.key = canary
    BY <1>1, ClaimFields DEF EgressInv, NoneAhead, KeyHolds
  <1> SUFFICES ASSUME row.known # NoSecret, ~ row.version > k.version,
                      ~ row.known[2] + 1 < k.version, row.known[1] = canary
               PROVE  Verifies(k)
    BY DEF Verifies
  <1>4. PICK r \in RootKeys, v \in 1..MaxSecret : row.known = <<r, v>>
    BY <1>2
  <1>5. r = env.key /\ v \in {k.version, k.version - 1} \ {0}
    BY <1>2, <1>3, <1>4, EgressAssumption
  <1> QED
    BY <1>4, <1>5 DEF Verifies, Signatures

(* SignaturesVerify: a request is signed under the secret its consumer was *)
(* last shown, unless it was rotated while the request was claimed, or     *)
(* twice unannounced, or shown under a key that was never taken up.        *)
THEOREM RequestsVerify == EgressSpec => SignaturesVerify
  <1> DEFINE Step == \A t \in Ticks : \A k \in tick[t].set :
         LET c == ChannelOf[k.d]
         IN  tick[t].pc = "posting" /\ tick'[t].told = {k} /\ c \in Signing /\ env.key # NoRoot =>
               \/ Verifies(k)
               \/ channel[c].version > k.version
               \/ channel[c].known[2] + 1 < k.version
               \/ channel[c].known[1] # canary
  <1>1. EgressInv => Step
    BY ClaimVerifies
  <1>2. SignaturesVerify <=> [][Step]_egressVars
    BY DEF SignaturesVerify
  <1> HIDE DEF Step
  <1> QED
    BY <1>1, <1>2, EgressInvariant, PTL
=============================================================================

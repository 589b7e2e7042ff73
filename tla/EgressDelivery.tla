--------------------------- MODULE EgressDelivery ---------------------------
(***************************************************************************)
(* What happens to a row of event_delivery after the fan-out has written   *)
(* it (egress/deliver.ts, index.ts, client.ts, enrich.ts, secret.ts,       *)
(* canary.ts, and the operations of endpoints.ts that touch it).  A tick   *)
(* claims under the job's advisory lock and posts after letting it go.     *)
(* startJobRunner does not wait for the previous tick, so the ticks of one *)
(* process overlap and share its module-level `claimed`.                   *)
(*                                                                         *)
(* Time is abstract: a row that was pushed forward may fall due at any     *)
(* later moment, also while the tick that pushed it still holds it.        *)
(***************************************************************************)
EXTENDS Naturals, FiniteSets

CONSTANTS
    Deliveries, Channels,
    ChannelOf,        \* event_delivery.endpoint_id
    KindOf,           \* what the event of a delivery is about, see Loaded
    Signing,          \* channels whose format requires a signature
    MaxTicks,         \* bound: ticks of one process that overlap
    RootKeys, NoRoot, \* values of EVENT_SIGNING_KEY, and its absence
    Environments,     \* of the process: the switch and the key
    FirstEnvironment,
    Attempts,         \* MAX_ATTEMPTS
    PerChannel,       \* PER_ENDPOINT_LIMIT
    ClaimLimit,
    MaxClaims,        \* bound: claims of one delivery
    MaxSecret,        \* bound: secret_version
    MaxDisables,      \* bound: automatic disablements an operator undoes, plus one
    MaxStarts         \* bound: restarts of the process

ASSUME EgressAssumption ==
    /\ ChannelOf \in [Deliveries -> Channels] /\ Signing \subseteq Channels
    /\ NoRoot \notin RootKeys
    /\ Environments \subseteq [on : BOOLEAN, key : RootKeys \cup {NoRoot}]
    /\ FirstEnvironment \in Environments
    /\ {Attempts, PerChannel, ClaimLimit, MaxClaims, MaxSecret, MaxDisables, MaxTicks} \subseteq Nat \ {0}
    /\ MaxStarts \in Nat

VARIABLES
    delivery, channel,
    erased,           \* what the events are about and is gone: person, file
    canary,           \* setting egress.signing_key_canary, as the key it stands for
    env, starts,      \* of the running process, and how often it was restarted
    lock,             \* the advisory lock of egress:deliver
    slot,             \* `claimed` of egress/index.ts
    tick

egressVars == <<delivery, channel, erased, canary, env, starts, lock, slot, tick>>

Ticks == 1..MaxTicks
NoTick == 0
Claim == [d : Deliveries, attempts : 0..Attempts, version : 1..MaxSecret]
Answers == {"ok", "retry", "terminal", "unsent"}
Asleep == [pc |-> "idle", set |-> {}, told |-> {}, answer |-> "unsent"]
DeliveryRow == [status : {"pending", "delivered", "failed", "skipped"},
                attempts : 0..Attempts, due : BOOLEAN, claims : 0..MaxClaims]
NoSecret == <<NoRoot, 0>>
-----------------------------------------------------------------------------
EgressInit ==
    /\ delivery = [d \in Deliveries |->
           [status |-> "pending", attempts |-> 0, due |-> TRUE, claims |-> 0]]
    /\ channel = [c \in Channels |->
           [enabled |-> TRUE, cold |-> FALSE, version |-> 1, known |-> NoSecret,
            off |-> 0, logged |-> 0]]
    /\ erased = "nothing"
    /\ canary = NoRoot
    /\ env = FirstEnvironment /\ starts = 0
    /\ lock = NoTick /\ slot = {}
    /\ tick = [t \in Ticks |-> Asleep]

(* checkSigningKeyCanary: an absent key is not a mismatch, and the first   *)
(* key seen is stored.                                                     *)
Mismatch == env.key # NoRoot /\ canary \notin {NoRoot, env.key}

(* runJob takes the lock without waiting; runEgressClaim drops the batch   *)
(* of the last tick and compares the canary.  With nothing to claim the    *)
(* transaction ends here and the lock with it.                             *)
StartTick(t) ==
    /\ lock = NoTick
    /\ tick[t] = Asleep
    /\ lock' = IF env.on /\ ~Mismatch THEN t ELSE NoTick
    /\ slot' = {}
    /\ canary' = IF env.on /\ canary = NoRoot THEN env.key ELSE canary
    /\ tick' = [tick EXCEPT ![t].pc = IF env.on /\ ~Mismatch THEN "locked" ELSE "after"]
    /\ UNCHANGED <<delivery, channel, erased, env, starts>>

Owed(d) ==
    /\ delivery[d].status = "pending" /\ delivery[d].due
    /\ channel[ChannelOf[d]].enabled

(* The ranked query: no channel takes more than its share, and the limit   *)
(* leaves out only what is over it.                                        *)
OfChannel(S, c) == {d \in S : ChannelOf[d] = c}
IsFairShare(S) ==
    /\ \A d \in S : Owed(d)
    /\ \A c \in Channels : Cardinality(OfChannel(S, c)) <= PerChannel
    /\ Cardinality(S) <= ClaimLimit
    /\ \A d \in Deliveries \ S : Owed(d) =>
           \/ Cardinality(OfChannel(S, ChannelOf[d])) = PerChannel
           \/ Cardinality(S) = ClaimLimit

PickCandidates(t, S) ==
    /\ tick[t].pc = "locked"
    /\ IsFairShare(S)
    /\ tick' = [tick EXCEPT ![t].pc = "picked", ![t].set = S]
    /\ UNCHANGED <<delivery, channel, erased, canary, env, starts, lock, slot>>

(* FOR UPDATE SKIP LOCKED has its own snapshot, so it asks again.  The     *)
(* commit lets go of the lock; another tick may run before this one goes   *)
(* on.                                                                     *)
StillOwed(d) == Owed(d)

ClaimOf(d) == [d |-> d, attempts |-> delivery[d].attempts,
               version |-> channel[ChannelOf[d]].version]

LockCandidates(t) ==
    LET C == {d \in tick[t].set : StillOwed(d)}
    IN  /\ tick[t].pc = "picked"
        /\ delivery' = [d \in Deliveries |-> IF d \in C
               THEN [delivery[d] EXCEPT !.due = FALSE, !.claims = @ + 1]
               ELSE delivery[d]]
        /\ slot' = {ClaimOf(d) : d \in C}
        /\ lock' = NoTick
        /\ tick' = [tick EXCEPT ![t].pc = "after", ![t].set = {}]
        /\ UNCHANGED <<channel, erased, canary, env, starts>>

(* runEgressDeliveries takes and clears the batch before it first awaits.  *)
TakeBatch(t) ==
    /\ tick[t].pc = "after"
    /\ tick' = [tick EXCEPT ![t].pc = "posting", ![t].set = slot]
    /\ slot' = {}
    /\ UNCHANGED <<delivery, channel, erased, canary, env, starts, lock>>
-----------------------------------------------------------------------------
(* enrichEvent by kind of event.  The live row of a person decides whether *)
(* they may be named; a public download names nobody; any other action     *)
(* carries its meta.                                                       *)
Identity == IF erased = "person" THEN "skip" ELSE "model"
GrantModel == Identity                                          \* enrichGrantRevoked

(* The acceptance keeps name and address past a purge, and is not asked.   *)
AcceptanceModel == Identity

(* A deleted file leaves nothing to tell of.                               *)
DownloadModel(anonymous) ==
    IF erased = "file" THEN "skip" ELSE IF anonymous THEN "model" ELSE Identity

Enriched(kind) ==
    CASE kind = "access_request" -> Identity
      [] kind = "access_grant" -> GrantModel
      [] kind = "nda_acceptance" -> AcceptanceModel
      [] kind \in {"document", "public_document"} -> DownloadModel(kind = "public_document")
      [] OTHER -> "model"

SkipDelivery(t, k) ==                                           \* markSkipped
    /\ tick[t].pc = "posting" /\ k \in tick[t].set
    /\ Enriched(KindOf[k.d]) = "skip"
    /\ delivery' = [delivery EXCEPT ![k.d].status = "skipped"]
    /\ tick' = [tick EXCEPT ![t].set = @ \ {k}]
    /\ UNCHANGED <<channel, erased, canary, env, starts, lock, slot>>

(* eventHeaders: the version read at the claim, and the one before it.     *)
FaultySignatures(k) == {<<env.key, k.version>>}
Signatures(k) ==
    IF env.key = NoRoot THEN {} ELSE {<<env.key, v>> : v \in {k.version, k.version - 1} \ {0}}
Verifies(k) ==
    LET known == channel[ChannelOf[k.d]].known
    IN  known = NoSecret \/ known \in Signatures(k)

(* classifyResponse, and postEvent for what fails before a response.  A    *)
(* channel that must be signed is refused without a key                    *)
(* (signing_key_missing), and its consumer answers 401 to a signature it   *)
(* does not know.                                                          *)
Possible(k) ==
    IF ChannelOf[k.d] \in Signing /\ (env.key = NoRoot \/ ~Verifies(k)) THEN {"terminal"}
    ELSE {"ok", "retry", "terminal"}

Post(t, k, answer) ==
    /\ tick[t].pc = "posting" /\ k \in tick[t].set
    /\ Enriched(KindOf[k.d]) = "model"
    /\ answer \in Possible(k)
    /\ tick' = [tick EXCEPT ![t].pc = "answered", ![t].set = @ \ {k},
                              ![t].told = {k}, ![t].answer = answer]
    /\ UNCHANGED <<delivery, channel, erased, canary, env, starts, lock, slot>>

(* The outcome is written by id alone, with the count the claim read: a    *)
(* row that was skipped or settled meanwhile is overwritten.               *)
Outcome(k, answer) ==
    CASE answer = "ok" -> "delivered"
      [] answer = "terminal" \/ k.attempts + 1 >= Attempts -> "failed"
      [] OTHER -> "pending"

RecordOutcome(t, k) ==
    LET a == tick[t].answer
    IN  /\ tick[t].pc = "answered" /\ k \in tick[t].told
        /\ delivery' = [delivery EXCEPT ![k.d].status = Outcome(k, a),
                                        ![k.d].attempts = k.attempts + 1]
        /\ channel' = IF a = "ok" THEN [channel EXCEPT ![ChannelOf[k.d]].cold = FALSE]
                      ELSE channel                              \* last_success_at
        /\ tick' = [tick EXCEPT ![t].pc = "posting", ![t].told = {}, ![t].answer = "unsent"]
        /\ UNCHANGED <<erased, canary, env, starts, lock, slot>>

(* disableStaleEndpoints: read, then one transaction per endpoint.         *)
Stale(c) ==
    /\ channel[c].enabled /\ channel[c].cold
    /\ \E d \in Deliveries : ChannelOf[d] = c /\ delivery[d].attempts > 0

FindStale(t) ==
    /\ tick[t].pc = "posting" /\ tick[t].set = {}
    /\ tick' = [tick EXCEPT ![t].pc = "sweep",
                            ![t].set = {c \in Channels : env.on /\ Stale(c)}]
    /\ UNCHANGED <<delivery, channel, erased, canary, env, starts, lock, slot>>

FaultyDisableStale(t, c) ==
    /\ tick[t].pc = "sweep" /\ c \in tick[t].set
    /\ channel' = [channel EXCEPT ![c].enabled = FALSE, ![c].logged = @ + 1,
                                  ![c].off = IF channel[c].enabled THEN @ + 1 ELSE @]
    /\ tick' = [tick EXCEPT ![t].set = @ \ {c}]
    /\ UNCHANGED <<delivery, erased, canary, env, starts, lock, slot>>

DisableStale(t, c) ==
    /\ tick[t].pc = "sweep" /\ c \in tick[t].set
    /\ channel' = IF channel[c].enabled
           THEN [channel EXCEPT ![c].enabled = FALSE, ![c].logged = @ + 1, ![c].off = @ + 1]
           ELSE channel
    /\ tick' = [tick EXCEPT ![t].set = @ \ {c}]
    /\ UNCHANGED <<delivery, erased, canary, env, starts, lock, slot>>

EndTick(t) ==
    /\ tick[t].pc = "sweep" /\ tick[t].set = {}
    /\ tick' = [tick EXCEPT ![t] = Asleep]
    /\ UNCHANGED <<delivery, channel, erased, canary, env, starts, lock, slot>>
-----------------------------------------------------------------------------
(* setEndpointEnabled; skipping the backlog goes with enabling.  How long  *)
(* ago the last success was is not reset.                                  *)
SetEndpointEnabled(c, on, skip) ==
    /\ skip => on
    /\ channel[c].off < MaxDisables \/ ~on
    /\ channel' = [channel EXCEPT ![c].enabled = on]
    /\ delivery' = [d \in Deliveries |->
           IF skip /\ ChannelOf[d] = c /\ delivery[d].status = "pending"
           THEN [delivery[d] EXCEPT !.status = "skipped"] ELSE delivery[d]]
    /\ UNCHANGED <<erased, canary, env, starts, lock, slot, tick>>

(* bumpSecretVersion.                                                      *)
BumpSecretVersion(c) ==
    /\ channel[c].version < MaxSecret
    /\ channel' = [channel EXCEPT ![c].version = @ + 1]
    /\ UNCHANGED <<delivery, erased, canary, env, starts, lock, slot, tick>>

(* revealEndpointSecret, and the operator pastes it into the consumer.     *)
RevealSecret(c) ==
    /\ env.key # NoRoot                               \* signing_key_missing
    /\ channel' = [channel EXCEPT ![c].known = <<env.key, channel[c].version>>]
    /\ UNCHANGED <<delivery, erased, canary, env, starts, lock, slot, tick>>

(* purgeRequester, deleteDocumentFile.                                     *)
Erase(what) ==
    /\ erased = "nothing"                             \* bound
    /\ erased' = what
    /\ UNCHANGED <<delivery, channel, canary, env, starts, lock, slot, tick>>

(* Time: a pushed-forward row falls due, a day passes without a success.   *)
FallDue(d) ==
    /\ delivery[d].status = "pending" /\ ~delivery[d].due
    /\ delivery[d].claims < MaxClaims
    /\ delivery' = [delivery EXCEPT ![d].due = TRUE]
    /\ UNCHANGED <<channel, erased, canary, env, starts, lock, slot, tick>>

GrowCold(c) ==
    /\ channel' = [channel EXCEPT ![c].cold = TRUE]
    /\ UNCHANGED <<delivery, erased, canary, env, starts, lock, slot, tick>>

(* The process dies and comes back, perhaps with another environment.      *)
RestartProcess(e) ==
    /\ starts < MaxStarts /\ starts' = starts + 1
    /\ env' = e
    /\ lock' = NoTick /\ slot' = {}
    /\ tick' = [t \in Ticks |-> Asleep]
    /\ UNCHANGED <<delivery, channel, erased, canary>>

EgressNext ==
    \/ \E t \in Ticks :
          \/ StartTick(t)
          \/ \E S \in SUBSET Deliveries : PickCandidates(t, S)
          \/ LockCandidates(t)
          \/ TakeBatch(t)
          \/ \E k \in tick[t].set : \/ SkipDelivery(t, k)
                                    \/ \E a \in Answers : Post(t, k, a)
          \/ \E k \in tick[t].told : RecordOutcome(t, k)
          \/ FindStale(t)
          \/ \E c \in Channels : DisableStale(t, c)
          \/ EndTick(t)
    \/ \E c \in Channels :
          \/ \E on, skip \in BOOLEAN : SetEndpointEnabled(c, on, skip)
          \/ BumpSecretVersion(c)
          \/ RevealSecret(c)
          \/ GrowCold(c)
    \/ \E d \in Deliveries : FallDue(d)
    \/ \E what \in {"person", "file"} : Erase(what)
    \/ \E e \in Environments : RestartProcess(e)

EgressSpec == EgressInit /\ [][EgressNext]_egressVars
-----------------------------------------------------------------------------
EgressTypeOK ==
    /\ delivery \in [Deliveries -> DeliveryRow]
    /\ DOMAIN channel = Channels
    /\ \A c \in Channels :
          /\ channel[c].enabled \in BOOLEAN /\ channel[c].cold \in BOOLEAN
          /\ channel[c].version \in 1..MaxSecret
          /\ channel[c].known \in {NoSecret} \cup (RootKeys \X (1..MaxSecret))
    /\ erased \in {"nothing", "person", "file"} /\ canary \in RootKeys \cup {NoRoot}
    /\ env \in Environments /\ starts \in 0..MaxStarts /\ lock \in Ticks \cup {NoTick}
    /\ slot \subseteq Claim
    /\ \A t \in Ticks : tick[t].told \subseteq Claim /\ tick[t].answer \in Answers

(* However many ticks find the same stale endpoint, each automatic         *)
(* disablement is logged once (disableStaleEndpoints, deliver.ts).         *)
DisabledIsLoggedOnce == \A c \in Channels : channel[c].logged = channel[c].off

(* A consumer that follows the last secret it was shown verifies every     *)
(* request, over a rotation and over a restart with another key.  Excused  *)
(* are a rotation while the request was claimed, a second rotation the     *)
(* consumer was not told of, and a secret shown under a key that egress    *)
(* never took up (eventHeaders, checkSigningKeyCanary).                    *)
SignaturesVerify ==
    [][\A t \in Ticks : \A k \in tick[t].set :
         LET c == ChannelOf[k.d]
         IN  tick[t].pc = "posting" /\ tick'[t].told = {k} /\ c \in Signing /\ env.key # NoRoot =>
               \/ Verifies(k)
               \/ channel[c].version > k.version
               \/ channel[c].known[2] + 1 < k.version
               \/ channel[c].known[1] # canary]_egressVars
=============================================================================

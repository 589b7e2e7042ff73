----------------------------- MODULE MailQueue -----------------------------
(***************************************************************************)
(* The outbox and those who fill and empty it: mail/queue.ts, the          *)
(* reminders of access/expiry.ts, the erasure of purge.ts and the mail     *)
(* part of retention.ts.                                                   *)
(*                                                                         *)
(* mail:drain and grants:remind each run under their advisory lock, so     *)
(* there is one of each at a time, and both write in many small            *)
(* transactions between which a purge or a crash may fall.  Handlers read  *)
(* an address in one statement and queue a mail to it in a later one.      *)
(* Windows of time are not counted: what lies in one may be due at any     *)
(* moment.                                                                 *)
(***************************************************************************)
EXTENDS Naturals, FiniteSets

CONSTANTS
    People,
    Blank,           \* the address '' an erased row is left with
    NoAddress,       \* of a row not yet inserted
    MailGrants,
    OwnerOf,         \* access_grant.requester_id
    MaxMails,        \* bound: rows ever inserted
    MailAttempts,    \* MAX_ATTEMPTS
    DrainLimit,
    MaxCrashes       \* bound: crashes of the process

ASSUME MailAssumption ==
    /\ OwnerOf \in [MailGrants -> People]
    /\ Blank \notin People /\ NoAddress \notin People \cup {Blank}
    /\ {MaxMails, MailAttempts, DrainLimit} \subseteq Nat \ {0} /\ MaxCrashes \in Nat

VARIABLES mail, purged, desk, drain, reminder, remind, crashes

mailVars == <<mail, purged, desk, drain, reminder, remind, crashes>>

Mails == 1..MaxMails
ReminderKinds == {"expiry", "acceptance"}
MailRow == [status : {"absent", "pending", "sent", "failed"},
            to : People \cup {Blank, NoAddress}, attempts : 0..MailAttempts, due : BOOLEAN,
            mark : {"none", "late", "flown"}]      \* history, see PurgeIsFinal
MailClaim == [m : Mails, to : People \cup {Blank}, attempts : 0..MailAttempts,
              gone : SUBSET People]                \* history: purged at the claim
Absent == [status |-> "absent", to |-> NoAddress, attempts |-> 0, due |-> FALSE, mark |-> "none"]
NoRun == [pc |-> "idle", due |-> {}, held |-> {}]
NoDrain == [batch |-> {}, held |-> {}, answer |-> "unsent"]
-----------------------------------------------------------------------------
MailInit ==
    /\ mail = [m \in Mails |-> Absent]
    /\ purged = {} /\ desk = {}
    /\ drain = NoDrain /\ remind = NoRun
    /\ reminder = [g \in MailGrants |->
           [phase |-> "inert", stamp |-> [k \in ReminderKinds |-> FALSE], queued |-> [k \in ReminderKinds |-> 0]]]
    /\ crashes = 0

Enqueued == {m \in Mails : mail[m].status # "absent"}
NextRow == Cardinality(Enqueued) + 1
Queued(to) ==
    [status |-> "pending", to |-> to, attempts |-> 0, due |-> TRUE,
     mark |-> IF to \in purged THEN "late" ELSE "none"]
EnqueueEmail(to) ==
    /\ NextRow \in Mails
    /\ mail' = [mail EXCEPT ![NextRow] = Queued(to)]

(* A handler that writes to somebody: the address first, the row later.    *)
ReadAddress(p) ==
    /\ p \notin purged \cup desk
    /\ desk' = desk \cup {p}
    /\ UNCHANGED <<mail, purged, drain, reminder, remind, crashes>>

QueueLetter(p) ==
    /\ p \in desk
    /\ EnqueueEmail(p)
    /\ desk' = desk \ {p}
    /\ UNCHANGED <<purged, drain, reminder, remind, crashes>>
-----------------------------------------------------------------------------
(* drainOutbox.  The claim pushes the rows forward, so that a crash delays *)
(* them; the batch is then mailed one row at a time, by what the claim     *)
(* read.                                                                   *)
InFlight == {k.m : k \in drain.batch \cup drain.held}
DrainClaim ==
    LET Due == {m \in Mails : mail[m].status = "pending" /\ mail[m].due}
    IN  /\ drain = NoDrain
        /\ \E S \in SUBSET Due \ {{}} :
              /\ Cardinality(S) <= DrainLimit
              /\ S = Due \/ Cardinality(S) = DrainLimit
              /\ mail' = [m \in Mails |-> IF m \in S THEN [mail[m] EXCEPT !.due = FALSE] ELSE mail[m]]
              /\ drain' = [drain EXCEPT !.batch =
                    {[m |-> m, to |-> mail[m].to, attempts |-> mail[m].attempts, gone |-> purged] :
                        m \in S}]
        /\ UNCHANGED <<purged, desk, reminder, remind, crashes>>

(* "failed" is also a missing attachment, and a mail that went out but     *)
(* could not be recorded as sent.                                          *)
HandOver(k, answer) ==
    /\ drain.held = {} /\ k \in drain.batch
    /\ drain' = [batch |-> drain.batch \ {k}, held |-> {k}, answer |-> answer]
    /\ UNCHANGED <<mail, purged, desk, reminder, remind, crashes>>

FaultySpent(k) == k.attempts
Spent(k) == k.attempts + 1

(* By id alone, whatever has become of the row.                            *)
RecordMail(k) ==
    /\ k \in drain.held
    /\ mail' = IF drain.answer = "sent"
           THEN [mail EXCEPT ![k.m].status = "sent", ![k.m].attempts = @ + 1]
           ELSE [mail EXCEPT ![k.m].attempts = Spent(k),
                             ![k.m].status = IF Spent(k) >= MailAttempts THEN "failed" ELSE "pending"]
    /\ drain' = [drain EXCEPT !.held = {}, !.answer = "unsent"]
    /\ UNCHANGED <<purged, desk, reminder, remind, crashes>>

BackoffEnds(m) ==
    /\ mail[m].status = "pending" /\ ~mail[m].due /\ m \notin InFlight
    /\ mail' = [mail EXCEPT ![m].due = TRUE]
    /\ UNCHANGED <<purged, desk, drain, reminder, remind, crashes>>

(* redactDeliveredMail                                                     *)
RedactDeliveredMail ==
    /\ mail' = [m \in Mails |-> IF mail[m].status \in {"sent", "failed"}
                                THEN [mail[m] EXCEPT !.to = Blank] ELSE mail[m]]
    /\ UNCHANGED <<purged, desk, drain, reminder, remind, crashes>>
-----------------------------------------------------------------------------
(* purgeRequester on the outbox: pending rows fail, then every row of the  *)
(* address is blanked; both match on the address.                          *)
Failed(row, p) == IF row.to = p /\ row.status = "pending" THEN [row EXCEPT !.status = "failed"] ELSE row
FaultyBlanked(row, p) == IF row.to = p THEN [row EXCEPT !.to = NoAddress] ELSE row
Blanked(row, p) == IF row.to = p THEN [row EXCEPT !.to = Blank] ELSE row
FaultyErased(row, p) == Failed(Blanked(row, p), p)
Erased(row, p) == Blanked(Failed(row, p), p)

PurgeRequester(p) ==
    /\ p \notin purged
    /\ purged' = purged \cup {p}
    /\ mail' = [m \in Mails |->
           [Erased(mail[m], p) EXCEPT !.mark = IF mail[m].to = p /\ m \in InFlight THEN "flown" ELSE @]]
    /\ UNCHANGED <<desk, drain, reminder, remind, crashes>>
-----------------------------------------------------------------------------
(* grants:remind: the expiry reminders, the acceptance reminders, and the  *)
(* closing of what was never accepted.  Each loop reads all that is due    *)
(* and then queues and stamps grant by grant.                              *)
Due(g, kind) ==
    /\ reminder[g].phase = IF kind = "expiry" THEN "live" ELSE "inert"
    /\ ~reminder[g].stamp[kind]
    /\ OwnerOf[g] \notin purged

ReadDue(kind) ==
    \E S \in SUBSET {g \in MailGrants : Due(g, kind)} :
        remind' = [pc |-> kind, due |-> S, held |-> {}]

StartRemind ==                                              \* sendExpiryReminders
    /\ remind.pc = "idle" /\ ReadDue("expiry")
    /\ UNCHANGED <<mail, purged, desk, drain, reminder, crashes>>

GoOn ==                                                     \* sendAcceptanceReminders
    /\ remind.pc = "expiry" /\ remind.due = {} /\ remind.held = {}
    /\ ReadDue("acceptance")
    /\ UNCHANGED <<mail, purged, desk, drain, reminder, crashes>>

QueueReminder(g) ==
    /\ g \in remind.due /\ remind.held = {}
    /\ EnqueueEmail(OwnerOf[g])
    /\ reminder' = [reminder EXCEPT ![g].queued[remind.pc] = @ + 1]
    /\ remind' = [remind EXCEPT !.due = @ \ {g}, !.held = {g}]
    /\ UNCHANGED <<purged, desk, drain, crashes>>

FaultyStampColumn(kind) == "expiry"
StampColumn(kind) == kind

StampReminder(g) ==
    /\ g \in remind.held
    /\ reminder' = [reminder EXCEPT ![g].stamp[StampColumn(remind.pc)] = TRUE]
    /\ remind' = [remind EXCEPT !.held = {}]
    /\ UNCHANGED <<mail, purged, desk, drain, crashes>>

CloseUnaccepted ==                                          \* closeUnacceptedGrants
    /\ remind.pc = "acceptance" /\ remind.due = {} /\ remind.held = {}
    /\ \E S \in SUBSET {g \in MailGrants : reminder[g].phase = "inert"} :
           reminder' = [g \in MailGrants |->
               IF g \in S THEN [reminder[g] EXCEPT !.phase = "closed"] ELSE reminder[g]]
    /\ remind' = NoRun
    /\ UNCHANGED <<mail, purged, desk, drain, crashes>>

(* activateGrants: an acceptance starts the clock, of a grant that was     *)
(* closed after it was read too.                                           *)
GrantMoves(g) ==
    /\ reminder[g].phase \in {"inert", "closed"}
    /\ reminder' = [reminder EXCEPT ![g].phase = "live"]
    /\ UNCHANGED <<mail, purged, desk, drain, remind, crashes>>

(* revokeGrant, in any phase, and the passing of expires_at.               *)
GrantEnds(g) ==
    /\ reminder[g].phase # "over"
    /\ reminder' = [reminder EXCEPT ![g].phase = "over"]
    /\ UNCHANGED <<mail, purged, desk, drain, remind, crashes>>

CrashMail ==
    /\ crashes < MaxCrashes /\ crashes' = crashes + 1
    /\ drain' = NoDrain /\ remind' = NoRun /\ desk' = {}
    /\ UNCHANGED <<mail, purged, reminder>>

DrainNext ==
    \/ DrainClaim
    \/ \E k \in drain.batch, answer \in {"sent", "failed"} : HandOver(k, answer)
    \/ \E k \in drain.held : RecordMail(k)

MailNext ==
    \/ \E p \in People : ReadAddress(p) \/ QueueLetter(p) \/ PurgeRequester(p)
    \/ DrainNext
    \/ \E m \in Mails : BackoffEnds(m)
    \/ RedactDeliveredMail
    \/ StartRemind \/ GoOn \/ CloseUnaccepted
    \/ \E g \in MailGrants :
          QueueReminder(g) \/ StampReminder(g) \/ GrantMoves(g) \/ GrantEnds(g)
    \/ CrashMail

(* The timers of startJobRunner keep ticking; crashes are bounded.         *)
MailFairness ==
    WF_mailVars(DrainNext) /\ \A m \in Mails : WF_mailVars(BackoffEnds(m))

MailSpec == MailInit /\ [][MailNext]_mailVars /\ MailFairness
-----------------------------------------------------------------------------
MailTypeOK ==
    /\ mail \in [Mails -> MailRow]
    /\ purged \subseteq People /\ desk \subseteq People
    /\ drain.batch \cup drain.held \subseteq MailClaim
    /\ \A g \in MailGrants : /\ reminder[g].phase \in {"inert", "live", "closed", "over"}
                             /\ reminder[g].stamp \in [ReminderKinds -> BOOLEAN]
                             /\ reminder[g].queued \in [ReminderKinds -> 0..MaxMails]
    /\ remind.pc \in ReminderKinds \cup {"idle"} /\ remind.due \cup remind.held \subseteq MailGrants
    /\ crashes \in 0..MaxCrashes

(* A drain takes up a mail for an erased person only when a handler or a   *)
(* reminder that read the address before the erasure queued it after, and  *)
(* a row without an address only when a drain was already holding it when  *)
(* it was erased (purgeRequester, redactDeliveredMail, drainOutbox).       *)
PurgeIsFinal ==
    \A k \in drain.batch : /\ k.to \in k.gone => mail[k.m].mark = "late"
                           /\ k.to = Blank => mail[k.m].mark = "flown"

(* Each crash repeats at most one reminder, and a grant is marked as       *)
(* reminded only of what it was reminded of: a nudge to sign does not      *)
(* spend the warning that access ends (sendExpiryReminders,                *)
(* sendAcceptanceReminders).                                               *)
RemindedOnce ==
    /\ \A g \in MailGrants, kind \in ReminderKinds :
          reminder[g].stamp[kind] => reminder[g].queued[kind] > 0
    /\ \A g \in MailGrants, kind \in ReminderKinds : reminder[g].queued[kind] <= 1 + crashes
    /\ Cardinality({x \in MailGrants \X ReminderKinds : reminder[x[1]].queued[x[2]] > 1}) <= crashes

(* Every queued mail is sent or given up, however often a crash or an      *)
(* erasure falls between its claim and its record (drainOutbox).           *)
MailSettles ==
    \A m \in Mails : mail[m].status = "pending" ~> mail[m].status \in {"sent", "failed"}
=============================================================================

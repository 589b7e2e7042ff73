# TLA+ model of the trust center

This directory specifies the parts of the trust center (SvelteKit and
PostgreSQL, `src/src`) where several actors meet: visitors and staff who race
for the same request, jobs on a schedule, transactions that commit out of order,
deliveries that are retried. The modules are written from the code. TLC checks
them on small instances; TLAPS proves, for every value of the constants, every
safety property they check there. `PROJECT.json` lists components, runs, hazards
and theorems, and maps each definition to the lines it models.

    tlc -workers 2 -config lifecycle.cfg MCAccessLifecycle.tla
    tlc -workers 2 -config fanout.cfg MCEventFanout.tla
    tlc -workers 2 -config jobs_live.cfg MCJobs.tla
    tlc -workers 2 -config documents.cfg MCDocuments.tla
    tlc -workers 2 -config operations.cfg MCOperations.tla
    for m in EventFeed AccessLifecycleProofs EventFanoutProofs EgressProofs \
             SinkProofs MailProofs DocumentsProofs OperationsProofs; do tlapm $m.tla; done

Paths below are relative to `src/src/lib/server/` unless they start with `src/`.

## 1. Inventory

One process (or several, behind one database) serves a public portal and an
admin area and runs a job scheduler. All state is in PostgreSQL, under READ
COMMITTED; there is no in-memory state that two requests share. So components
interact in three ways: by calling each other inside one transaction, by reading
rows the other wrote, and through the append-only `audit_event` table, which
both the webhook egress and the audit sink tail with a cursor.

| Component | State | Operations | Hard because | Correct when | Modelled |
|---|---|---|---|---|---|
| Access requests (`access/requests.ts`, `verify.ts`) | `access_request`, `magic_link` | submit, verify, decide, sweep unverified | two staff decide at once; the link races the sweep | one grant per request; an approved request has its grant; nothing unverified lingers | yes |
| Grants (`access/grants.ts`, `expiry.ts`, `nda/activation.ts`) | `access_grant`, `_nda`, `_acceptance` | mint, start, revoke, close, remind | activation decides on rows it read before its transaction | clocks start on signatures and inside their window; ends are final; every wait ends | yes; reminders with the mail queue |
| Agreements (`nda/templates.ts`, `acceptance.ts`) | `nda_template`, `_version`, `_body`, `nda_acceptance` | draft, edit, publish, retire, accept | a reader signs a page rendered earlier; an edit is checked before it is written | an accepted text stands; only the version in force is accepted | yes, without names, notes and seeding |
| Access rules (`access/rules.ts`) | `access_rule` | match, decide, edit | ties between patterns, no ORDER BY | the outcome does not depend on row order | yes |
| Scopes and groups (`access/scope.ts`, `groups.ts`) | `access_group`, `document_group`, scope rows of grants | create, edit, delete, move documents | what a grant covers moves with the catalogue | what is proposed suffices for what is delivered | yes, without names |
| Document delivery (`access/grants.ts`, `delivery/*`) | grants, files, objects | may a download happen, serve, count | three reads while everything moves; database and object store share no transaction | no download on an ended grant; rows have objects; an erased person's rows name none | yes, without the watermark cache |
| Audit events (`audit/index.ts`) | `audit_event` | record, horizon | visible in commit order, numbered in insert order; a purge re-keys rows | what is below the horizon is final | yes |
| Event fan-out (`egress/fanout.ts`, `endpoints.ts`) | `event_endpoint.cursor`, `event_delivery` | tick; create, edit, disable, enable, skip, delete | a tick is many statements with a snapshot each | delay, not loss | yes, without test events |
| Endpoint delivery (`egress/deliver.ts`, `index.ts`, `canary.ts`, `enrich.ts`, `secret.ts`) | `event_delivery`, `event_endpoint`, the canary setting, the process's batch | claim, post, retry, give up, disable, rotate, restart | ticks overlap after the lock is gone; a key changes with a restart | a consumer verifies what it gets; a disablement is logged once | yes |
| Audit sink (`auditsink/*`) | `audit_batch`, `_shipment`, the process's shelf | cut, claim, rebuild, ship, fail | what is rebuilt later is not what was cut; overlapping ticks; sinks change with a restart | the copy is complete up to its cursor | yes, without attestations |
| Mail queue (`mail/queue.ts`, `access/expiry.ts`) | `outbound_mail`, reminder stamps | enqueue, claim, hand over, retry, redact, remind | a purge while a message is in flight; a crash between handing over and recording | no mail is taken up for an erased person; a reminder is repeated only by a crash | yes |
| Subscriptions (`subscriptions/*`) | `subscription.last_notified_at`, `update_post` | subscribe, confirm, save, leave, notice run | the run reads and writes in two transactions | a notice repeats nothing and steps over nothing | yes |
| Sessions (`identity/*`, `auth/*`, `hooks.server.ts`) | `magic_link`, `requester_session`, `staff_session`, cookies, rate limit | sign in, switch, sign out, log in, disable, decide a request | consuming and minting are separate statements | nobody is served on an ended session | yes, without the OpenID exchange |
| Content (`content/*`) | documents, controls, certifications, answers, subprocessors, posts | edit, publish, delete, render | a page reads its rows and their links at different times | a page links only to what was public | yes, without wording and order |
| Purge, retention (`purge.ts`, `retention.ts`) | most tables | erase a requester, sweep | crosses every other component | erasure leaves the log readable and nothing is sent again | its rows in each module |
| Job runner (`jobs/*`) | advisory locks | run on interval | instances overlap; ticks overlap after the lock | one claim at a time | the locks in the modules of the jobs, the timers as fairness |
| Layout, fonts, import, S3, syslog, SMTP, telemetry, configuration | none | I/O | | | left out |

PROJECT.json gives the status of each with the reason. `hazards` there lists, at
the line where it bites, what a test would hardly reach; the properties below
are aimed at that list.

## 2. Modules

| Module | What it is |
|---|---|
| `AccessLifecycle` | requests, decisions, grants, acceptances and their clocks |
| `AgreementRegister` | abstract: what others rely on when they ask about an agreement |
| `AgreementVersions` | drafts, bodies, numbering, publication, signing; an implementation of `AgreementRegister` |
| `DocumentDelivery` | scopes, groups, requirements and the download decision, written against `AgreementRegister` |
| `DocumentFiles` | file rows and the objects they name; the body of a download |
| `AccessRules` | patterns, the tie-break and the decision |
| `EventFeed` | abstract: what a log promises its readers; with a proof that nothing is lost |
| `EventFanout` | the audit log as PostgreSQL shows it, the fan-out and the operations on endpoints; an implementation of `EventFeed` |
| `EgressDelivery` | claims, posts, retries, stale endpoints, signing keys |
| `AuditSink` | batches, shipments, the process's shelf |
| `MailQueue` | the outbox, the drain, the reminders |
| `Subscriptions` | subscribers, posts, the notice run |
| `Sessions` | requester and staff sessions, cookies, logins |
| `Catalogue`, `Disclosure` | the public pages and their editors; subprocessors and the posts about them |
| `AccessLifecycleProofs`, `EventFanoutProofs`, `EgressProofs`, `SinkProofs` | inductive invariants and theorems of one module each |
| `MailProofs` | of `MailQueue` and `Subscriptions` |
| `DocumentsProofs` | of `AgreementVersions`, `DocumentDelivery`, `DocumentFiles`, and of `MCDocuments`, which holds them |
| `OperationsProofs` | of `Sessions`, `Catalogue`, `Disclosure`, `AccessRules`, and of `MCOperations`, which holds them with three of the above |
| `MCAccessLifecycle`, `MCEventFanout`, `MCSubscriptions` | values of the constants for TLC |
| `MCDocuments`, `MCOperations`, `MCJobs` | modules that share no row, checked side by side |

Definitions called `Faulty...` are the definition that follows them with a
plausible bug put in. No run uses them; replacing a definition by its faulty
form breaks the property listed with it under `mutants`, which shows that the
property depends on that piece of code.

### AccessLifecycle

| Variable | Code |
|---|---|
| `request[r]` | `access_request.status`, `created_at`, and whether its magic link is unused |
| `grant[g]` | `access_grant` with its frozen requirements (`access_grant_nda`) and evidence (`access_grant_acceptance`); `deadline` is the `acceptance_due_at` it was minted with, which activation clears |
| `accepted` | `nda_acceptance` |
| `version[t]` | the published version in force, 0 for none |
| `decision[d]` | an open `decideRequest` transaction: what it read, the row it inserted |
| `reader[h]` | a click-through request: what it rendered, what `activateGrants` read |
| `clock` | `now()`, in units of a day |

Where the code can be overtaken an operation is several actions; where it is one
statement, or a transaction that locks what it works on first, it is one.

| Actions | Code |
|---|---|
| `SubmitRequest`, `VerifyRequest`, `SweepUnverified` | `submitRequest`, `verifyRequest` with the rules' three outcomes, `sweepUnverifiedRequests` |
| `DecideOpen`, then `DecideWithoutGrant`, or `DecideApprove`, `DecideStart`, `DecideList`, `DecideLookup` and `DecideCommit`, or `DecideRollback` | `decideRequest`: a plain SELECT; the UPDATE by id of a denial or a question; the insert with the frozen requirements; the fast path, an `activateGrants` inside the transaction with the same three moments; the commit |
| `OpenAgreement`, `RecordAcceptance`, `VersionMoved`, `HandlerFails` | the agreement page: load, the transaction that accepts, the 409, and a failure while the record is rendered, stored or mailed |
| `ActivateStart`, `ActivateList`, `ActivateRead`, `ActivateCommit` | `activateGrants`: the instant it starts from, the grants and what they require, the acceptances, three moments on the pool; then a transaction whose UPDATE restates only `expires_at IS NULL` |
| `CloseUnaccepted`, `RevokeGrant`, `PublishVersion`, `Tick` | `closeUnacceptedGrants`, `revokeGrant`, `publishVersion` as seen from here, time |

Mail is in `MailQueue`, and which documents a grant names in `DocumentDelivery`:
here what an approval requires is any set of templates in force, and whether an auto-approved blanket
goes to the queue instead is left open (`blanketNeedsAHuman`).

### EventFeed and EventFanout

`EventFeed` knows nothing of transactions or cursors. Entries become final
(`Publish`); a feed opens, is repositioned, closes; entries are handed over
(`Take`). An entry stops being owed to a feed only because it was handed over,
because the feed was told to skip it, or because a newer version replaced it.

`EventFanout` has the log as PostgreSQL presents it. Transactions get ids in
order (`Begin`), insert rows that get a `seq` in order (`Record`), and end in any
order (`Commit`, `Abort`); a row is visible once its `xmin` is not running. A
purge updates old rows, which gives them a new `xmin` (`Rewrite`, applied by
`Commit`). The horizon is the oldest running id (`currentHorizon`).

| Variable | Code |
|---|---|
| `rows`, `nextSeq`, `nextXid`, `running`, `rewrites` | `audit_event`, its sequence, and PostgreSQL's transactions |
| `endpoint[e]` | the row of `event_endpoint`: state, cursor, patterns; and, for the properties, the id it started from (`since`), the id up to which history was declined (`floor`) and the kinds wanted ever since it was created (`steady`) |
| `pending`, `settled` | `event_delivery` rows owed, and delivered, failed or skipped |
| `late` | those a `recordFailure`, which matches on the id alone, has put back in the queue after another claim had settled them (`LateFailure`) |
| `tick` | the transaction of the running `egress-claim` job: the horizon, what it read of each endpoint, what it has inserted, the cursors it has moved |
| `admin` | a transaction that has read the horizon and will create or re-enable an endpoint |
| `handed`, `queued`, `sent` | history, read by no action |

A tick is `TickBegin` (horizon), `TickRead`, `TickDepths`, `TickPatterns`, one
`TickScan` or `TickSkips` per endpoint (window, deliveries, cursor), and
`TickCommit`. Between any two of these, writers, admins and deliveries act: each
statement has a snapshot of its own. What a tick has written is seen by others
only when it commits; the endpoint row it updated is locked until then
(`Locked`), and `TickFails` undoes everything. An endpoint deleted after it was
read makes the INSERT fail on its foreign key and the tick roll back
(`TickOrphaned`).

`EventFanout` implements `EventFeed` with an event known by its key `<<xmin,
seq>>`: it is owed to an endpoint while the cursor is before it, handed over when
a committed tick moved the cursor past it inside a window, and excused when it is
below the floor.

### AgreementRegister and AgreementVersions

`AgreementRegister` says which version of an agreement is in force and who signed
which. Any change of what is in force is allowed, because a locale that is
enabled can bring an older version back; what it promises is that a signature is
never lost and is of a version people have been shown.

`AgreementVersions` has the rows (`versions`, `acceptances`, `retired`), the
enabled locales, what each staff request has read (`editor`) and what each
signatory was shown (`page`). Each operation is split where READ COMMITTED lets
another in: `NumberOpen`/`NumberCommit` (`createVersion` under the template's
lock), `EditOpen`/`EditCommit` (`setVersionBody` reads `first_accepted_at`
unlocked), `PublishOpen`/`PublishCommit`/`PublishIncomplete`,
`ShowAgreement`/`SignCheck`/`SignCommit` or `SignRefused` (`recordAcceptance`).
A text stands for itself and for its hash. `Register` instantiates the abstract
module with `EffectiveVersion` as what is in force.

### DocumentDelivery and DocumentFiles

`DocumentDelivery` has documents with their groups, groups with their agreement,
grants with their scope and dispositions, the default agreement, and downloads in
flight. A grant waits, runs, has been closed by the sweep or is over: an activation
reads it while it waits (`DecideToStart`) and then starts it, also if it has been
closed in between (`StartGrant`, `CloseGrant`); what is revoked or has expired stays
over (`EndGrant`). What the queries compute are operators: `Conferring` (`conferredSelect`),
`Narrowed` (`narrowByAgreements`), `Proposal` (`proposeRequirements`),
`CountGrantDocuments`, `GrantedDocuments`. A download is `FindFile`, `Confer`,
`ReadRequirements`, `CheckAgreements`; any action of staff may fall between, also
between `SaveDocumentRow` and `SetDocumentGroups`, the two transactions of one
form. `AgreementChanges` is any step of the register.

`DocumentFiles` is one document in one language: `PutObject`, `NumberFile`,
`InsertFile` of an upload, `SignAgreement`, `PutRecord`, `PointRecord` of a signed
record, `DeleteFile`, `DeleteDocumentRow`, `DeleteObject`, the purge of a person
(`PurgeRead` lists the keys of their records, `PurgeCommit` nulls the column, the
objects listed are `doomed` after it), and the download's `LookUp`, `ReadObject`,
`RecordDownload`, `SendBody`, each with its failure.

### AccessRules

`rules` is the heap order in which verification reads the table.
`PatternMatches`, `Preferred`, `MatchRule` and `DecideFromRules` are `rules.ts`; the
filter and the reduce of `matchRule` are one fold over the rows. A domain is the
sequence of its labels, of which only lengths are kept. Rules and the
document tiers are read in two statements by `verify.ts:77-91`; the tiers are a
constant here, so the two are one read.

### EgressDelivery

| Variable | Code |
|---|---|
| `delivery[d]` | `event_delivery`: status, attempts, whether it is due |
| `channel[c]` | `event_endpoint`: enabled, cold (no success for days), `secret_version`; and, for the properties, the secret its consumer was last shown and how often it was disabled and logged |
| `canary`, `env` | the stored signing-key canary; switch and key of the process |
| `lock`, `slot`, `tick` | the advisory lock, the module-level `claimed`, the ticks that overlap |

A tick is `StartTick` (lock, drop the last batch, compare the canary),
`PickCandidates` and `LockCandidates` (the ranked query and `FOR UPDATE SKIP
LOCKED`, each with a snapshot of its own), `TakeBatch`, per claim `SkipDelivery`
or `Post` and `RecordOutcome`, then `FindStale`, `DisableStale`, `EndTick`.
`Enriched` is `enrichEvent` by kind of event, `Possible` what a consumer may
answer: it refuses a signature it does not know. `RestartProcess` loses the
batch and may bring another key.

### AuditSink

A transaction's rows are visible when it commits (`EndWriter`); a purge rewrites
every row of a person in one UPDATE and records its own event in the same transaction
(`CommitErasure`). A tick is `OpenShift` (lock, horizon), `BuildBatch` or
`BuildNothing`, `ClaimShipments`, and after the lock `StartShipping`,
`ShipBatch`, `RecordShipment` or `FailShipment`, `EndShift`. `shelf` is the
module-level `claimed` and `prebuilt`; a batch that is not on the shelf is
`Rebuilt` from the rows in its range by then, which an erasure has made fewer.
`RestartSink` may bring other sinks.

### MailQueue

`mail[m]` is a row of `outbound_mail`, `drain` the run of `mail:drain` and what it
holds, `remind` the run of `grants:remind`, `reminder[g]` the grant's two stamps
and, for the properties, how often each reminder was queued. Between `ReadAddress`
and `QueueLetter`, `DrainClaim` and `HandOver`, `HandOver` and `RecordMail`,
`QueueReminder` and `StampReminder` a purge (`PurgeRequester`) or a crash
(`CrashMail`) may fall; `mark` is history and says which of these a row came
from. A claim pushes `next_attempt_at` forward, and an attempt is counted when the
outcome of the hand-over is recorded: a crash in between costs a delay, no attempt. A
grant moves as reminders see it: it waits, runs, has been closed or is over, and
a closed one may yet run (`GrantMoves`, `nda/activation.ts:135`).

### Subscriptions

A row remembers by its `cursor` what it was told. `NotifyRead` is the select with
its limit, `NotifyCommit` the transaction that queues and advances, `NotifyLost` a
crash in between. The clock counts minutes, the precision of an operator's date.

### Sessions

Requesters: `IssueLink`, `Consume` (one conditional update, counted by the rate
limit), `Mint` in a later statement, `SwitchLocale`, `SignOut`, `PurgeVisitor`.
Staff: `BeginLogin`, `RecogniseStaff`, `RevokeOthers`, `MintStaff`, three
statements of one callback, or `Refused`, `TurnedAway`. An operator may `Disable`
and `Enable` a colleague in the database. A request `Arrive`s with a token anybody may
have copied; `Validate` is the one query that decides it. `visit.ended` is history:
the session, or its owner, had ended and the owner has not been enabled since.

### Catalogue and Disclosure

`Catalogue` has headings, documents (`paper`), controls, certifications and
answers (`exhibit`), their editors, and one `page` that reads its rows first
(`OpenPage`), names, titles and links later in any order, and shows what has a
heading, a title and a file in the wanted language or the default one. A file is
known by its document and language; `shut` is history, the current files a
document has never been public with (`AddPaperFile`, `RemovePaperFile`), and the page
remembers which were uploaded `since` it was opened.
`Disclosure` has subprocessors and posts with dates, and `NoticeCoverage` as
`subprocessors.ts` computes it.

## 3. Runs

| Run | Instance | Shows |
|---|---|---|
| `lifecycle` | 1 request, 2 grants, 2 deciders, 1 reader, 1 agreement, time to 3 | races of decisions, signing, revoking and sweeping; liveness |
| `lifecycle_domain` | 2 requests of 3 people at 2 companies, domain scope, rules that approve and deny, 2 versions | the inductive invariant; one grant per request if decisions come one at a time (2,874,202 states) |
| `fanout` | 1 endpoint, 3 transactions, 3 events, window 2, threshold 0, 1 failure | the refinement, the inductive invariant, the backlog bound (1,690,988 states) |
| `jobs_live` | the fan-out with 2 events and window 1; an outbox of 2 mails, 2 attempts, 1 crash, drained one mail at a time | every event is taken in the end and every mail settles (187,722 states) |
| `documents` | 2 editors, 1 signatory, 2 versions, 2 locales; 1 document, group, grant and download; 2 uploads, 3 keys, 1 signature | agreements, delivery and files (1,101,030 states) |
| `operations` | one or two of everything, see below | delivery of events, mail, subscriptions, the sink, sessions, rules, pages, disclosures (1,336,548 states) |
| `lifecycle_two_decisions`, `lifecycle_resurrect`, `lifecycle_stranded`, `fanout_replay`, `agreements_rewritten`, `notices_skipped` | the smallest instance of each | places where the code does not do what its comments or documents say, section 5 |

`documents`, `operations` and `jobs_live` hold several modules that share no row.
A variable `part` chosen at the start says which of them moves, so a run is the
union of its parts and not their product. The parts of `operations`:

| Part | Module | Left out of that part for its size |
|---|---|---|
| `signing`, `ticks` | `EgressDelivery` | one tick at a time with rotations and a restart; two ticks that overlap without them (`EgressBound`) |
| `mail`, `crash` | `MailQueue` | letters and reminders without a crash; reminders with one (`MailBound`) |
| `subscriptions` | `Subscriptions` | one of two posts is never translated (`SubsBound`) |
| `log`, `restart`, `overlap` | `AuditSink` | three transactions and three events in single ticks, the third event with one transaction running; a restart with other sinks, and two ticks that overlap with one transaction running at a time, two events each (`SinkBound`) |
| `visitor`, `staff` | `Sessions` | none: the two share nothing |
| `rules` | `AccessRules` | rules are changed while there are two (`RulesBound`) |
| `document`, `control`, `certification`, `answer` | `Catalogue` | one kind of page; only one of its names, titles or files varies in its languages (`CatalogueBound`) |
| `disclosure` | `Disclosure` | none |

What the properties say:

* `StartedOnAcceptances`: a grant that needed agreements runs only on recorded
  acceptances of each, by somebody whose signature covers the holder, although
  the activation decided on rows read earlier.
* `ClockStartsInWindow`, `WaitingHasDeadline`: the clock of a grant that waited
  starts before the deadline it was issued with, and never gives more than a term
  from now; until then the grant carries the deadline the sweep needs.
* `ApprovedHasGrant`: whatever was rolled back or decided meanwhile, "approved"
  has a grant behind it.
* `EndsAreFinal`: a started clock, a revocation, a close are written once.
* `WaitEnds`, `UnverifiedEnds`: inert grants and unverified requests do not stay.
* `CursorBehindHorizon`: nothing that may still commit sorts before a cursor,
  although horizons are read some time before they are stored.
* `NothingLost`: an event the cursor has passed, of a kind wanted throughout and
  not skipped, has been queued.
* `FeedSpec`: every behaviour of the fan-out is one of `EventFeed`.
* `BacklogBounded`: beside the deliveries late failures put back, which no depth
  limits, a queue never exceeds the threshold by more than a window.
* `EventuallyTaken`: an enabled endpoint's cursor passes each event it waits for.
* `SignedTextStands`: a signed text is still a body of its version, unless an edit
  had passed its check when the signature was recorded.
* `NumbersNeverCollide`: the number an open `createVersion` chose stays free.
* `ListedIsInForce`: the admin list names the version signatories are shown, as
  long as versions are published in the order of their numbers (the list orders
  by number, `effectiveVersion` by publication), and reports missing locales
  exactly when nobody could be shown anything.
* `RegisterKept`: all this is an `AgreementRegister`.
* `EndIsImmediate`: no download is allowed on a grant that had been revoked or had
  expired when it arrived, nor on a closed one, unless an activation in flight had
  read it before it was closed.
* `ProposalCoversDelivery`, `CountIsExact`: the places that ask which agreements
  apply, and what a grant delivers, agree.
* `RowsHaveObjects`: whatever fails, is deleted or purged, a file row and a filed
  record name an object that is there, and a file one that can be stamped.
* `ErasedKeepNoRecord`: after a purge no signature of the person names a record, but
  for one whose request was under way when the purge committed.
* `SignaturesVerify`: a consumer that follows the last secret it was shown verifies
  every request, but for a rotation while the request was claimed, two rotations
  it was not told of, or a secret shown under a key egress never took up.
* `DisabledIsLoggedOnce`: however many ticks find an endpoint stale.
* `SinkKeepsLog`: what stands at or below the cursor was handed to a sink and
  taken by it once the batches up to there are recorded as shipped, across
  commits out of order, erasures, overlapping ticks and restarts.
* `PurgeIsFinal`, `RemindedOnce`, `MailSettles`: a drain takes up a mail for an
  erased person only if it was read before the erasure; a reminder is repeated at
  most once per crash and spends no other; every mail ends.
* `NoticesAreNews`: a cursor is past what the row was told and past the last save.
* `OnlyTheLiveAreServed`: nobody is served on a session that had ended on arrival,
  or as somebody then purged, or disabled and not enabled again meanwhile.
* `OrderDoesNotDecide`: a domain gets one decision whatever the order of rows,
  unless two rules have the same pattern and priority.
* `OfferedWasPublic`: what a page links to was public while it was rendered, and a
  file a document was never public with is linked only if it was uploaded after the
  page's first query, to a document gated after it.
* `WarningsHaveReasons`: a warning about an unannounced subprocessor comes and goes
  only for a save or a post, never by the passing of days.

Bounds, and why they suffice. Two grants and two deciders are the smallest
instance in which two transactions answer one request; three instants let a
deadline fall before, at and after an activation; two versions let one be
overtaken. In the fan-out three transactions suffice for one that holds the
horizon back, one that overtakes it, and one (an admin's or a purge's) that comes
after; three events fill a window of two and leave one. Endpoints meet only in
the tick's transaction, so one endpoint shows the races of a cursor; that several
share a tick is covered by the proofs, which take any number. Two secret versions
and two keys let a rotation and a changed key each fall inside a claim; two
attempts let a delivery or a mail be retried and be given up; two batches, two
sessions, two links, two tabs of cookies and two logins let one overtake another;
two dates besides today let a post fall before, between and after. The races of
one document, grant or page are races of its own rows, and the proofs take any
number. All names with `Max` that PROJECT.json does
not map to a constant of the code are bounds of the model (versions, transaction
ids, claims, crashes, restarts, the clock, rows ever inserted); `MaxRules`,
`MaxStamp`, `MaxFileVersion` likewise. Because of them the systems may stop, and
the runs with such bounds do not check deadlock. In `operations` every event is
about a document (`OfDocuments`), the kind whose payload depends on most.

Fairness. `lifecycle`: time passes and the scheduler keeps starting both sweeps
(`jobs/index.ts` runs every job on its interval and a failed run is tried at the
next one); nobody is obliged to verify, decide, sign or revoke. `jobs_live`, the
fan-out: every transaction ends, the job is started every fifteen seconds and its
steps go on, and every delivery of an enabled endpoint ends, because it is given
up after its last attempt. The outbox: the timer of `startJobRunner` keeps
starting the drain and its steps go on, and a backoff ends; crashes are bounded by
`MaxCrashes`. Reminders stand still in that run, so letters alone fill the
outbox. No fairness is assumed of admins, writers, handlers, purges, the sweep of
old deliveries, or failure; failed ticks are bounded by `MaxFails`.

## 4. Proofs

All leaves are checked by tlapm; there are no assumptions beyond the named ones
of the modules (`...Assumption`), which say what the constants are: sets that are
not empty, a bound that is a positive number, a value that is not in a set. TLC
evaluates them in every run. Every invariant and every action property of the
six passing runs is a theorem; one of them, `OneGrantPerRequest`, under a
condition, because without it the code breaks it.

`AccessLifecycleProofs` proves `IInv` inductive and from it type correctness,
`StartedOnAcceptances`, `ClockStartsInWindow`, `WaitingHasDeadline` and
`ApprovedHasGrant`; and `EndsAreFinal` as a property of every step. None of
these is inductive alone, because a commit writes what was decided on rows read
earlier. The strengthening has two parts: a row keeps its own promises
(`RowOK`), whether committed or still in its transaction, and a plan stays good
until it commits (`PlanOK`), because it relies only on what never changes of a
minted row: whose it is, what it requires, the deadline it was issued with, before
which the plan's instant lies although it was fixed before the row was read. The
lemmas `RowStays` and `PlanStays` say so once for any step inside a `Frame`;
one lemma per action remains.

`OneGrantPerRequest` is false of the code as it stands (section 5), so its theorem
says what is missing. `AloneMintsOnce`: it holds in every behaviour in which no
two decisions of one request overlap (`DecidedAlone`), which is what a lock on the
row `decideRequest` reads would give. Then a request somebody is deciding still
waits for its answer, and a request that has a grant is approved
(`AnsweredOnce`); so the verification by rules, the other way to mint, cannot come
between. `OneDeciderMintsOnce` is the case of one decision in flight at a time,
which `lifecycle_domain` checks and `lifecycle_two_decisions` leaves.

`EventFanoutProofs` proves `IInv` of `EventFanout`. Its notion is a position that
is *reached*: nothing that can still become visible sorts before it, and every
visible row up to it, but those below the floor, has been handed over and, if its
kind is wanted throughout, queued. A stored cursor is reached; so is the cursor a
tick read at its start, although an admin may since have moved the stored one;
so is the one the tick will store, counting what it has inserted but not
committed. A step of the database makes visible only rows whose `xmin` was
running, and starts nothing older than what was running (`DbStep`), so a position
once reached stays reached (`StaysReached`) — this is why keying by `(xmin, seq)`
below the horizon is right and keying by `seq` is not. The theorems:
`CursorStaysBehind`, `FanoutLosesNothing`, `FanoutTypes`;
`FanoutImplementsFeed`, that each step is a step of `EventFeed` under the
mapping; and `FanoutDropsNothing`, which takes `NothingIsDropped` over from
`EventFeed`. They hold for any number of endpoints, kinds, transactions and
events, every window and every threshold. `QueuesStayBounded` is `BacklogBounded`:
the depth a tick read at its start is stale when it inserts. Meanwhile deliveries
leave a queue, and only a late failure puts one back; without those (`late`) an
endpoint the tick took on is still not above the threshold, and one tick adds one
window to it at most (`RoomLeft`).

`EgressProofs` proves `SignaturesVerify` and `DisabledIsLoggedOnce`. Its invariant
`EgressInv` has two facts that a tick cannot see: no claim, and no consumer, is
ahead of its channel's version (`NoneAhead`), and while anything is claimed or a
claim is under way the key of the process is the canary's or absent (`KeyHolds`).
The key is compared once at the start of a tick and used much later; what closes
the gap is that only a restart changes it, and a restart drops every batch.

`SinkProofs` proves `SinkKeepsLog`. What a window may take is below the horizon,
and every writer that runs or is yet to start is at or above it (`HorizonsHold`);
so no row version ever becomes visible inside the range of a batch that is cut
(`ChainHolds`), and a body rebuilt from that range at any later moment holds every
row version that still stands (`CopiesHold`). An erasure only moves rows out of
ranges, and its own event is above them all. The ranges of the chain leave no gap, so a key at or below a cursor lies in
the first range that ends at or after it. Overlapping ticks and restarts lose or
repeat claims, and neither unships a batch (`ShippedHold`).

`DocumentsProofs`, of the agreements: a signature recorded with no edit open freezes
its version, and no edit of it opens after; one recorded beside an open edit says so
(`SignaturesHold`). Number, page and signature are the rest of `AgreementInv`, from
which `SignedTextStands` and `NumbersNeverCollide` follow. `ListedIsInForce` compares
two choices, the greatest by number and by date of publication, which agree when the
orders do. `AgreementsAreARegister` is the refinement `RegisterKept`: each step maps to
a step of `AgreementRegister` or a stutter, a signature to `Sign` because the page
it was made on showed a version that was in force. Of the delivery: `EndIsImmediate`
needs that what is over stays over and a closed grant that no activation has read
stays closed (`EndIsFinal`), and that the rows a download works with were live when it read them
(`EndedStay`); `ProposalCoversDelivery` and
`CountIsExact` hold in every state, they are facts about how the queries are built.
Of the files: what a running upload holds is in storage, nobody else's and not
doomed; what is doomed is named by no row, and no row can come to name it
(`FilesInv`), which holds of the keys a purge has read because they are of its
person's records and of nobody else's. `ErasedKeepNoRecord` follows the request that inserts the row:
only it can point the row at an object, so an erased row names one only if that
request was under way at the commit (`ErasedHold`). The three are proved of their own specifications; a behaviour of
`MCDocuments` is a behaviour of each, which is how `DocumentsTypes` is obtained.

`MailProofs`, of the outbox: a row is claimed by one drain, and between claim and
record only an erasure writes it, so what a drain holds knows what it knew
(`RowsHold`, `ClaimsHold`); rows are numbered without a gap, so a new one overwrites
none (`CountsHold`). `RemindedOnce` counts: one reminder at a time is queued and not
stamped, a crash leaves at most one such loose, only a loose one can be queued again,
and so the loose and the repeated are together no more than the crashes
(`RepeatsHold`). Of the notices: a plan brings nothing dated after its cursor, and its
cursor is not after the clock (`PlansHold`), so a save, which moves a row to the clock,
moves it past whatever a plan in flight still brings. That a plan has a latest post
is the well-foundedness of the naturals.

`OperationsProofs`, of the sessions: types are inductive by themselves;
`OnlyTheLiveAreServed` needs that a session in use never comes back, that a purge is final and a disablement
lasts until the owner is enabled, and that a request that arrived on an ended session is on one
that is refused whenever it is decided. Of the pages: the links are followed from
where they are read (`Sources`): a row marked free was public when the page was opened,
evidence and certificates are public when the links are read, and whatever is public
while the page is open is recorded; of a file the document was never public with,
that it was uploaded since the page was opened. Of the disclosures: `WarningsHaveReasons` is a fact
about each step, a warning being computed from rows. Of the rules:
`OrderDoesNotDecide` is about a fold over a sequence of any length. The fold is
described by its prefixes (`FoldRuns`), and followed row by row with an induction
through the least number of a set (`WFMin`): what `MatchRule` holds after a row is the
first so far in the order `Before`, which is total on the rules that match one domain
unless two are tied. It is, because wildcards that match one domain are suffixes
of it, so that equally long ones are equal; two orders of the same rows then have the
same first. `OperationsTypes` puts the parts together as `DocumentsTypes` does: the
specification of the run implies that of each part (of the outbox: all but its
fairness, which no safety theorem uses), so every theorem named
here holds of the runs as they are.

Only model-checked: the liveness properties (`WaitEnds`, `UnverifiedEnds`,
`EventuallyTaken`, `MailSettles`), which are beyond this prover, and what the runs of
section 5 refute.

## 5. Where the code and what is said of it differ

* `OneGrantPerRequest`: `decideRequest` reads the request without a lock and
  updates it by id, so two staff approving at once mint two grants; the comment
  at `access/requests.ts:214-215` says the status test prevents this.
* `ClosedNeverStarts`: an approval the sweep closes between the read and the
  UPDATE of an activation gets a running clock although it is closed;
  `nda/activation.ts:9-11` and a unit test say closed grants are not resurrected.
  What a grant confers depends on `expires_at` and `revoked_at` only
  (`access/grants.ts:133-141`), so such a grant gives access although it is closed;
  one that was revoked meanwhile does not.
* `NoStrandedGrant`: under domain scope a colleague's signature covers a waiting
  approval, but nothing starts it until its holder signs or is approved again;
  `src/docs/self-hosting.md:457-462` says they get access.
* `NoHistoryPosted`: a purge re-keys old rows above the cursor of endpoints
  created long after them, and those the enricher does not refuse are posted; the
  comment at `db/schema/egress.ts:77-80` rules this out.
* `SignedTextNeverChanges`: `setVersionBody` reads `first_accepted_at` without a
  lock and writes later; a signature recorded in between has its text replaced,
  although "a version that has been signed cannot change"
  (`nda/templates.ts:14`). `SignedTextStands` is what does hold.
* `NothingSteppedOver`: two posts may carry the same minute. One that goes live
  between the select and the update of a run that announces the other stands at
  the cursor, the comparison is strict, and it is never sent; the design
  (phase 4 notifications, :565) says this cannot happen.

Seen while modelling, no run:

* The egress design document (:1041-1044) says an event whose transaction is open
  when a cursor is set is never delivered; it is, because the horizon is the
  oldest running transaction (`NothingLost`). A backlog skipped while a tick runs
  can come back in part, since the tick overwrites the cursor with a position it
  read before. A second delivery after the sweep of old deliveries and a purge is
  a residual the same document records (:1050-1055).
* Two rules with the same pattern and priority can be entered, and then row order
  decides, which `access/rules.ts:45` says it must not; hence the premise of
  `OrderDoesNotDecide`.
* A denied OpenID login leaves sessions and the role of an earlier one as they
  were (`auth/callback/+server.ts:97-124`), and two callbacks at once can leave two
  live sessions.
* Verifying under another locale leaves a second cookie; the comment in
  `access/switch/+server.ts` says there is exactly one.
* A signed-in event recorded after a purge carries address and user agent again.
* The decision mail is chosen by the list of required agreements, not by what is
  outstanding (`admin/requests/[id]/+page.server.ts:193-247`).
* `outstandingAgreements` speaks of a live grant but filters on `revoked_at` alone
  (`nda/acceptance.ts:237-270`).
* An attestation that failed is stamped as made (`auditsink/index.ts:98`,
  `attest.ts:44-48`).
* Deleting a category deletes its documents and leaves their objects.
* `activateGrants` fixes its instant before four awaited queries
  (`nda/activation.ts:52`), so a grant minted in between is started from an instant
  before it existed, and runs for less than its term by that much.
* A closed grant that an activation restarts (`ClosedNeverStarts`) is served like any
  other; `EndIsImmediate` names it.
* `recordFailure` matches on the id alone (`egress/deliver.ts:488-500`): the late failure
  of one claim puts a delivery back that another claim has delivered or skipped. It is
  posted again, and counts towards the depth of its queue; `BacklogBounded` is
  about the other deliveries.
* A document is gated and a file uploaded to it, both between the row query of the
  public page and its file query (`content/documents.ts:70`, `:107`): the page links to
  the file, although `:57-58` says a gated document's file id never leaves the
  database. The download refuses it. `OfferedWasPublic` names this case and excludes
  every other.
* A purge commits while a signature's record is being filed: `storeRecord` then points
  the row of the erased person at the record by id (`nda/record.ts:88-91`), and nothing
  deletes it, since a second purge is refused. `ErasedKeepNoRecord` names this case and
  excludes every other. One pointed at between the purge's read of the keys and its
  update (`purge.ts:112-122`) is nulled and its object stays, as does one whose
  row was never pointed at it: no row names them, so no purge deletes them.
* A mail queued after an erasure, by a run or a handler that had read the address
  before it, is sent; the comment at `access/expiry.ts:38-39` says that mailing an
  erased person "is the one thing erasure must not do". `PurgeIsFinal` says
  that nothing else is sent to them.

## 6. Plan

Done: the core of the system and what surrounds it, as listed above. Left, in
this order:

1. One purge as one transaction over all the tables its pieces are now modelled in.
2. Pages and forms of the admin area that write more than one row, where a
   second transaction may fall between (`admin/documents/[id]`).

## 7. Not modelled

* Wording, templates and layout of mails and PDFs; import of agreements from DOCX
  and PDF; the formats of webhooks and syslog; SMTP, S3, OpenID and HTTP clients
  (external services); parsing of configuration; telemetry. They keep no protocol
  state of their own.
* The watermark cache and the pages of a document that only display what the
  modules compute; names, notes and ordering of rows.
* Attestations of the audit sink, and the sweep of old batches.
* Test events, and the reading of delivery history in the admin area.
* Transaction ids do not wrap around in the model (`audit/index.ts:46-57` records
  that case as a residual).
* Wall-clock arithmetic: windows, backoffs and expiries are "may be due at any
  moment" outside `AccessLifecycle`, `Subscriptions` and `Disclosure`.

# The NAESB EDI gateway in TLA+

A verification project for `naesb-edi-gateway`: TLA+ models of the parts of the
gateway where order, failure and concurrency decide what happens, TLC runs on
small instances, and theorems checked by TLAPS. Paths below are relative to the
repository; *line* references live in `PROJECT.json` (`map`).

## 1. The system

The gateway exchanges PGP-encrypted EDI files with trading partners over HTTP
(NAESB WGQ 4.0). Three processes share one PostgreSQL database, a GnuPG keyring
and read-only YAML configuration:

| process | entry | what it does |
|---|---|---|
| app | `app/main.py` | FastAPI: partners POST to `app/inbound/routes.py::receive`; internal users call `/outbound/send`, `/outbound/jobs/{id}`, `/api/messages...` |
| worker | `app/worker.py` | claims due rows of `outbound_jobs`, makes one delivery attempt of each, writes the outcome back |
| poller | `app/poller.py` | picks up files from `base_dir/<duns>/`, enqueues them, moves them to `processed/` or `error/` |

| component | state | operations | interacts through |
|---|---|---|---|
| outbound job queue (`tracking/repository.py::OutboundJobRepository`) | table `outbound_jobs` | `create`, `claim_due_jobs`, `mark_delivered`, `mark_failed_nack`, `reschedule`, `mark_exchange_failure`, `get` | database transactions |
| delivery worker (`worker.py`) | claimed job objects in memory, partners read at start | poll, process a job, handle a failure | queue, `send_once`, audit trail |
| delivery attempt (`outbound/client.py`) | none | POST, verify and decode the receipt | HTTP to the partner |
| enqueueing (`outbound/enqueue.py`) | none | encrypt, insert a `messages` row, insert an `outbound_jobs` row | called by send API and poller |
| inbound pipeline (`inbound/routes.py`) | the handler's locals | authenticate, parse, check, dedupe, insert, decrypt, enforce, fan out, accept, sign a receipt | audit trail, GnuPG, sinks |
| audit trail (`MessageTracker`) | table `messages`, sequence `trans_id_seq` | `create`, `find_duplicate`, `find_refnum_reuse`, `update_status`, `update_sinks_status`, `mark_processed`, reads | all processes |
| downstream messages API (`api/messages.py`) | none | list, get, mark processed | audit trail |
| sinks (`sinks/`) | files, S3 objects, a webhook | `deliver`, fanned out concurrently | called by the pipeline |
| poller (`poller.py`, `outbound/filewatch.py`) | directories, in-memory attempt counts | scan, pick up, move | file system, enqueueing, refnum counter |
| refnum counter | `partner_refnum_counters` | `next_refnum` | poller |
| migrations (`tracking/db.py`) | `schema_migrations` | `run_migrations` at the start of every process | database |
| envelope, receipt and error codes (`envelope/`) | none | parse, build, classify | pure |
| GnuPG wrapper, policy, keyring (`crypto/`) | keyring directory | encrypt, decrypt, sign, verify, bootstrap | external program |
| partners, settings, DUNS | read once per process | load, look up | pure |

What makes each part correct, and what is hard about it:

- **Queue and worker.** A job is attempted by one worker at a time, as often as
  the retry schedule says and no more, and ends in one outcome that the audit
  row repeats. Hard: several workers, the memory copy of `attempt_count`, two
  transactions per outcome, a worker that dies anywhere, a partner whose
  receipt is lost or late.
- **Inbound pipeline.** A transmission is handed to the sinks at most once, an
  ok receipt is only given for data that is retained, a refusal is what the
  audit row says, everything gets a signed answer. Hard: concurrent copies of a
  transmission, a check and an INSERT that are not atomic, sinks that fail in
  part, a database or GnuPG failure at any stage and again in the `except`
  clause, the consumer that marks rows while the handler still runs.
- **Poller.** A file becomes one job, or ends in `error/` without one. Hard:
  the crash between the two INSERTs or between enqueueing and the move, counts
  that are lost at a restart, files that change while they are read, refnums
  that collide with those of API callers.
- **Retry timing.** The attempts of a job span the Exchange Failure window of
  the standard. Hard: delays counted from failures, the poll interval, slow
  attempts, jobs waiting for others of their batch, two clocks.
- **Start-up.** Every migration is applied once although three processes start
  together, and what serves has the keys it needs. Hard: `schema_migrations` is
  read before others commit, one transaction for the whole run, a keyring that
  only grows.
- **Codecs, identity and policy.** What one gateway builds the other accepts;
  what is accepted belongs to the partner it is booked to; what is reported was
  signed. Hard: many checks in a fixed order, several spellings of a DUNS,
  foreign senders and receivers, delimiters inside quoted text.
- **Two gateways together.** What the sender reports is what the receiver did.
  Hard: a network that loses and delays, retries against deduplication, crashes
  of either side.

All hazards, with their lines and the properties that cover them, are in
`PROJECT.json` (`hazards`).

## 2. Modules

| module | models |
|---|---|
| `JobLifecycle` | abstract: what one outbound job may go through |
| `OutboundQueue` | enqueueing, the queue, worker processes, the partner's answer, the outbound audit row |
| `MCOutboundQueue` | its small instances |
| `OutboundQueueProofs` | its inductive invariant and theorems |
| `MessageLifecycle` | abstract: what the row of an inbound transmission may go through |
| `InboundPipeline` | concurrent handlers of `receive`, the `messages` table, sinks, the downstream consumer |
| `MCInboundPipeline` | its small instances |
| `InboundPipelineProofs` | its inductive invariant and theorems |
| `FileDrop` | the poller, the folders and their users, the refnum counter and the API callers it competes with |
| `MCFileDrop` | its small instances |
| `FileDropProofs` | its inductive invariant and theorems |
| `Exchange` | composition: the workers of one gateway, the network, the pipeline of another |
| `MCExchange` | its small instance |
| `ExchangeProofs` | its inductive invariant and theorems |
| `RetrySchedule` | the queue and its workers with clocks |
| `MCRetrySchedule` | its small instance |
| `RetryScheduleProofs` | its inductive invariant and theorems |
| `Startup` | the processes that start side by side: keyring and migrations |
| `MCStartup` | its small instance |
| `StartupProofs` | its inductive invariant and theorems |
| `Transmission` | one transmission and its receipt: envelope, checks and codes, identity, policy, signatures |
| `MCTransmission` | its small instance |
| `TransmissionProofs` | its inductive invariant and theorems |

`Exchange` composes `OutboundQueue` and `InboundPipeline` by `INSTANCE`, each
with its own actions. `Transmission` opens what the two take as a choice: which
envelope is refused and with which code, and what an answer is believed to say.
`FileDrop` and `OutboundQueue` meet in `enqueue_outbound`: the latter starts
with any call of it, the former says which calls the poller makes. They share no
state, for the worker never looks at files and the poller never at jobs.

### OutboundQueue

A job and the `messages` row it was enqueued with are one element of `Jobs`.
`jobStatus`, `attemptCount`, `due`, `lastError` are columns of `outbound_jobs`
(`due`: `next_attempt_at <= now()`), `msgStatus` is `messages.status`. Each
worker has a program counter, the registry it read when it started, the rows
its open claim transaction has locked, the job objects in its memory (`batch`,
with their `attempt_count`), the job it works on, and the outcome it has yet to
write. `sends` and `accepted` are history and the partner's own state.

A step is one database transaction or one exchange with the partner, since
everything between two awaits is invisible to others. The claim is two steps,
`SelectDue` and `CommitClaim`, because its row locks are visible in between.
`_process_job` is `TakeUnknownPartner` or `BeginSend`, then `ReceiptRead` or
`AttemptFails`, then one of `MarkDelivered`, `MarkFailedNack`,
`MarkExchangeFailure`, `Reschedule`, `MarkUnknownPartner`, then where the code
has it `TrackMessage`. `PartnerReceives` and `PartnerAcceptsLate` are the
partner: it may accept or refuse, may refuse as a duplicate what it accepted
before, and may take in a POST the worker has stopped waiting for. `Crash` is a
kill, and also what any escaping exception does: `run_worker` catches nothing,
so the process ends, the claim transaction is rolled back and the objects in
memory are gone. `SendRaises` is the one exception that needs no fault around
it; it counts as a death all the same. Simplified: which of several due rows a claim takes first, and the batch's
order.

### InboundPipeline

`receive` gives way to other handlers at each await, so one stage is one
action. What a request carries (partner, digest, refnum) is constant; a retry is
another request with the same digest and refnum. A `messages` row has the
identity of the request that inserted it. Steps 2 and 3 are one choice
(`RefuseEnvelope`, `PassEnvelope`): which field is wrong changes only the code
in the receipt. GnuPG's verdict is a choice between success, the three refusals
and an exception. `FanOut` picks any set of durable sinks that succeed; sinks
that are not durable never decide anything. `DbFails` is a database call that
raises at any stage and has had no effect, `SignFails` a receipt that cannot be
signed, `Crash` the end of the process with all its handlers. `MarkProcessed`
is the consumer's bulk update. A request is *cut off* (`CutOff`) when its
process died, or the database failed where nothing catches it: before the row is
there, or in the `except` clause itself.

### FileDrop

A *drop* is one writing of a file under its name. `folder` is what lies in the
watched folders, `filed` the contents of `processed/` and `error/` under the
names `_unique_destination` makes, `quiet` the files whose quiet period is over.
Users write over files and withdraw them between any two steps of the poller;
`taken` is what they took away themselves. `_process_file` is `ReadFile`,
`NextRefnum` where the partner uses refnums, `RecordMessage` and `QueueJob`
(the two transactions of `enqueue_outbound`), `MoveToProcessed`; an exception
on the way leads to `TryAgainLater` or `MoveToError`. A move takes what is under
the name by then; when nothing is, it raises outside the `try` and the process
ends (`MoveVanished`), and so it does when a file is withdrawn between
`is_file()` and `stat()` of a listing (`ListingVanished`). `configured` is what
`partners.yaml` says, which `EditPartners` may change at any moment; `registry`
is what the poller read of it at its start, the only time it reads it. Attempt counts, listing and payload are memory and gone
with the process. `ApiSend` is a caller of `POST /outbound/send` whose refnum
the counter may run into (`RefnumCollides`). `QueueJobUnanswered` is an INSERT
that is committed and raises. Simplified: a listing uses the time at which it is
made rather than that of the cycle's start, directories exist from the start,
and ignorable names are not files here.

### Exchange

The state is that of the two gateways, nothing is added: a POST is in transit
when it has been sent (`sends`) and its request has not arrived
(`handlerPc` is `idle`). `PostArrives` lets the n-th attempt of a job become a
request of the receiver, at any time from then on, or never; attempts overtake
each other. `ReceiptArrives` is the receiver's answer reaching a worker that
still waits. Every other step is a step of one side, the other standing still.
`OutboundQueue`'s own partner (`PartnerReceives`, `PartnerAcceptsLate`) is
replaced by the pipeline, and `ImplementsSender` says that the pipeline behaves
as that partner may. All attempts of a job carry one ciphertext
(`CiphertextOf`), as `enqueue_outbound` encrypts once.

### RetrySchedule

`now` is the database's clock, `skew[w]` what a worker's clock is ahead of it,
`wakeAt` and `endsBy` are when a worker's sleep and its attempt end, `claimed`
is its batch. `Poll` is `claim_due_jobs`, in the order of `next_attempt_at` and
up to the limit; `BeginAttempt` takes the batch's next job; `Receipt`,
`ExchangeFailure` and `Reschedule` end the attempt. `Tick` is possible only
while every worker sleeps or waits for a partner. `MaxAttempt` is a constant of
its own: httpx applies `timeout_seconds` to each operation of an attempt, not
to the attempt. Claim and write-back are one step each here; their interleavings
are `OutboundQueue`'s matter.

### Startup

A process is `down`, `importing` (`bootstrap_keyring`), `creating`, `waiting`
or `reading` `schema_migrations`, at its `files`, or `up`. `tx` is what its open
transaction has run; nobody sees it before `Commit`. `pool.connection()` opens
a transaction and `conn.transaction()` inside it is a savepoint, so all files of
a start are committed together or not at all. PostgreSQL is external: the second
to create the table or to insert a row waits for the first, and fails if the
first commits. `Die` is a kill, a lost database, or a file that fails. `Edit`
changes `partners.yaml`. The keyring is on a volume the processes share and
nothing takes a key out of it.

### Transmission

A behaviour is one transmission. `BuildRequest` makes the envelope of a job;
`ForeignSender` changes one field of it, up to `MaxOddities` times;
`Authenticate`, `ParseForm`, `CheckIdentity` and `DecryptAndVerify` are the
receiver's checks, each a sequence of pairs of a code and a condition, of which
the first that holds decides; `IssueReceipt` builds the report and its
signature; `Alter` changes one field of the response; `ReadResponse` is the rest
of `send_once`. `Registry` is the dictionary by name that `PartnerRegistry`
builds, `Quoted` what a refusal's description takes over from the request.

## 3. Runs

Every configuration sets `CHECK_DEADLOCK FALSE`: when all jobs are concluded, or
all requests answered, nothing is left to do.

| run | question | expected |
|---|---|---|
| `OutboundQueueFaults` | do two workers that may die keep queue, counts, audit row and partner consistent, and implement `JobLifecycle`? Is every queued job concluded and tracked, and stranded only by a death? | holds, tracking but for unknown partners |
| `OutboundQueueRestart` | is a job that was being attempted taken up after a restart? | violated |
| `InboundFaults` | do receipts, rows and sinks agree under races, failures and a crash, and does a row get one verdict that stands? Is every request answered with a signed receipt unless it was cut off? | holds, of receipts that can be signed |
| `InboundUnsigned` | is an authenticated request always answered with a signed receipt? | violated when signing fails |
| `ExchangeFaults` | is what a sending gateway reports what the receiving one did, whatever the network loses and whoever crashes, and is every job concluded? | holds |
| `ExchangeNacked` | does `failed_nack` mean that the receiver does not have the message? | violated by a lost receipt |
| `RetryScheduleWindow` | do the attempts of a job span the Exchange Failure window, and does the queue with a clock implement `JobLifecycle`? | holds |
| `StartupRace` | is no migration committed twice, is what serves ready, does every start-up end? | holds |
| `TransmissionChecks` | is what is accepted attributed, what is refused at fault, what is reported signed, and do two gateways of this code understand each other? | holds |
| `FileDropFaults` | is no file lost or sent twice without a fault, and does `error/` hold what failed often enough? | holds |
| `FileDropLive` | does a file leave its folder whose partner the running poller has read? | holds, if a dead poller is started again |
| `FileDropHeals` | does a folder heal once its partner is added to `partners.yaml`? | violated until a restart |

A violated property is one a document, a comment or a docstring of the
repository states; `PROJECT.json` (`findings`) quotes it. Every property of a
passing run is paired with a mutant of the code's definition that breaks it
(`mutants`); the mutants stand beside the definitions they change.

**Bounds.** Two jobs and two workers are the least that race for a claim; a job
is independent of every other outside `claim_due_jobs`, whose limit of 2 makes batches that die with one of
their jobs (`ExchangeFaults` has a limit of 1, the proofs any). Schedule length 3 is the default
and has a first, a middle and a last attempt. Two crashes let both workers die,
or one die twice. Three requests are two copies of a transmission, of
which one cannot always be given a signed receipt, and a third that shares a
refnum only. `InboundUnsigned` needs a single request. Two durable sinks allow success in part. Two database failures are the stage and the
`except` clause. `transSeq` is bounded by the number of requests. In `FileDrop` a name
dropped twice is the least for a replaced file, a colliding name and an
inherited attempt count; a second name, of a partner that in the liveness
runs is not always in `partners.yaml`, lets one file wait for another. Two attempts are a first and a last; two faults
exhaust them, and a refnum taken by an API caller is a third failure. `Copies`
leaves a name for every drop. In `Exchange` one job sent twice by one worker is the
least with a retry that races the first attempt; a second job would share
nothing with it but the worker. `RetrySchedule` counts in minutes: the default
schedule of 0, 15 and 45 minutes, one worker whose clock is up to a minute off,
two jobs that queue behind each other; `MinOffset` and `MaxOffset` are the delays
with every clock at its two extremes. In `Startup` two processes are the least that race, two
files let one be recorded and another not, three keys are our own, one below
the minimum and its successor; every process starts twice at most. In
`Transmission` two oddities show which of two faults is reported, two
alterations that one of a receipt's parts is changed along with another; the
values of each field are one that is right and those that fail each check. The
proofs remove the bounds of the modules they are about. The two
writings of one name are symmetric in `FileDropFaults`; liveness is checked
without symmetry. `SendRaises` is bounded by `MaxCrashes`, as the kills are.

**Fairness.** `OutboundQueue!FairSpec`: weak fairness of a running worker's own
steps (its loop never ends by itself and `send_once` has a timeout, so
`AttemptFails` is always possible), of starting a worker that is down (an
operator's duty; `docker-compose.yml` restarts nothing), and of the clock. The
partner and the callers of `enqueue_outbound` owe nothing.
`InboundPipeline!FairSpec`: weak fairness of the handlers together, which the
event loop runs on; each has finitely many steps, so none is left out for ever.
Partners need not send and the consumer need not consume. `DbFails`
and `SignFails` are part of a handler's steps, bounded by `MaxDbFailures` and
`Unsignable`. `FileDrop!FairSpec`: weak fairness of the poller's loop, which
only an exception ends, of starting it again, and of the quiet periods. Starting it again is an operator's
duty, as for the worker, and `FileLeaves` rests on it: a poller that died of a
vanished file and is left dead picks up nothing. Users, API callers and those who
edit `partners.yaml` owe nothing, and faults
and crashes are bounded by `MaxFaults` and `MaxCrashes`.
`Exchange!FairSpec`: the fairness of the sender alone; the network owes neither
a POST nor a receipt, and the receiver no answer. `Startup!FairSpec`: weak fairness of each start-up's own
steps, which are straight-line code, and of PostgreSQL, which wakes a waiter
when the other transaction ends; nothing is said of starting a process, for
`docker-compose.yml` has no restart policy. `RetrySchedule` and `Transmission`
have safety properties only.

## 4. Proofs

Everything TLAPS proves holds for all values of the constants, under the
assumption on the constants that the module names: arbitrary jobs, workers, partners,
registries, schedule lengths from 0, claim limits from 1, any number of crashes;
arbitrary requests, sinks, and failures; arbitrary schedules, clocks and poll
intervals; arbitrary processes, migration files, keys and configurations;
arbitrary partners, credentials, field values and numbers of alterations. Type
correctness is proved of five modules and not run again; the invariants of
`Exchange` and `Transmission` type the variables they need. Every safety
invariant and every refinement that a passing run checks is also proved.

**OutboundQueue.** `SingleHolder` is not inductive alone. `IInv` adds `HoldInv`
(a row that is locked is queued, and locks and memories of two workers are
disjoint; a job in memory is `in_progress` with the same count), `WorkerInv`
(where a worker is says whether it has a current job, and that it still holds
it until its row is written), `AttemptInv` (a job that was sent has been counted;
one waiting has made every attempt counted; one about to be declared failed has
made them all), `MessageInv` (a worker about to write an audit row has just
written the same outcome to the job, and nobody else will) and `ReceiptInv` (an
ok outcome in a worker's memory is of a message the partner accepted). From it:
`TypeCorrect`, `OneHolder`, `AttemptsBounded`, `ExchangeFailureIsEarned`,
`MessageFollowsJob`, `DeliveredIsAccepted`, the action property
`ConcludedIsFinal`, and `Refinement`: every step is a step of `JobLifecycle` or
a stutter. `HeldInv`, on top of `IInv`, is that whatever is `in_progress` is in
the memory of a worker that runs, until a worker has died; every other step
moves a job out of `in_progress` as it lets go of it. `InProgressIsHeldAlways`
follows.

**InboundPipeline.** `IInv` is `StageInv` (where a handler is says what its row
is), `RowsApart` (no two rows clash), `AcceptInv`, `RefuseInv` and
`DuplicateInv`, which carry each promise of a receipt from the moment its row
is written, through the signing, to the reply. From it: `TypeCorrect`,
`HandedOnOnceAlways`, `OkIsBackedAlways`, `RefusalIsRecordedAlways`,
`DuplicateHasOriginalAlways`, `StuckWasCutOffAlways`, and `Refinement` of
`MessageLifecycle`, all with receipts that can be signed or not. When signing
fails after the row was accepted, the `except` clause writes `rejected` over it,
even if a consumer has marked it `processed` by then: the lifecycle has a step of
its own for that (`Revoke`), open to rows of `Unsignable` alone, and the proof is
that nothing else takes an acceptance back.

**FileDrop.** `IInv` is the types, the six properties and what they need:
`PlaceInv` (what lies anywhere was dropped under that name, and lies nowhere
else), `HeldInv` (what is under the name of the file at hand is that file or
came later; what is about to be moved has a job), `FreshInv` (nothing is
recorded of a file before it is dropped) and `JobInv` (a file at hand and not
yet queued is like a waiting one, though it may have been withdrawn). From it:
`TypeCorrect`, `NothingLostAlways`, `ProcessedWasQueuedAlways`,
`QueuedOnceAlways`, `OrphansAlwaysAccounted`, `ErrorIsEarnedAlways`.
The suffix search is bounded by `Copies`; the runs leave a free name for every
drop, and the proofs hold whatever the bound, a blocked move included.

**RetrySchedule.** `IInv` is `Claims` (a job in a batch is in progress and in no
other batch), `Counts` (the number of attempts goes with the status: one that is
declared failed has had all of them) and `Spaced`, the argument itself: after
attempt *n* the time since the first attempt is at least `MinOffset[n]`, and the
next attempt is not due before `MinOffset[n + 1]`. It needs the distinction of
`Pending` jobs, which are claimed and counted and have yet to be sent. From it:
`TypeCorrect`, `WindowReachedHolds` (an Exchange Failure is never declared early,
if the schedule's delays less the skews reach the window), and
`LifecycleHolds`: the queue with a clock implements `JobLifecycle`.

`WindowKeptHolds` is the other end of the window. Everything a job may wait for
beyond its delays is an attempt of some job, and the poll interval that follows
it. `Spent` is the time all attempts that are over may have taken, one
`MaxAttempt` and one `PollInterval` each (the attempts are counted by the
cardinality of a set of pairs, so that no sum is needed), and it only grows.
`FreeBy(w)` is when worker *w* next looks at the queue, or began or begins what
it is at. `Kept` says that for a queued job `FreeBy` of every worker, and for a
claimed one `FreeBy` of its worker, is at most `MaxOffset[n + 1] + Spent` after
the first attempt; `Awake` that the clock outruns nobody. A worker that goes back to
sleep with nothing claimed has left nothing that is due (`Earliest` with a limit
from 1), one that ends an attempt has added to `Spent` what it is late by. Which
of the due jobs is claimed first plays no part, nor does the number of workers.
The theorem rests on `WindowAssumption`, a condition on the load: all attempts
of all jobs together fit into the window beside the delays. In the code nothing
enforces it; with more jobs than that, one may be sent for the last time after
its window. The run satisfies it with room to spare: 62 minutes of delays at
most, and six attempts of one minute with a minute's sleep each, in a window of
120. TLC evaluates it there.

**Exchange.** `IInv` has a part for each side. `ReceiverInv`: a handler stores
nothing before it has its row, stores once, and says ok only of what it has
stored (`StoredInv`); the attempts of a job, which carry one ciphertext, share
one row (`RowsApart`). `SenderInv`: what has arrived was sent (`ArrivedInv`), and
an ok on its way, read or written down is of a job the receiver holds (`OkInv`).
A step of the receiver either leaves what it holds alone or adds a job that was
sent (`RetainedStep`): that is all the sender's side needs to know of it. From
it: `DeliveredIsRetainedAlways`, `HandedOnOncePerJobAlways`, and
`SenderRefinement`: every step of the two gateways is a step of `OutboundQueue`
or a stutter, the pipeline in the place of the partner, so that every property
proved of `OutboundQueue` holds of the pair. `ExchangeAssumption` asks for a
durable sink: with none configured, `has_durable_success` is true of a message
nobody has stored. It also says that no two jobs share a refnum: 0004 of the
migrations makes the pair of partner and refnum unique among outbound rows.

`NackIsExplainedAlways` needs a second invariant beside the first,
`ExplainedInv`. `AnswerInv`: a handler's answer is its verdict, given once and
after whatever it stored. `OriginalInv`: what is refused as a duplicate has no
row, and the row it was held against is of another attempt at the same job, for
no other job has its digest or refnum. `HoldInv`: a job is in one worker's hands
and leaves them with the transaction that concludes it. `NackInv`: a refusal on
its way, read or written down is the receiver's answer to the job's last POST,
for nobody sends the job again meanwhile. An earlier attempt is then one with a
smaller number, because what has arrived was sent.

**Startup.** `IInv` is `Disjoint` (open transactions hold nothing twice and
nothing that is recorded), `Counted`, `AllOrNothing` (a commit leaves nothing to
do, so whoever finds a row that was not there before finds all of them), and
`KeysChecked`. From it: `TypeCorrect`, `AppliedOnceHolds`, `UpIsReadyHolds`,
`LostRaceIsOverHolds`.

**Transmission.** One transmission passes its stages in order, and `Inv` says
what each of them knows. `FileInv`: no two partners of the file share a DUNS.
`RequestInv`: an envelope in which nothing is odd is the one that was built.
`PartnerInv`: whom a request is taken for is in the file, with its credentials.
`VerdictInv`: a stage that is passed has found nothing, and a verdict is either
ok with all of that found or names a fault the request has. `AgreedInv`: of a
gateway both sides have agreed on, nothing else than ok comes out. `ResponseInv`:
each part of a response is as issued or was altered. `OutcomeInv`: what is
reported is what `send_once` reads out of the response, if it believes it. From
it: `Attribution`, `FaultsAreNamed`, `Agreement`, `SignedOutcome` and
`UnderstoodReceipt`, which are the five invariants of the run, for every
registry and table of credentials, and any number of oddities and alterations.
`TransmissionAssumption` says that `partners.yaml` is a list of partners, that
the spellings of a DUNS have the same nine digits, and that no version or DUNS
is taken for a missing field.

The invariants were first checked by TLC on the instances of the fault runs, and
those of `WindowKeptHolds` and `NackIsExplainedAlways` on further ones: two
workers, a claim limit of 1 and a schedule shorter than the poll interval; two
jobs sent by two workers.

**Model-checked only:** the liveness properties (`QueuedIsConcluded`,
`OutcomeIsTracked`, `RequestIsAnswered`, `FileLeaves`, `ExchangeEnds`,
`StartupEnds`), which need fairness and are out of the prover's
reach; and the four statements TLC finds violated, of which there is nothing to
prove.

## 5. Where the code and its documents part

Four of these are runs that TLC finds violated; the others came up while the
modules were written and are described by the modules' actions.

- A worker that dies leaves its claimed jobs `in_progress`, and no query looks
  for those (`OutboundQueueRestart`).
- The receipt of an accepted message is lost, the retry is refused as a
  duplicate, and the job ends as `failed_nack` although the partner has the
  message (`ExchangeNacked`). `NackIsExplained` says how far a `failed_nack` can
  be trusted.
- "Never a bare unsigned HTTP error" (`routes.py:182`, `docs/inbound-flow.md:10`):
  the `except` clause signs its refusal outside any `try`, so a signing that
  fails ends in a bare HTTP 500 (`InboundUnsigned`). A database failure before
  the `try`, or a second one in the `except` clause, ends there too, the latter
  with the row left at `processing`; `RequestIsAnswered` and `StuckWasCutOff`
  say that nothing else does, for a request whose receipt can be signed, but the
  death of the process.
- A folder of an unknown partner "self-heals once the partner is added to
  `partners.yaml`" (`poller.py:144`, `docs/outbound-flow.md:56`): the poller reads
  that file when it starts and never again, so the folder waits for a restart
  (`FileDropHeals`).
- "Every inbound and outbound transmission is tracked" (`README.md:136`): a job
  whose partner the worker does not know is concluded, but its `messages` row
  stays `queued` for ever (`worker.py:44-48`). No fault is needed, a `partners.yaml`
  that changed between enqueueing and the attempt is enough.
  `OutcomeIsTracked` excepts these jobs, and those of a worker that died between
  its two transactions.
- A `UniqueViolation` is answered with the code of the partner's mode, whichever
  constraint was violated (`routes.py:175`).
- A row that was rejected counts as the original of a duplicate: a partner that
  retries what the gateway failed at is told it was processed already
  (`repository.py:56`, `error_codes.py:111`).
- Signing that fails after acceptance overwrites `accepted` or `processed`
  (`routes.py:285`; `Revoke` of `MessageLifecycle`).
- A file replaced between being read and being moved goes to `processed/`
  although nobody queued it (`filewatch.py:84`).
- `settings.py:220` gives the retry schedule "from job creation", 45 minutes in
  all; each delay is counted from the failure before, which makes an hour. The
  window is kept either way (`RetryScheduleWindow`).
- `db.py:15` speaks of a transaction for each migration file; there is one for
  the whole run. On a fresh database the process that loses the race for
  `schema_migrations` dies and is not started again, for `docker-compose.yml`
  has no restart policy; starting it again is enough (`LostRaceIsOver`).
- The shared keyring keeps keys that the configuration no longer names; one that
  is too short keeps every process from starting until it is deleted by hand.
- A bad refnum or refnum-orig is refused with EEDM108, "Invalid transaction-set",
  although the transaction-set may be in order or not there at all, for
  `parse_multipart_form` reports whatever the model refuses under that name
  (`multipart_codec.py:148`); `multipart_codec.py:24-25` speaks of "the exact
  EEDM1xx error code". `RefusalNamesAFault` says what EEDM108 does mean: one of
  the three is malformed.
- The poller, whose "pickup failures must never crash the poll loop"
  (`poller.py:100`), dies when a file is withdrawn while its folder is listed
  (`filewatch.py:58`) or before it is moved (`MoveVanished`, `ListingVanished`),
  and `docker-compose.yml` does not start it again.
- A job whose `transaction_set` no envelope admits ends the worker when its turn
  comes (`SendRaises`, `BuildRequest`).

## 6. What is left out

- The bytes: MIME syntax, ciphertexts, error texts; in `Transmission` they are
  names. Base64 and constant-time comparison of credentials, TLS, the source
  address. GnuPG itself and the parsing of its status lines are external.
- A commit whose acknowledgement is lost, except in `FileDrop`: elsewhere a
  database call that raises has had no effect. In the worker this case is close
  to a crash right after the step; in the pipeline it is not covered.
- A file that is read while it is still written, or replaced with one whose quiet
  period is not over when the poller comes to it: a drop is whole and was quiet
  when it was listed.
- Crashes and the partner in `RetrySchedule`, which `OutboundQueue` has; a
  network that repeats a POST in `Exchange`, which one HTTP connection does not.
- The statements inside a migration file, and a volume whose keyring two `gpg`
  processes write at the same instant.
- A consumer's own status names in `POST /api/messages/status` (all are
  `processed` here), and the checks of the bodies of both APIs.
- What sinks write; they succeed or fail.
- Reading configuration and environment, application assembly, logging,
  read-only endpoints, deployment: they keep no state of the gateway.

## 7. Plan

Done: the queue, the pipeline and the poller; their timing, their start-up, what
is inside a transmission, and two gateways together; three abstract
specifications (`JobLifecycle`, `MessageLifecycle`, and `OutboundQueue` as the
contract of `Exchange`); proofs about seven modules, of every safety property the
runs check. What could follow:

1. An abstract specification of a dropped file (waiting, then processed or
   failed) for `FileDrop` to implement.
2. The load under which `WindowKept` holds counts every attempt of every job;
   with clocks that agree, the order of `claim_due_jobs` would let one count only
   the jobs that were due before.
3. The API's request checks and reserved status names; commits without
   acknowledgement in the pipeline.

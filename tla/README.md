# A TLA+ development of the email scheduler

The scheduler takes a list of leads over HTTP, stores one row per recipient in
PostgreSQL, queues one BullMQ job per row in Redis, and lets workers send the
emails over SMTP within each sender's hourly limit and minimum delay. This
directory holds models of it that TLC checks on small instances and theorems
about them that TLAPS proves for every instance.

Paths below are relative to `apps/backend/src/` unless they say otherwise.

## Inventory

| Component | Code | State | Operations |
| --- | --- | --- | --- |
| Email processor | `worker/email-processor.ts` | none of its own; rows of `scheduled_emails`, `send_attempts`, `email_batches` | load, delay, reserve, recordRateLimit, claimEmail, send, recordAccepted, recordFailure, updateBatchCompletion |
| Email queue | `queue/email-queue.ts`, `queue/email-worker.ts` | BullMQ jobs with the ID `bullJobId`; BullMQ itself is external | enqueueEmailRows, enqueueEmailBatch |
| Reconciliation | `queue/reconcile.ts`, `worker.ts` | none | sweep of stale PROCESSING rows, paged enqueueing, at each worker start |
| Sender rate limiter | `rate-limit/sender-rate-limiter.ts`, `worker/rate-seed.ts` | Redis: counter per sender and hour, time of the next send, reservation per email, all with expiry | reserve, seed |
| Batch creation | `email/scheduling-service.ts`, `email/router.ts` | batch and rows in one serializable transaction | POST /email-batches with an idempotency key |
| Senders API | `email/router.ts`, `auth/google-user.ts` | `email_senders`: address, default, active, policy | POST /senders, PATCH /senders/:id, the upsert of a sign-in |
| Lead parser | `email/lead-parser.ts`, frontend `ComposeModal.tsx` | none; the dialog's file and preview | parse, normalise, deduplicate; choose and preview a file in the browser |
| Dashboard | `email/router.ts`, frontend `DashboardPage.tsx`, `EmailTable.tsx` | the page's cursors; react-query's cache (external) | keyset pages of scheduled and of sent emails; next, back, tabs, refetch |
| Sessions, sign-in | `auth/*` | Redis sessions, `users` | get, set, touch, destroy; upsert of the Google profile |
| Mailer | `email/mailer.ts` | none; nodemailer is external | send |
| Configuration, server, logging, clients, frontend | `config/env.ts`, `server.ts`, `app.ts`, ... | none that matters here | |

How they interact. The API commits a batch and then enqueues its rows; a crash
in between leaves rows without jobs, which a repeated POST or the next worker
start repairs. A worker takes a job, reads the row, asks the limiter, claims
the row with a conditional update, sends, and records the outcome with another
conditional update. PostgreSQL is the authority: BullMQ may run a job twice, at
once or late, and only the conditions of the updates keep that harmless.

What is hard: every `await` of the handler is a point where another slot, a
crash, a stalled-job check or a failing query may come in; the SMTP server's
acceptance cannot be committed with the row; Redis keys expire while rows do
not; a worker uses a clock reading and a policy it took earlier. The list of
hazards, each at its line, is in `PROJECT.json`.

What makes each component correct:

* processor: at most one acceptance per email, statuses that tell the truth,
  exclusive claims, final outcomes, honest batch verdicts, and an end for every
  email when only SMTP fails;
* reconciliation: rows that are claimable get a job that runs;
* limiter: spacing, quota per hour, one reservation per email, and recovery from
  a loss of Redis by the workers that start after it;
* batch creation: one batch per idempotency key, complete or absent;
* senders: one default sender, which is active, as far as the transactions can
  keep it;
* lead parser: no address twice, none lost, and the preview agrees with what is
  scheduled, as far as the two CSV libraries split the file alike;
* dashboard: paging shows every email that does not move exactly once.

## Modules

| Module | Models |
| --- | --- |
| `DeliveryContract` | what the scheduler promises of an email and a batch, without queue, claim or database |
| `EmailProcessor` | the handler in several slots, the rows, the jobs, the startup reconciliation, the enqueueing of POST /email-batches; implements `DeliveryContract` |
| `MCEmailProcessor` | its instances for TLC |
| `EmailProcessor_proofs` | its invariants, proved |
| `EmailProcessor_refinement` | the proof that it implements `DeliveryContract` |
| `SenderRateLimiter` | one sender's Lua scripts with key expiry, the workers around them, seeding, policy changes |
| `MCSenderRateLimiter` | its instances for TLC |
| `SenderRateLimiter_proofs` | spacing, quota and reservations, proved |
| `SenderRateLimiter_recovery` | what a loss of Redis leaves of the quota, proved |
| `BatchContract` | what POST /email-batches promises to the dialogs, without transaction, lock or connection |
| `BatchCreation` | POST /email-batches of one user with its serializable transaction, and the compose dialogs that repeat it; implements `BatchContract` |
| `BatchCreation_proofs` | its answers, queued rows and active senders, and that it implements `BatchContract`, proved |
| `MCBatchCreation` | its instances for TLC |
| `LeadUpload` | the lead file: ComposeModal's choice and preview, and the loop of parseLeadFile |
| `MCLeadUpload` | its instances for TLC |
| `LeadUpload_proofs` | that the loop loses and repeats nothing, and that the preview agrees with the parser on the files both libraries split alike, proved |
| `SenderDefaults` | a user's senders under overlapping POST, PATCH and sign-in transactions |
| `SenderDefaults_proofs` | that overlapping requests protect the default sender, proved |
| `MCSenderDefaults` | its instances for TLC |
| `Dashboard` | the two paged lists, and the page that walks through them |
| `MCDashboard` | its instance for TLC |
| `Dashboard_proofs` | that paging shows every email that does not move exactly once, proved |

### EmailProcessor

| Code | Model |
| --- | --- |
| `scheduled_emails` row | `row[e]`: `status`, `token` (`processing_token`), `attemptCount`, `due` (`next_attempt_at` has passed) |
| `send_attempts` | `attempt[e][n]`, the outcome of attempt `n` |
| `email_batches.status` | `batch[b]` |
| BullMQ job | `job[e]`: `state`, the slot that `holder`s its lock, `attemptsMade`, stall count |
| one of `WORKER_CONCURRENCY` runs of the handler | `slot[s]`: program counter and locals |
| enqueueEmailBatch in the API | `posting[b]` |
| the walk of reconcileEmailQueue | `page` and `cursor` of the slot that starts |
| what the SMTP server did | the ghost `accepted[e]` |

One action per await: `Load`, `Admit`/`Deny` (rateLimiter.reserve, whose verdict
is free here), `recordRateLimit`, `claimEmail`, `SendAccepted`/`SendRefused`,
`recordAccepted`, `recordFailure`, the three statements of
updateBatchCompletion, and `Finish` for what BullMQ does with the result. A
transaction is one action, since its statements commit together; `Committed`
lets its answer get lost, and `Thrown` says where an error goes: into the
handler's `catch` if it happens inside the `try`, out of the handler otherwise.
The processing token, a fresh UUID in the code, is the number of the attempt,
which is as unique within the email. Not modelled are the texts of errors and
the message, and the exact times: `due` turns true by itself (`BecomeDue`), and
BullMQ may start a delayed job early by the worker's clock.

Reconciliation and enqueueEmailBatch read a page, add its jobs and read on from
the cursor, with everything else in between. `Page` is what Prisma makes of
`cursor` and `skip: 1`: the first matching rows that are not before the cursor
row, less one, whether or not the cursor row is among them.

Each fault is switched on by the constant `Faults`: see its comments.

BullMQ is external. The model keeps what the code relies on: an add with an
existing job ID is a no-op in whatever state the job is, a job is run by the
slot that holds its lock, a stalled job is run again or failed, a throw costs
an attempt, DelayedError does not, UnrecoverableError fails the job. That the
lock of a slot's job is checked at the end of a run only is deliberate: a slot
whose lock was taken away runs on.

### SenderRateLimiter

Time is a small integer, an hour `HourLength` ticks. `count`, `next` and
`reserved` are the three kinds of Redis keys with their expiry; `reserve` and
`seed` are the two scripts, one step each as Redis runs them. A worker reads row,
policy and clock in `Load` and calls the script up to `MaxLag` ticks later, so
hour boundaries and policy changes fall in between. Senders share no key, so one
is enough. `CountAccepted` is the seeding's query: of a sender that is not active
the worker seeds nothing, and goes on to send its emails, as
`worker/rate-seed.ts:10` and the handler do.

Redis runs with an append-only file written once a second (docker-compose.yml),
and its clients reconnect with `maxRetriesPerRequest: null`. A loss of all keys is
therefore one of two actions. `Flush` comes at any time and stops no worker: those
that run reserve on from an empty Redis, their sends in flight are recorded, and
nothing is seeded until a worker starts. `Outage` comes when no worker runs, as
when the host goes down. The loss of some keys only (the last second's writes)
is not modelled.

`admitted` is a ghost that records every admission since the last `Flush`, and by
`kept` whether there was an `Outage` since. So nothing is claimed across a loss
under running workers: there an hour begins anew, and more than its limit may be
recorded SENT. The same holds of the emails of a deactivated sender after any
loss.

### BatchCreation

| Code | Model |
| --- | --- |
| a compose dialog and its `idempotencyKey` ref | `dialog[k]` |
| a running handler of POST /email-batches | `request[r]`: program counter, form, answer, snapshot, rows inserted |
| `email_senders` row | `sender[s]`: `active`, and `version`, which counts its updates |
| `email_batches` row with its `scheduled_emails` | `batch[k]`: the request that wrote it, number of rows, how many were given to the queue |
| row lock, unique index entry of an open transaction | `senderLock`, `keyLock` |

One action per await. A statement of the transaction waits for a lock that
another transaction holds, and `Rollback` frees what its own holds. PostgreSQL
(external) is reduced to three facts the code relies on: a serializable
transaction cannot update a row that was changed since its first statement, a
unique index makes the second insert wait and then fail, and a commit is atomic.
`check` stands for the validation of form, times and file, whose result is a
free choice. A dialog repeats its request with the same key after any error,
also when the connection broke and the first request still runs; `heard` says
that the dialog still waits for this request. A server that dies is, to the
database and the dialog, a failed query and a broken connection.

`BatchContract` sees of a request its key, its form and its `Outcome`, of the
batches all, and of the dialogs which were told of success (`closed`; a dialog
that the user gives up just sends no more). Its `Create` is the commit, whose
answer may be lost, its `Queue` a page that is not the last, and its `Succeed` the
end of the enqueueing.

`enqueueBatch` gives the queue one page a step, of `PageSize` rows, and may fail with
any part of a page queued. What is promised is the first page, or all of fewer
rows: its query has no cursor, so the rows it does not find have been queued and
taken before. Later pages may pass over a row (`ReconciliationRestores` below shows
how), and neither `SuccessQueued` nor `BatchContract` says anything of them.

### LeadUpload

A file is a sequence of lines, a line a sequence of cells, and a cell an address
(a local part and a domain, each in upper or lower case), a heading, another
word or nothing. `selectFile` and `Previewed` are selectFile before and after
its await, so reads of several files overlap; `parseLeadFile`, the three
candidate actions and `Parsed` are the API's parser, one candidate a step.

csv-parse and Papa are external, and a CSV file has one sequence of lines for
each: `atCommas`, since csv-parse splits at commas, and `byPapa`, at the delimiter
that Papa detects. In the instance they differ for files of semicolons. csv-parse
trims and skips lines of blanks (`parseCsv`), Papa keeps those (`PapaParse`). On top
of them each side has definitions of its own, from its own source: `EmailColumn`,
`CellIn`, `Malformed` and `csvCandidates` are the API's, `PreviewColumn`,
`PreviewCell`, `PreviewThrows` and `previewValues` the dialog's.

`PreviewAgrees` speaks of the files that both libraries split alike (`SplitAlike`).
Without either half of that condition TLC finds it violated: of "email;name" the
dialog offers what the API parses as one invalid word, and a line of blanks above
the heading hides it from the dialog alone. IMPLEMENTATION_PLAN.md calls the
backend authoritative, so neither is a finding. Nor is the order of reads: of two
files chosen in a row the first is offered if its read ends last.

Quotes, over which either library may throw, are left out, as are the
upload's size limit and control characters. `Without`
(which drops lines and cells without text) and `Previews` (the preview's loop) are
recursive functions over positions, so that they can be proved about.

### SenderDefaults

| Code | Model |
| --- | --- |
| committed `email_senders` rows of one user | `row[s]` |
| an open transaction | `request[r]`: the statement it is at, its body, and in `own` the rows it has written and locked |
| `updateMany` | `updateMany` fixes the rows it sees, `resetRow` locks and writes them one by one |

PostgreSQL (external) at its default, READ COMMITTED: a statement sees what is
committed when it begins, waits for a row another transaction has written, and
then writes to the newest version; a unique index makes an insert wait and fail.
Any transaction may be rolled back at any time, which stands for deadlocks and
failing queries. The update of `users` makes the sign-ins of a user wait for
each other. Ghosts: `inserted`, and per request whether it ran `alone` and
whether it had read a default sender.

### Dashboard

| Code | Model |
| --- | --- |
| `scheduled_emails` of one user | `row[e]`: the list its status puts it in, and `next_attempt_at` or `updated_at` |
| `scheduledCursors`, `sentCursors` | `cursors[l]`, whose last one is the page shown |
| react-query's data and error per list and cursor | `cache[k]` |
| a request on its way back | `answer[k]` |

`Read` is one query of GET /emails/scheduled or GET /emails/sent. A row is added,
gets another time, or ends at any time, and with any time, since workers stamp it
by clocks of their own. `fetch` reads, `Receive` brings the answer later, maybe
to a page that is no longer shown; `Fail` keeps the old data and hides the
table's buttons. invalidateQueries needs no action, as every key may be fetched
at any time. `shown` and `moved` are ghosts.

## Runs

Symmetry is used in safety runs only. Deadlock is not checked anywhere: a
system whose emails are all settled, or a clock at `MaxTime`, stops.

| Run | Question | Bounds, and why they are enough |
| --- | --- | --- |
| `ProcessorFaults` | at most one acceptance, honest outcomes, exclusive claims, final outcomes and no attempt after an ambiguous one, under every fault but a late close | 1 email (emails share no state but the batch), 2 slots, 2 SMTP attempts, 3 attempt numbers: a denial or a retry, a claim, and a number to spare; 1 stall |
| `ProcessorLiveness` | everything settles without faults, with honest batch verdicts, as a `DeliveryContract` | 2 emails in one batch, both of which can be the last one, 2 slots that start or run already, 2 SMTP attempts, one denial; pages of 3 |
| `LimiterPolicy` | spacing, quota and one reservation per email while the policy is tightened, the sender deactivated, workers crash and Redis is emptied under them | 2 emails, 2 workers, 4 ticks in hours of 2, keys that live 2, so that they expire within the run; two emails fit the first policy and one the second, so that a second admission after the change is one too many; the second policy's delay of 4 is longer than its key lives |
| `BatchRequests` | one complete batch per key, its first page queued before a success is answered, from an active sender, as a `BatchContract` | 3 requests (the one that creates, one at the same time, one later) of 1 dialog, since every property is of one key and another key's requests reach it only through the versions of the senders, which `Patch` moves as well; 2 senders, 2 leads in chunks and pages of 1, or none; 2 updates of a sender: off and on again, or off and the commit's own, between its reading and the commit |
| `LimiterRecovery` | what a loss of Redis leaves of the quota | 3 ticks in hours of 2, so that one begins in the run, keys that live 3, one email an hour, any number of losses of both kinds |
| `LeadFiles` | does the parser lose or repeat a row, and do the preview and the parser agree | every CSV file of up to 3 lines, and text file of up to 2, from 9 lines of one or two cells, which hold each kind of cell and an address in three cases; files of semicolons, and CSV files of 4 lines that exceed `maxLeads` by their heading or by a lead; `invalidDetailLimit` 1, which such files reach; 2 files at a time |
| `SenderRequests` | what requests that overlap may do to the default sender | 2 requests at a time of any kind, 3 senders: two that exist and one that is inserted, 3 addresses |
| `DashboardPages` | is an email that stays where it is met exactly once | 3 emails on pages of one with 2 times, so that times are equal; 1 move, 3 clicks: the walk to the last page and one back; answers of one key at a time on their way |

`AttemptBound`, `MaxTime`, `MaxLag`, `MaxVersion`, `MaxReading`, `MaxMoves` and
`MaxClicks` are model bounds; `Deny` keeps attempt
numbers free for the claims that are still to come, so the bound never blocks a
claim in the liveness runs.

Four runs check what a document says and find it violated; each is a finding in
`PROJECT.json` with the quoted line.

| Run | What happens |
| --- | --- |
| `ProcessorAudit` | a query fails after recordAccepted has committed, and the catch block turns the SMTP_ACCEPTED attempt of a SENT row into DELIVERY_UNKNOWN |
| `ProcessorRestore` | between two pages of the walk another worker takes the email of the cursor row, which then no longer matches; `skip: 1` skips the next claimable row instead, in the API's walk and in the worker's, and nothing queues it before the next restart |
| `BatchRepeat` | a request repeated after its connection broke, while the first still runs, waits for the sender's row, gets P2034 when the first commits, and is answered 500 although its batch exists; a third would be answered with the batch |
| `LimiterRetry` | a retry whose reservation is from the hour before enters a full hour uncounted |

`ReconciliationRestores` fails in a second way when PostgreSQL can fail
(`Faults` with `"database"`): a job that BullMQ retains as failed makes the
reconciliation's add a no-op, so its row stays claimable and unsent.
`EverythingSettles` holds since its pages are longer than the batch; with shorter
ones the skipped row breaks it too.

`AcceptedAtMostOnce` fails with the fault `"lateClose"`: nodemailer reports a
connection that the server closes as ECONNECTION in every phase, so a server that
hangs up after it took the message is classified transient and the email is sent
again. This rests on a library's use of a code and is an assumption of the
theorems, not a run.

What the senders' requests do not guarantee shows in how `SenderDefaults` states
its properties: two POSTs with `isDefault` that overlap, or a sign-in with a new
Google address, leave two default senders; a PATCH that takes `isDefault` or
`isActive` away and read its row before another made it the default leaves none
that is active.

A page of the dashboard whose rows have all moved is empty: the table then says
"No scheduled emails yet", and the Back button is not shown (`TableShown`), so
the user gets to the first page only by a reload, by composing, or when rows
arrive.

More limits of the gate are not runs, but show in what the properties say.
`RecordedWithin` speaks of rows that are recorded SENT, because the seed counts
only those: after a loss of Redis, emails that the server accepted but that are
PROCESSING or DELIVERY_UNKNOWN are missing from the counter. It is stated for
senders that stay active and counts from the last loss under a running worker,
for nothing is seeded otherwise. And `config/env.ts` has no rule that keeps
MAX_SEND_DELAY_MS below RATE_LIMIT_RESERVATION_TTL_MS: a longer delay is forgotten
when its key expires. `Spaced` therefore promises the `Gap`, which is the delay or,
when that is longer, the life of the key less the lateness of a call (`KeyLife`).

### Fairness

`EverythingSettles` assumes weak fairness of a handler's next step and of a
worker's startup (awaits are answered), of the request that created the batch,
of the stalled-job check, and of clocks. `Take` has strong fairness per email,
since BullMQ serves its wait list in order and several emails compete for the
slots. `Admit` has strong fairness: an email that asks again and again is let in
some time, which the limiter's windows and the order of the wait list give.
SMTP may fail every time; then the attempts are used up and the row is FAILED.

## Proofs

All theorems are for any sets of emails, batches and slots, any attempt bounds
and any faults, except where an assumption is named.

* `TypeCorrect`: `TypeInv` adds to `TypeOK` that a slot which runs a job has an
  email. The other proofs rest on it.
* `TerminalCorrect` needs no more than that: every update of a row is conditional
  on a status that is not terminal.
* `ClaimCorrect`: `ClaimInv` speaks of the slots `InClaim`, those in the claimed
  part of the handler, the batch update that recordAccepted awaits inside the
  `try` included: two of them with one email are the same slot, and a claimable
  row has none. `ClaimExclusive` alone is not inductive, because a query that
  fails in that batch update leads back to recordFailure.
* `AcceptCorrect`, `OutcomeCorrect` (if `"lateClose"` is not a fault): `AcceptInv`
  has a part per row (`OutcomeInv`: what each status implies about acceptance)
  and a part per slot (`KnowledgeInv`: what a slot's position and error class
  say about it). Neither is inductive alone, since a slot writes the status from
  what it knows.
* `VerdictCorrect`: `VerdictInv` adds `CountInv`, what a slot's counts still
  guarantee when it writes: terminal rows stay terminal, so a count of 0 stays 0.
* `AuditCorrect`: a slot in its claim holds the number of the latest attempt
  (`TokenInv`), so what it writes reaches no earlier one, and those before the
  latest are rate deferrals and transient failures (`TrailInv`).
* `ContractImplemented` (if `"lateClose"` is not a fault): every step of
  `EmailProcessor` is, under the mapping at its end, a step of
  `DeliveryContract` or a stutter, from the invariants above.
* `SpacedCorrect`, for any delays, losses and lateness of calls: `Covered` says
  that an admission is either remembered by the `next` key or too old to matter,
  by its `Gap`, for any worker that may still ask.
* `QuotaCorrect` (`MaxLag` is no longer than keys live): `Counted` says the same of
  an hour's counter. The property is one of steps: each new reservation finds its
  hour within the limit that its own worker read, so that a roomier policy before
  it excuses nothing.
* `ReservedCorrect`: every new reservation's life that Redis has not lost is within
  the expiry of its email's key, which only grows.
* `BatchCreation_proofs`, for any dialogs, requests, senders and faults:
  `AnswersCorrect`, `QueuedCorrect` and `ActiveCorrect` rest on locks.
  `QueuedCorrect`, which is about the first page, needs `EnqueueInv` as well: a
  request that was answered with success has queued it. `LockInv`: a transaction
  past the statement that took a lock holds it. `OwnerInv`: a batch belongs to one request of its key, and while a request holds a key's lock the
  key has no batch. `VersionInv`: the sender that a transaction read active
  either still is or has a newer version, and the second is excluded once its
  row is locked. TLC agrees that this `IInv` holds in the instance of
  `BatchRequests`.
* `SenderDefaults_proofs`, for any requests, senders and addresses:
  `ChoicesCorrect`, `ProtectedCorrect` and `SerialCorrect`. `CoverInv` carries
  the argument: a request that chooses a default sender has reset, or has still
  to reset, every other sender but those inserted since it began, and keeps
  what it has reset locked until it ends. `LockedInv` says what each kind of
  request holds, `SawInv` what the checks of PATCH have excluded. TLC agrees that
  this `IInv` holds in the instance of `SenderRequests`.
* `BatchContractImplemented`: every step of `BatchCreation` is, under the mapping
  at its end, a step of `BatchContract` or a stutter. `PromiseInv` adds to `IInv`
  that a dialog waits for one request at most and has not been told of success
  (`HeardInv`: otherwise an answer that comes late would reopen a dialog that was
  told), and that a transaction has leads and what is enqueued is a success
  (`StageInv`).
* `RecordedWithinCorrect` (`MaxLag` is no longer than reservations live, and the
  sender stays active): the argument goes over every loss of Redis while no worker
  runs, and begins anew with one under a running worker. `OrderInv`: nothing that Redis remembers
  is older than what it has lost. `HandlerInv`: a worker that sends has a
  reservation behind it. `WindowInv`: for each hour there is a policy whose limit
  covers what the hour has spent (the emails recorded SENT under its new
  reservations and those that Redis still has reserved), and as long as a worker
  may ask in that hour, the counter covers it or is lost, in which case every
  such worker has still to seed it with the SENT rows.
* `Dashboard_proofs`, for finite sets of emails, at least one time and an end of
  the list that is no cursor (`Top # End`): `TypeCorrect`, `NothingSkippedCorrect` and
  `NothingRepeatedCorrect`. Rows are in a strict order (`PrecedesTransitive`), so a
  page holds exactly the rows from its cursor to the next (`PageOfRows`).
  `KeysInv`: whatever is cached or on its way was read by its own key, with every
  row that has not moved since (`WellRead`). `WalkInv`: the cursors of a list are
  in the order of the rows, and what was shown of the rows that have not moved is
  what lies before the page shown. TLC agrees that `PagesInv` holds in the
  instance of `DashboardPages`.
* `LoopCorrect`: after each candidate the leads are the addresses seen so far, each
  once and with its domain in lower case, and every earlier address is among
  them. `DistinctCorrect` (no duplicate) and `CountedCorrect` (every row counted,
  no address lost) follow, for any files, alphabets and limits.
* `PreviewCorrect`, for the files that csv-parse and Papa split alike: the preview
  that the dialog computes by its own reading agrees with the API's parser.
  `ReadersAgree` compares the cells that the two sides choose, for a CSV file
  column by column (`PreviewColumnProperties`, `CsvAgree`) and for a text word by
  word (`TextAgree`); `AgreeInv` runs the two loops beside each other.
  `TypeCorrect`, of any file, needs what a preview counts to be numbers.

The faults of `ProcessorFaults` leave `"lateClose"` out, since at most one
acceptance fails under it; that claims, terminal rows,
verdicts and the audit trail survive it as well is proved, not run.

Induction over data. The library's induction theorems take an operator as a
parameter, which the provers cannot instantiate. `LeadUpload_proofs` states
induction over sets instead (`InductionTo`: a set of positions that holds the first
and with each the next holds all; `RecursionTo` likewise defines a function), which
follow from the library's fact that the strict subset order of finite sets is
well-founded; what the recursive
functions of the parser compute is proved by them for every file.
`Dashboard_proofs` gets the first and the last row of a finite set in the same way.

Only model-checked: liveness (`EverythingSettles`, since fairness and ENABLED are
out of the prover's reach), and the four runs that end in a violation, whose
formulas are false. Every other property of a passing run is a theorem.

## Not modelled, and what could follow

* Sessions and Google sign-in: apart from the senders a sign-in writes, these
  are adapters of one library call each (passport, express-session, a Redis
  GET, SET or EXPIRE), without an order of steps of their own.
* `config/env.ts` is one validation at startup. Its cross rules appear as
  assumptions on constants.
* The HTTP plumbing, logging, the clients of Redis and PostgreSQL, and
  `cli/verify-ethereal.ts` keep no state that a property is about.
* Of the frontend, routing, forms and presentation.
* The SMTP dialogue, which is nodemailer's; the mailer passes one call on.
* A batch whose last open row is swept at a startup, or whose updateBatchCompletion
  fails, stays SCHEDULED for ever; no document promises otherwise, so no
  property says so.

What could follow: an abstract specification of the rate limiter (a list of
admissions by hour and by distance, without keys that expire), and of the lists
of the dashboard.

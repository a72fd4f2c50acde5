--------------------------- MODULE EmailProcessor ---------------------------
(***************************************************************************)
(* The delivery path of the worker: the BullMQ job handler of              *)
(* worker/email-processor.ts, run by several slots at once, with the rows  *)
(* it reads and writes in PostgreSQL, the startup reconciliation of        *)
(* queue/reconcile.ts and the enqueueing that the API does after a batch   *)
(* is created.  Every await of the code is a step of its own, so another   *)
(* slot, a crash or a failing call can come between any two of them.       *)
(*                                                                         *)
(* A processing token is a fresh UUID in the code; here it is the attempt  *)
(* number of the claim, which is as unique within its email (0 is null).   *)
(***************************************************************************)
EXTENDS Naturals, FiniteSets

CONSTANTS
    Email, Batch, BatchOf,  \* the rows of scheduled_emails and their batches
    Slot,                   \* worker processes, each running one job at a time
    NoEmail, NoSlot,        \* null values
    Rank,                   \* the order of the rows' uuids
    PageSize,               \* RECONCILIATION_BATCH_SIZE
    SmtpMaxAttempts,        \* SMTP_MAX_ATTEMPTS, the attempts of a BullMQ job
    MaxStalledCount,        \* BullMQ's maxStalledCount (the code keeps the default)
    AttemptBound,           \* model bound on attempt_count
    Faults                  \* what may go wrong in this instance

FaultKinds ==
    { "crash",      \* a worker process or an API request dies
      "database",   \* a query fails, or commits and its answer is lost
      "stall",      \* BullMQ takes a job from a slot that still runs it
      "lease",      \* PROCESSING_LEASE_MS passes while the claim's slot still runs
      "lateClose",  \* the server takes a message and hangs up before its 250
      "evict",      \* JOB_RETENTION_COUNT drops a finished job
      "flush",      \* Redis loses an unfinished job
      "replay" }    \* the client repeats its POST /email-batches

ASSUME BatchAssumption == BatchOf \in [Email -> Batch]
ASSUME NullAssumption == NoEmail \notin Email /\ NoSlot \notin Slot
ASSUME RankAssumption ==
    Rank \in [Email -> Nat] /\ \A e, f \in Email : Rank[e] = Rank[f] => e = f
ASSUME PageAssumption == PageSize \in Nat \ {0}
ASSUME BoundAssumption ==
    SmtpMaxAttempts \in Nat \ {0} /\ MaxStalledCount \in Nat /\ AttemptBound \in Nat \ {0}
ASSUME FaultAssumption == Faults \subseteq FaultKinds

VARIABLES
    row,        \* scheduled_emails: status, processing_token, attempt_count, next_attempt_at <= now
    attempt,    \* send_attempts: the outcome of each attempt number of each email
    batch,      \* email_batches: status
    job,        \* BullMQ: the job with the email's deterministic ID
    slot,       \* the local state of each worker slot
    posting,    \* the enqueueing part of POST /email-batches, per batch
    accepted    \* ghost: how often the SMTP server accepted the email

vars == <<row, attempt, batch, job, slot, posting, accepted>>

Claimable == {"SCHEDULED", "RATE_LIMITED", "RETRYABLE"}
Unsuccessful == {"FAILED", "DELIVERY_UNKNOWN", "CANCELLED"}
terminalStatuses == {"SENT"} \cup Unsuccessful
Status == Claimable \cup {"PROCESSING"} \cup terminalStatuses
Outcome == { "none", "CLAIMED", "RATE_LIMITED", "SMTP_ACCEPTED", "DEFINITE_FAILURE",
             "TRANSIENT_FAILURE", "DELIVERY_UNKNOWN" }

CompletionPc == {"countRemaining", "countUnsuccessful", "updateBatch"}
SettledPc == {"complete", "unrecoverable", "error", "delay"}
StartupPc == {"stopped", "readPage", "addPage"}
QueryPc == {"load", "reserve", "rateLimit", "claim", "recordAccepted", "recordFailure"}
               \cup CompletionPc
\* The code runs between claimEmail and the end of the handler.
ClaimedPc == {"send", "recordAccepted", "recordFailure"}

Row == [status : Status, token : 0..AttemptBound, attemptCount : 0..AttemptBound, due : BOOLEAN]
JobState == {"absent", "queued", "active", "completed", "failed"}
Job == [state : JobState, holder : Slot \cup {NoSlot}, made : Nat, stalled : Nat]
Local == [ pc : {"idle", "send"} \cup QueryPc \cup SettledPc \cup StartupPc,
           email : Email \cup {NoEmail}, token : 0..AttemptBound, made : Nat,
           failure : {"none", "permanent", "transient", "unknown"},
           unsuccessful : BOOLEAN, page : SUBSET Email, cursor : Email \cup {NoEmail} ]
Posting == [ pc : {"read", "add", "answered"}, page : SUBSET Email,
             cursor : Email \cup {NoEmail} ]

TypeOK ==
    /\ row \in [Email -> Row]
    /\ attempt \in [Email -> [1..AttemptBound -> Outcome]]
    /\ batch \in [Batch -> {"SCHEDULED", "COMPLETED", "PARTIALLY_FAILED"}]
    /\ job \in [Email -> Job]
    /\ slot \in [Slot -> Local]
    /\ posting \in [Batch -> Posting]
    /\ accepted \in [Email -> Nat]

InBatch(b) == {e \in Email : BatchOf[e] = b}
ClaimableRows(S) == {e \in S : row[e].status \in Claimable}

FreshLocal(pc) == [ pc |-> pc, email |-> NoEmail, token |-> 0, made |-> 0, failure |-> "none",
                    unsuccessful |-> FALSE, page |-> {}, cursor |-> NoEmail ]
FreshPosting(pc) == [pc |-> pc, page |-> {}, cursor |-> NoEmail]
AbsentJob == [state |-> "absent", holder |-> NoSlot, made |-> 0, stalled |-> 0]

\* createEmailBatch has committed and nothing is queued; a worker is to be
\* started, or has been running with nothing to do.
Init ==
    /\ row \in [Email -> [status : {"SCHEDULED"}, token : {0}, attemptCount : {0}, due : BOOLEAN]]
    /\ attempt = [e \in Email |-> [n \in 1..AttemptBound |-> "none"]]
    /\ batch = [b \in Batch |-> "SCHEDULED"]
    /\ job = [e \in Email |-> AbsentJob]
    /\ slot \in [Slot -> {FreshLocal("stopped"), FreshLocal("idle")}]
    /\ posting = [b \in Batch |-> FreshPosting("read")]
    /\ accepted = [e \in Email |-> 0]

-----------------------------------------------------------------------------
(* BullMQ and time *)

\* addBulk: a job ID that exists, in whatever state, makes the add a no-op.
AddBulk(S) ==
    job' = [e \in Email |->
              IF e \in S /\ job[e].state = "absent"
              THEN [AbsentJob EXCEPT !.state = "queued"] ELSE job[e]]

\* "queued" is BullMQ's wait list and delayed set: a slot takes a job when its
\* delay has passed on Redis's clock, whatever the clock of the worker says.
Take(s, e) ==
    /\ slot[s].pc = "idle"
    /\ job[e].state = "queued"
    /\ job' = [job EXCEPT ![e] = [@ EXCEPT !.state = "active", !.holder = s]]
    /\ slot' = [slot EXCEPT ![s] =
                  [FreshLocal("load") EXCEPT !.email = e, !.made = job[e].made]]
    /\ UNCHANGED <<row, attempt, batch, posting, accepted>>

\* The stalled-job check: the lock of an active job was not renewed in time,
\* because its slot died or, with "stall", although the slot still runs.
Stall(e) ==
    /\ job[e].state = "active"
    /\ "stall" \in Faults \/ slot[job[e].holder].email # e
    /\ job' = [job EXCEPT ![e] =
                 [job[e] EXCEPT !.state = IF job[e].stalled < MaxStalledCount THEN "queued" ELSE "failed",
                                !.holder = NoSlot, !.stalled = @ + 1]]
    /\ UNCHANGED <<row, attempt, batch, slot, posting, accepted>>

DropJob(e) ==
    /\ \/ job[e].state \in {"completed", "failed"} /\ "evict" \in Faults
       \/ job[e].state \in {"queued", "active"} /\ "flush" \in Faults
    /\ job' = [job EXCEPT ![e] = AbsentJob]
    /\ UNCHANGED <<row, attempt, batch, slot, posting, accepted>>

\* The clock passes next_attempt_at.
BecomeDue(e) ==
    /\ ~row[e].due
    /\ row' = [row EXCEPT ![e] = [@ EXCEPT !.due = TRUE]]
    /\ UNCHANGED <<attempt, batch, job, slot, posting, accepted>>

\* What is left of a job when the handler returns or throws.  Without the lock
\* BullMQ refuses the move and the job stays as another slot left it.
AfterRun(s, j) ==
    CASE slot[s].pc = "complete"      -> [j EXCEPT !.state = "completed", !.holder = NoSlot]
      [] slot[s].pc = "unrecoverable" -> [j EXCEPT !.state = "failed", !.holder = NoSlot]
      [] slot[s].pc = "delay"         -> [j EXCEPT !.state = "queued", !.holder = NoSlot]
      [] OTHER -> [j EXCEPT !.state = IF slot[s].made + 1 < SmtpMaxAttempts THEN "queued" ELSE "failed",
                            !.holder = NoSlot, !.made = slot[s].made + 1]

Finish(s) ==
    /\ slot[s].pc \in SettledPc
    /\ job' = IF job[slot[s].email].holder = s
              THEN [job EXCEPT ![slot[s].email] = AfterRun(s, @)] ELSE job
    /\ slot' = [slot EXCEPT ![s] = FreshLocal("idle")]
    /\ UNCHANGED <<row, attempt, batch, posting, accepted>>

-----------------------------------------------------------------------------
(* Awaits, and what a rejected one does to the handler *)

\* The catch block wraps the send, recordAccepted and the batch update that
\* recordAccepted awaits: any other error leaves the handler as it is.
Caught(s) ==
    \/ slot[s].pc = "recordAccepted"
    \/ slot[s].pc \in CompletionPc /\ slot[s].failure = "none"

\* Mutant: a database error counts as transient.
ThrownTransient(s) ==
    IF Caught(s) THEN [slot[s] EXCEPT !.pc = "recordFailure", !.failure = "transient"]
                 ELSE [slot[s] EXCEPT !.pc = "error"]

\* A database error is no SMTP error, so classifyDeliveryError says "unknown".
Thrown(s) ==
    IF Caught(s) THEN [slot[s] EXCEPT !.pc = "recordFailure", !.failure = "unknown"]
                 ELSE [slot[s] EXCEPT !.pc = "error"]

\* A committed transaction: its answer arrives, or is lost.
Committed(s, next) ==
    \E l \in {next} \cup (IF "database" \in Faults THEN {Thrown(s)} ELSE {}) :
        slot' = [slot EXCEPT ![s] = l]

Proceed(s, pc) == slot' = [slot EXCEPT ![s] = [@ EXCEPT !.pc = pc]]

\* A query that fails without effect.
QueryFails(s) ==
    /\ "database" \in Faults
    /\ slot[s].pc \in QueryPc
    /\ slot' = [slot EXCEPT ![s] = Thrown(s)]
    /\ UNCHANGED <<row, attempt, batch, job, posting, accepted>>

-----------------------------------------------------------------------------
(* The handler, up to the claim *)

\* Mutant: an early job is dropped instead of delayed.
LoadDropping(s) ==
    /\ slot[s].pc = "load"
    /\ Proceed(s, IF row[slot[s].email].status \in Claimable /\ row[slot[s].email].due
                  THEN "reserve" ELSE "complete")
    /\ UNCHANGED <<row, attempt, batch, job, posting, accepted>>

Load(s) ==
    /\ slot[s].pc = "load"
    /\ LET r == row[slot[s].email] IN
         Proceed(s, IF r.status \in terminalStatuses \cup {"PROCESSING"} THEN "complete"
                    ELSE IF ~r.due THEN "delay" ELSE "reserve")
    /\ UNCHANGED <<row, attempt, batch, job, posting, accepted>>

\* rateLimiter.reserve, whose verdict SenderRateLimiter models.
Admit(s) ==
    /\ slot[s].pc = "reserve"
    /\ Proceed(s, "claim")
    /\ UNCHANGED <<row, attempt, batch, job, posting, accepted>>

\* Bound: room is left for the claims that are still to come.
Deny(s) ==
    /\ slot[s].pc = "reserve"
    /\ row[slot[s].email].attemptCount + SmtpMaxAttempts < AttemptBound
    /\ Proceed(s, "rateLimit")
    /\ UNCHANGED <<row, attempt, batch, job, posting, accepted>>

\* Both transactions that number a new attempt.
Attempted(e, r, outcome) ==
    /\ row' = [row EXCEPT ![e] = [r EXCEPT !.attemptCount = @ + 1]]
    /\ attempt' = [attempt EXCEPT ![e] = [@ EXCEPT ![row[e].attemptCount + 1] = outcome]]

recordRateLimit(s) ==
    /\ slot[s].pc = "rateLimit"
    /\ LET e == slot[s].email
           r == row[e] IN
         IF r.status \in Claimable
         THEN /\ r.attemptCount < AttemptBound
              /\ Attempted(e, [r EXCEPT !.status = "RATE_LIMITED", !.due = FALSE], "RATE_LIMITED")
         ELSE UNCHANGED <<row, attempt>>
    /\ Committed(s, [slot[s] EXCEPT !.pc = "delay"])
    /\ UNCHANGED <<batch, job, posting, accepted>>

\* Mutants: one half of the condition is missing.
ClaimGuardByToken(r) == r.token = 0
ClaimGuardNonterminal(r) == r.status \notin terminalStatuses

ClaimGuard(r) == r.token = 0 /\ r.status \in Claimable

claimEmail(s) ==
    /\ slot[s].pc = "claim"
    /\ LET e == slot[s].email
           r == row[e]
           n == r.attemptCount + 1 IN
         IF ClaimGuard(r)
         THEN /\ n <= AttemptBound
              /\ Attempted(e, [r EXCEPT !.status = "PROCESSING", !.token = n], "CLAIMED")
              /\ Committed(s, [slot[s] EXCEPT !.pc = "send", !.token = n])
         ELSE /\ Committed(s, [slot[s] EXCEPT !.pc = "complete"])
              /\ UNCHANGED <<row, attempt>>
    /\ UNCHANGED <<batch, job, posting, accepted>>

-----------------------------------------------------------------------------
(* The send and its outcome *)

\* classifyDeliveryError.  "permanent" and "transient" are meant for errors from
\* before the server took the message; of an "unknown" one nothing is known.  A
\* connection closed by the server is ECONNECTION, hence "transient", in every
\* phase of the dialogue, the wait for the answer to the message included.
Classified(s, failure) ==
    slot' = [slot EXCEPT ![s] = [@ EXCEPT !.pc = "recordFailure", !.failure = failure]]

SendAccepted(s) ==
    /\ slot[s].pc = "send"
    /\ accepted' = [accepted EXCEPT ![slot[s].email] = @ + 1]
    /\ \/ Proceed(s, "recordAccepted")
       \/ Classified(s, "unknown")
       \/ "lateClose" \in Faults /\ Classified(s, "transient")
    /\ UNCHANGED <<row, attempt, batch, job, posting>>

SendRefused(s) ==
    /\ slot[s].pc = "send"
    /\ \E failure \in {"permanent", "transient", "unknown"} : Classified(s, failure)
    /\ UNCHANGED <<row, attempt, batch, job, posting, accepted>>

\* Mutant: the outcome's updateMany forgets status and token.
OwnsClaimAlways(s) == slot[s].email \in Email

OwnsClaim(s) ==
    LET r == row[slot[s].email] IN r.status = "PROCESSING" /\ r.token = slot[s].token

\* Mutant: the attempt is counted once more when it ends.
OutcomesCounted(s, status, due, outcome) ==
    /\ row' = IF OwnsClaim(s)
              THEN [row EXCEPT ![slot[s].email] =
                      [@ EXCEPT !.status = status, !.token = 0, !.due = due, !.attemptCount = @ + 1]]
              ELSE row
    /\ attempt' = [attempt EXCEPT ![slot[s].email] = [@ EXCEPT ![slot[s].token] = outcome]]

Outcomes(s, status, due, outcome) ==
    /\ row' = IF OwnsClaim(s)
              THEN [row EXCEPT ![slot[s].email] =
                      [@ EXCEPT !.status = status, !.token = 0, !.due = due]]
              ELSE row
    /\ attempt' = [attempt EXCEPT ![slot[s].email] = [@ EXCEPT ![slot[s].token] = outcome]]

recordAccepted(s) ==
    /\ slot[s].pc = "recordAccepted"
    /\ IF OwnsClaim(s)
       THEN /\ Outcomes(s, "SENT", TRUE, "SMTP_ACCEPTED")
            /\ Committed(s, [slot[s] EXCEPT !.pc = "countRemaining"])
       ELSE /\ slot' = [slot EXCEPT ![s] = Thrown(s)]
            /\ UNCHANGED <<row, attempt>>
    /\ UNCHANGED <<batch, job, posting, accepted>>

\* Mutant: off by one.
finalRetryLate(s) == slot[s].made >= SmtpMaxAttempts

finalRetry(s) == slot[s].made + 1 >= SmtpMaxAttempts

recordFailure(s) ==
    /\ slot[s].pc = "recordFailure"
    /\ \/ /\ slot[s].failure = "transient" /\ ~finalRetry(s)
          /\ Outcomes(s, "RETRYABLE", FALSE, "TRANSIENT_FAILURE")
          /\ Proceed(s, "error")
       \/ /\ slot[s].failure = "unknown"
          /\ Outcomes(s, "DELIVERY_UNKNOWN", TRUE, "DELIVERY_UNKNOWN")
          /\ Committed(s, [slot[s] EXCEPT !.pc = "countRemaining"])
       \/ /\ \/ slot[s].failure = "permanent"
             \/ slot[s].failure = "transient" /\ finalRetry(s)
          /\ Outcomes(s, "FAILED", TRUE, "DEFINITE_FAILURE")
          /\ Committed(s, [slot[s] EXCEPT !.pc = "countRemaining"])
    /\ UNCHANGED <<batch, job, posting, accepted>>

-----------------------------------------------------------------------------
(* updateBatchCompletion: two counts and an update, not in a transaction *)

BatchRows(s) == InBatch(BatchOf[slot[s].email])

\* recordAccepted ends the handler; recordFailure ends in UnrecoverableError.
AfterCompletion(s) == IF slot[s].failure = "none" THEN "complete" ELSE "unrecoverable"

\* Mutant: an email that is being sent is not counted as remaining.
countRemainingClaimable(s) ==
    /\ slot[s].pc = "countRemaining"
    /\ Proceed(s, IF \E e \in BatchRows(s) : row[e].status \in Claimable
                  THEN AfterCompletion(s) ELSE "countUnsuccessful")
    /\ UNCHANGED <<row, attempt, batch, job, posting, accepted>>

countRemaining(s) ==
    /\ slot[s].pc = "countRemaining"
    /\ Proceed(s, IF \E e \in BatchRows(s) : row[e].status \in Claimable \cup {"PROCESSING"}
                  THEN AfterCompletion(s) ELSE "countUnsuccessful")
    /\ UNCHANGED <<row, attempt, batch, job, posting, accepted>>

\* Mutant: an unknown delivery does not spoil the batch.
countFailed(s) ==
    /\ slot[s].pc = "countUnsuccessful"
    /\ slot' = [slot EXCEPT ![s] = [@ EXCEPT !.pc = "updateBatch",
                  !.unsuccessful = \E e \in BatchRows(s) : row[e].status = "FAILED"]]
    /\ UNCHANGED <<row, attempt, batch, job, posting, accepted>>

countUnsuccessful(s) ==
    /\ slot[s].pc = "countUnsuccessful"
    /\ slot' = [slot EXCEPT ![s] = [@ EXCEPT !.pc = "updateBatch",
                  !.unsuccessful = \E e \in BatchRows(s) : row[e].status \in Unsuccessful]]
    /\ UNCHANGED <<row, attempt, batch, job, posting, accepted>>

updateBatch(s) ==
    /\ slot[s].pc = "updateBatch"
    /\ batch' = [batch EXCEPT ![BatchOf[slot[s].email]] =
                   IF slot[s].unsuccessful THEN "PARTIALLY_FAILED" ELSE "COMPLETED"]
    /\ Committed(s, [slot[s] EXCEPT !.pc = AfterCompletion(s)])
    /\ UNCHANGED <<row, attempt, job, posting, accepted>>

-----------------------------------------------------------------------------
(* The pages that reconcileEmailQueue and enqueueEmailBatch walk through *)

\* Prisma's cursor with skip 1: of the matching rows from the cursor's row on,
\* the first is left out, whichever row that is by now.
Page(S, cursor) ==
    LET M == {e \in ClaimableRows(S) : cursor = NoEmail \/ Rank[cursor] <= Rank[e]}
        skip == IF cursor = NoEmail THEN 0 ELSE 1
    IN  {e \in M : Cardinality({f \in M : Rank[f] < Rank[e]}) \in skip..(skip + PageSize - 1)}

\* The last row of a full page, from which the next query goes on.
NextCursor(page) ==
    {e \in page : Cardinality(page) = PageSize /\ \A f \in page : Rank[f] <= Rank[e]}

-----------------------------------------------------------------------------
(* Worker startup: reconcileEmailQueue *)

Holding(s, e) == slot[s].pc \in ClaimedPc /\ slot[s].email = e

\* Rows whose lease may be over when a worker starts.
Stale == { e \in Email : /\ row[e].status = "PROCESSING"
                         /\ "lease" \in Faults \/ \A s \in Slot : ~Holding(s, e) }

\* Mutant: stale rows are made ready for another attempt.
StartRetrying(s) ==
    /\ slot[s].pc = "stopped"
    /\ row' = [e \in Email |->
                 IF e \in Stale THEN [row[e] EXCEPT !.status = "RETRYABLE", !.token = 0] ELSE row[e]]
    /\ Proceed(s, "readPage")
    /\ UNCHANGED <<attempt, batch, job, posting, accepted>>

Start(s) ==
    /\ slot[s].pc = "stopped"
    /\ \E S \in SUBSET Stale :
         row' = [e \in Email |->
                   IF e \in S THEN [row[e] EXCEPT !.status = "DELIVERY_UNKNOWN", !.token = 0]
                              ELSE row[e]]
    /\ Proceed(s, "readPage")
    /\ UNCHANGED <<attempt, batch, job, posting, accepted>>

ReadPage(s) ==
    /\ slot[s].pc = "readPage"
    /\ slot' = [slot EXCEPT ![s] = [@ EXCEPT !.pc = "addPage", !.page = Page(Email, slot[s].cursor)]]
    /\ UNCHANGED <<row, attempt, batch, job, posting, accepted>>

AddPage(s) ==
    /\ slot[s].pc = "addPage"
    /\ AddBulk(slot[s].page)
    /\ \/ /\ NextCursor(slot[s].page) = {}
          /\ slot' = [slot EXCEPT ![s] = FreshLocal("idle")]
       \/ \E e \in NextCursor(slot[s].page) :
             slot' = [slot EXCEPT ![s] = [FreshLocal("readPage") EXCEPT !.cursor = e]]
    /\ UNCHANGED <<row, attempt, batch, posting, accepted>>

\* The process dies; a restart begins at Start.
Crash(s) ==
    /\ "crash" \in Faults
    /\ slot[s].pc # "stopped"
    /\ slot' = [slot EXCEPT ![s] = FreshLocal("stopped")]
    /\ UNCHANGED <<row, attempt, batch, job, posting, accepted>>

-----------------------------------------------------------------------------
(* POST /email-batches after createEmailBatch: enqueueEmailBatch *)

ReadBatch(b) ==
    /\ posting[b].pc = "read"
    /\ posting' = [posting EXCEPT ![b] = [@ EXCEPT !.pc = "add", !.page = Page(InBatch(b), posting[b].cursor)]]
    /\ UNCHANGED <<row, attempt, batch, job, slot, accepted>>

AddBatch(b) ==
    /\ posting[b].pc = "add"
    /\ AddBulk(posting[b].page)
    /\ \/ /\ NextCursor(posting[b].page) = {}
          /\ posting' = [posting EXCEPT ![b] = FreshPosting("answered")]
       \/ \E e \in NextCursor(posting[b].page) :
             posting' = [posting EXCEPT ![b] = [FreshPosting("read") EXCEPT !.cursor = e]]
    /\ UNCHANGED <<row, attempt, batch, slot, accepted>>

\* The API dies, or answers 503 because Redis or PostgreSQL failed.
FailPost(b) ==
    /\ "crash" \in Faults
    /\ posting[b].pc # "answered"
    /\ posting' = [posting EXCEPT ![b] = FreshPosting("answered")]
    /\ UNCHANGED <<row, attempt, batch, job, slot, accepted>>

\* The same idempotency key again: the existing batch is enqueued again.
Replay(b) ==
    /\ "replay" \in Faults
    /\ posting[b].pc = "answered"
    /\ posting' = [posting EXCEPT ![b] = FreshPosting("read")]
    /\ UNCHANGED <<row, attempt, batch, job, slot, accepted>>

-----------------------------------------------------------------------------
(* The specification *)

Handler(s) ==
    \/ Load(s)
    \/ Admit(s)
    \/ Deny(s)
    \/ recordRateLimit(s)
    \/ claimEmail(s)
    \/ SendAccepted(s)
    \/ SendRefused(s)
    \/ recordAccepted(s)
    \/ recordFailure(s)
    \/ countRemaining(s)
    \/ countUnsuccessful(s)
    \/ updateBatch(s)
    \/ Finish(s)

Startup(s) == Start(s) \/ ReadPage(s) \/ AddPage(s)
Post(b) == ReadBatch(b) \/ AddBatch(b)

Next ==
    \/ \E s \in Slot : \/ Handler(s)
                       \/ Startup(s)
                       \/ QueryFails(s)
                       \/ Crash(s)
    \/ \E s \in Slot, e \in Email : Take(s, e)
    \/ \E e \in Email : Stall(e) \/ DropJob(e) \/ BecomeDue(e)
    \/ \E b \in Batch : Post(b) \/ FailPost(b) \/ Replay(b)

Spec == Init /\ [][Next]_vars

\* Awaits are answered, workers start, the request that created the batch is
\* served and clocks advance (weak fairness).  BullMQ serves its wait list in
\* order, and the limiter lets in an email that keeps asking (strong fairness).
Fairness ==
    /\ \A s \in Slot : /\ WF_vars(Handler(s))
                       /\ WF_vars(Startup(s))
                       /\ SF_vars(Admit(s))
    /\ \A e \in Email : /\ SF_vars(\E s \in Slot : Take(s, e))
                        /\ WF_vars(BecomeDue(e))
                        /\ WF_vars(Stall(e))
    /\ \A b \in Batch : WF_vars(Post(b))

FairSpec == Spec /\ Fairness

-----------------------------------------------------------------------------
(* Properties *)

\* However slots, crashes, stalled jobs, lost answers and restarts interleave, an
\* email is accepted by the SMTP server at most once (claimEmail's condition,
\* classifyDeliveryError and the stale sweep together).
AcceptedAtMostOnce == \A e \in Email : accepted[e] <= 1

\* A row says SENT only of an email the server accepted, and FAILED, or that it
\* may be claimed again, only of one the server never accepted.
OutcomeHonest ==
    \A e \in Email :
        /\ row[e].status = "SENT" => accepted[e] = 1
        /\ row[e].status \in Claimable \cup {"FAILED"} => accepted[e] = 0

\* Two slots never run the claimed part of the handler for the same email, and
\* a row that can be claimed is in nobody's hands.
ClaimExclusive ==
    \A e \in Email :
        /\ \A s, t \in Slot : Holding(s, e) /\ Holding(t, e) => s = t
        /\ row[e].status \in Claimable => \A s \in Slot : ~Holding(s, e)

\* The audit trail: only attempts that certainly left the email unsent (a rate
\* deferral, a transient failure) are followed by another attempt, so an
\* ambiguous or an open one is the last of its email.
AmbiguousNeverRetried ==
    \A e \in Email : \A n \in 1..AttemptBound :
        n < row[e].attemptCount => attempt[e][n] \in {"RATE_LIMITED", "TRANSIENT_FAILURE"}

\* updateBatchCompletion reads two counts while other slots write: a batch is
\* COMPLETED only when all its emails are SENT, and PARTIALLY_FAILED only when
\* all are terminal and some are not SENT.
VerdictHonest ==
    \A b \in Batch :
        /\ batch[b] = "COMPLETED" => \A e \in InBatch(b) : row[e].status = "SENT"
        /\ batch[b] = "PARTIALLY_FAILED" =>
               /\ \A e \in InBatch(b) : row[e].status \in terminalStatuses
               /\ \E e \in InBatch(b) : row[e].status # "SENT"

\* No step of a slot, late or repeated, changes the status of a terminal row.
TerminalIsFinal ==
    [][\A e \in Email : row[e].status \in terminalStatuses => row'[e].status = row[e].status]_vars

\* Every email that was scheduled ends in a terminal status, and its batch with
\* a verdict, when nothing fails but SMTP.
EverythingSettles ==
    <>[](/\ \A e \in Email : row[e].status \in terminalStatuses
         /\ \A b \in Batch : batch[b] # "SCHEDULED")

\* Meant for the audit trail: a SENT row has its SMTP_ACCEPTED attempt.
SentIsAudited ==
    \A e \in Email : row[e].status = "SENT" =>
        \E n \in 1..AttemptBound : attempt[e][n] = "SMTP_ACCEPTED"

\* Meant for the startup reconciliation: when it has added its last page, and no
\* request is still enqueueing, every claimable row has a job that will run.
ReconciliationRestores ==
    [][\A s \in Slot : slot[s].pc = "addPage" /\ slot'[s].pc = "idle" =>
         \A e \in Email :
            row[e].status \in Claimable /\ posting[BatchOf[e]].pc = "answered" =>
                job'[e].state \in {"queued", "active"}]_vars

-----------------------------------------------------------------------------
(* The contract this module implements *)

Delivery(status) ==
    CASE status \in Claimable    -> "pending"
      [] status = "PROCESSING"   -> "sending"
      [] status = "SENT"         -> "sent"
      [] status = "FAILED"       -> "failed"
      [] OTHER                   -> "unknown"

Verdict(status) ==
    CASE status = "COMPLETED"        -> "completed"
      [] status = "PARTIALLY_FAILED" -> "partial"
      [] OTHER                       -> "open"

Contract == INSTANCE DeliveryContract WITH
    delivery <- [e \in Email |-> Delivery(row[e].status)],
    verdict <- [b \in Batch |-> Verdict(batch[b])]

\* EmailProcessor implements DeliveryContract: whatever happens, what rows and
\* batches report is what the contract allows.
ImplementsContract == Contract!Spec
=============================================================================

---------------------------- MODULE BatchCreation ----------------------------
(***************************************************************************)
(* POST /email-batches of one user: the requests of email/router.ts, the   *)
(* serializable transaction of email/scheduling-service.ts, and the        *)
(* compose dialogs of the frontend, which keep their idempotency key while *)
(* they repeat a request.  PostgreSQL (external) is reduced to row locks,  *)
(* snapshots, the unique index on the key, and what it does when they      *)
(* collide.  What a page of the queueing finds is any number of rows here, *)
(* as far as the page order leaves it open; EmailProcessor has its parts.  *)
(***************************************************************************)
EXTENDS Naturals

CONSTANTS
    Key,            \* idempotency keys, one for each compose dialog
    Request, Sender,
    Content,        \* what a form may hold: a sender and a number of leads
    ChunkSize,      \* insertionChunkSize
    PageSize,       \* RECONCILIATION_BATCH_SIZE
    NoRequest, NoContent,
    MaxVersion,     \* model bound on the updates of a sender
    Faults          \* subset of {"database", "queue", "network"}

ASSUME ContentAssumption == Content \subseteq [sender : Sender, leads : Nat]
ASSUME NullAssumption == NoRequest \notin Request /\ NoContent \notin Content
ASSUME BoundAssumption == ChunkSize \in Nat \ {0} /\ PageSize \in Nat \ {0} /\ MaxVersion \in Nat

VARIABLES
    dialog,     \* the compose dialog that owns a key
    request,    \* each request at the API
    sender,     \* email_senders: is_active, and how often the row was updated
    senderLock, \* the transaction that has updated a sender row
    keyLock,    \* the transaction that has inserted a batch with a key
    batch       \* email_batches by key, with the number of its scheduled_emails and
                \* of those that were given to the queue

vars == <<dialog, request, sender, senderLock, keyLock, batch>>

Success == {"created", "replayed"}
Failure == {"rejected", "senderNotFound", "queueUnavailable", "internalError"}
Locking == {"insert", "rows", "commit"}
QueryPc == {"find", "findAgain", "begin", "update", "raced"} \cup Locking
Running == {r \in Request : request[r].pc \in Locking}

NoBatch == [by |-> NoRequest, rows |-> 0, queued |-> 0]
Exists(k) == batch[k].by # NoRequest

TypeOK ==
    /\ dialog \in [Key -> {"open", "pending", "closed"}]
    /\ request \in [Request -> [ pc : {"unsent", "check", "enqueue", "answered"} \cup QueryPc,
                                 key : Key \cup {NoRequest}, content : Content \cup {NoContent},
                                 answer : {"none"} \cup Success \cup Failure,
                                 version : 0..MaxVersion, rows : Nat, heard : BOOLEAN ]]
    /\ sender \in [Sender -> [active : BOOLEAN, version : 0..MaxVersion]]
    /\ senderLock \in [Sender -> Running \cup {NoRequest}]
    /\ keyLock \in [Key -> Running \cup {NoRequest}]
    /\ batch \in [Key -> [by : Request \cup {NoRequest}, rows : Nat, queued : Nat]]

Init ==
    /\ dialog = [k \in Key |-> "open"]
    /\ request = [r \in Request |->
                    [ pc |-> "unsent", key |-> NoRequest, content |-> NoContent, answer |-> "none",
                      version |-> 0, rows |-> 0, heard |-> FALSE ]]
    /\ sender = [s \in Sender |-> [active |-> TRUE, version |-> 0]]
    /\ senderLock = [s \in Sender |-> NoRequest]
    /\ keyLock = [k \in Key |-> NoRequest]
    /\ batch = [k \in Key |-> NoBatch]

-----------------------------------------------------------------------------
(* The compose dialog *)

\* The key is made when the dialog opens; after an error the form can be edited
\* and is sent again with the same key.  A dialog that is given up sends no more.
submit(k, r, c) ==
    /\ dialog[k] = "open"
    /\ request[r].pc = "unsent"
    /\ dialog' = [dialog EXCEPT ![k] = "pending"]
    /\ request' = [request EXCEPT ![r] = [@ EXCEPT !.pc = "find", !.key = k, !.content = c, !.heard = TRUE]]
    /\ UNCHANGED <<sender, senderLock, keyLock, batch>>

\* Mutant: the dialog takes any answer for a success.
HearAny(r) ==
    /\ request[r].pc = "answered" /\ request[r].heard
    /\ dialog' = [dialog EXCEPT ![request[r].key] = "closed"]
    /\ request' = [request EXCEPT ![r] = [@ EXCEPT !.heard = FALSE]]
    /\ UNCHANGED <<sender, senderLock, keyLock, batch>>

Hear(r) ==
    /\ request[r].pc = "answered" /\ request[r].heard
    /\ dialog' = [dialog EXCEPT ![request[r].key] =
                    IF request[r].answer \in Success THEN "closed" ELSE "open"]
    /\ request' = [request EXCEPT ![r] = [@ EXCEPT !.heard = FALSE]]
    /\ UNCHANGED <<sender, senderLock, keyLock, batch>>

\* The connection breaks: the dialog shows an error while the request goes on.
LoseConnection(r) ==
    /\ "network" \in Faults
    /\ request[r].heard
    /\ dialog' = [dialog EXCEPT ![request[r].key] = "open"]
    /\ request' = [request EXCEPT ![r] = [@ EXCEPT !.heard = FALSE]]
    /\ UNCHANGED <<sender, senderLock, keyLock, batch>>

-----------------------------------------------------------------------------
(* The request, outside the transaction *)

Moved(r, pc) == [request EXCEPT ![r] = [@ EXCEPT !.pc = pc]]
Answered(r, answer) == [request EXCEPT ![r] = [@ EXCEPT !.pc = "answered", !.answer = answer]]
\* What the answer will be if the enqueueing succeeds.
Enqueueing(r, answer) == [request EXCEPT ![r] = [@ EXCEPT !.pc = "enqueue", !.answer = answer]]

\* Mutant: the sender's row stays locked.
RollbackLocked(r) ==
    /\ keyLock' = [k \in Key |-> IF keyLock[k] = r THEN NoRequest ELSE keyLock[k]]
    /\ UNCHANGED <<dialog, sender, senderLock, batch>>

\* The transaction of the request, if it has one, leaves nothing behind.
Rollback(r) ==
    /\ senderLock' = [s \in Sender |-> IF senderLock[s] = r THEN NoRequest ELSE senderLock[s]]
    /\ keyLock' = [k \in Key |-> IF keyLock[k] = r THEN NoRequest ELSE keyLock[k]]
    /\ UNCHANGED <<dialog, sender, batch>>

find(r) ==
    /\ request[r].pc = "find"
    /\ request' = IF Exists(request[r].key) THEN Enqueueing(r, "replayed") ELSE Moved(r, "check")
    /\ UNCHANGED <<dialog, sender, senderLock, keyLock, batch>>

\* The body, the start time, the file and the horizon: what was in order may be
\* late when it is repeated.
check(r) ==
    /\ request[r].pc = "check"
    /\ request' \in {Moved(r, "findAgain"), Answered(r, "rejected")}
    /\ UNCHANGED <<dialog, sender, senderLock, keyLock, batch>>

findAgain(r) ==
    /\ request[r].pc = "findAgain"
    /\ request' = IF Exists(request[r].key) THEN Enqueueing(r, "replayed")
                  ELSE IF request[r].content.leads = 0 THEN Answered(r, "rejected")
                  ELSE Moved(r, "begin")
    /\ UNCHANGED <<dialog, sender, senderLock, keyLock, batch>>

\* After P2002.
findRaced(r) ==
    /\ request[r].pc = "raced"
    /\ request' = IF Exists(request[r].key) THEN Enqueueing(r, "replayed")
                  ELSE Answered(r, "internalError")
    /\ UNCHANGED <<dialog, sender, senderLock, keyLock, batch>>

FirstPage(rows) == IF rows < PageSize THEN rows ELSE PageSize

\* Mutant: a replay is taken to be queued already.
enqueueCreated(r) ==
    /\ request[r].pc = "enqueue"
    /\ LET b == batch[request[r].key] IN
         \E n \in b.queued..b.rows :
            /\ batch' = [batch EXCEPT ![request[r].key] = [b EXCEPT !.queued = n]]
            /\ \/ n >= FirstPage(b.rows) /\ request' = request
               \/ /\ n >= FirstPage(b.rows) \/ request[r].answer = "replayed"
                  /\ request' = Moved(r, "answered")
               \/ "queue" \in Faults /\ request' = Answered(r, "queueUnavailable")
    /\ UNCHANGED <<dialog, sender, senderLock, keyLock>>

\* A page of the batch's claimable rows is given to the queue: one before the last,
\* the last, or one that fails when any part of it is queued.  A row that is not
\* claimable has been queued before, so the first page leaves a page's worth of
\* rows queued.  A later page may pass over one, when the cursor's row was taken.
enqueueBatch(r) ==
    /\ request[r].pc = "enqueue"
    /\ LET b == batch[request[r].key] IN
         \E n \in b.queued..b.rows :
            /\ batch' = [batch EXCEPT ![request[r].key] = [b EXCEPT !.queued = n]]
            /\ \/ n >= FirstPage(b.rows) /\ request' \in {request, Moved(r, "answered")}
               \/ "queue" \in Faults /\ request' = Answered(r, "queueUnavailable")
    /\ UNCHANGED <<dialog, sender, senderLock, keyLock>>

-----------------------------------------------------------------------------
(* The transaction *)

\* The sender is read, and the snapshot of the transaction taken.
begin(r) ==
    /\ request[r].pc = "begin"
    /\ LET s == request[r].content.sender IN
         request' = IF sender[s].active
                    THEN [request EXCEPT ![r] = [@ EXCEPT !.pc = "update", !.version = sender[s].version]]
                    ELSE Answered(r, "senderNotFound")
    /\ UNCHANGED <<dialog, sender, senderLock, keyLock, batch>>

\* Mutant: read committed isolation.
StaleNever(r) == request[r].content.sender \notin Sender

\* A serializable transaction cannot update a row that changed since its
\* snapshot: P2034, which nothing handles.
Stale(r) == sender[request[r].content.sender].version # request[r].version

updateSender(r) ==
    /\ request[r].pc = "update"
    /\ LET s == request[r].content.sender IN
         /\ senderLock[s] = NoRequest
         /\ \/ /\ Stale(r)
               /\ request' = Answered(r, "internalError")
               /\ Rollback(r)
            \/ /\ ~Stale(r)
               /\ sender[s].version < MaxVersion
               /\ senderLock' = [senderLock EXCEPT ![s] = r]
               /\ request' = Moved(r, "insert")
               /\ UNCHANGED <<dialog, sender, keyLock, batch>>

\* Mutant: the key is not unique.
TakenNever(k) == k \notin Key

Taken(k) == Exists(k)

\* The unique index makes a second insert wait for the first, and fail if that
\* was committed: P2002, or P2034 if PostgreSQL finds the conflict first.
createBatch(r) ==
    /\ request[r].pc = "insert"
    /\ LET k == request[r].key IN
         /\ keyLock[k] = NoRequest
         /\ \/ /\ Taken(k)
               /\ request' \in {Moved(r, "raced"), Answered(r, "internalError")}
               /\ Rollback(r)
            \/ /\ ~Taken(k)
               /\ keyLock' = [keyLock EXCEPT ![k] = r]
               /\ request' = Moved(r, "rows")
               /\ UNCHANGED <<dialog, sender, senderLock, batch>>

createMany(r) ==
    /\ request[r].pc = "rows"
    /\ LET c == request[r].content
           n == IF request[r].rows + ChunkSize < c.leads THEN request[r].rows + ChunkSize ELSE c.leads IN
         request' = [request EXCEPT ![r] = [@ EXCEPT !.rows = n, !.pc = IF n = c.leads THEN "commit" ELSE "rows"]]
    /\ UNCHANGED <<dialog, sender, senderLock, keyLock, batch>>

\* The answer to the commit may be lost.
commit(r) ==
    /\ request[r].pc = "commit"
    /\ LET k == request[r].key
           s == request[r].content.sender IN
         /\ batch' = [batch EXCEPT ![k] = [by |-> r, rows |-> request[r].rows, queued |-> 0]]
         /\ sender' = [sender EXCEPT ![s].version = @ + 1]
         /\ senderLock' = [senderLock EXCEPT ![s] = NoRequest]
         /\ keyLock' = [keyLock EXCEPT ![k] = NoRequest]
    /\ \/ request' = Enqueueing(r, "created")
       \/ "database" \in Faults /\ request' = Answered(r, "internalError")
    /\ UNCHANGED dialog

QueryFails(r) ==
    /\ "database" \in Faults
    /\ request[r].pc \in QueryPc
    /\ request' = Answered(r, "internalError")
    /\ Rollback(r)

\* PATCH /senders activates or deactivates a sender.
Patch(s) ==
    /\ senderLock[s] = NoRequest
    /\ sender[s].version < MaxVersion
    /\ sender' = [sender EXCEPT ![s] = [active |-> ~@.active, version |-> @.version + 1]]
    /\ UNCHANGED <<dialog, request, senderLock, keyLock, batch>>

Next ==
    \/ \E r \in Request :
          \/ \E k \in Key, c \in Content : submit(k, r, c)
          \/ Hear(r)
          \/ LoseConnection(r)
          \/ find(r)
          \/ check(r)
          \/ findAgain(r)
          \/ findRaced(r)
          \/ enqueueBatch(r)
          \/ begin(r)
          \/ updateSender(r)
          \/ createBatch(r)
          \/ createMany(r)
          \/ commit(r)
          \/ QueryFails(r)
    \/ \E s \in Sender : Patch(s)

Spec == Init /\ [][Next]_vars

-----------------------------------------------------------------------------
(* Properties *)

\* Whatever requests share a key, at once or one after the other, one of them at
\* most is told that it created the batch, the batch is its, with all its rows,
\* and who is told of a replay finds a batch.
AnswersAgree ==
    \A r \in Request : request[r].answer \in Success =>
        LET b == batch[request[r].key] IN
        /\ b.by \in Request
        /\ b.rows = request[b.by].content.leads
        /\ request[r].answer = "created" <=> b.by = r

\* A request that is answered with success leaves the first page of the batch's rows
\* queued, all of them when they are no more, also when an earlier request could not
\* queue them or queued a part.  Of the later pages nothing is promised.
SuccessQueued ==
    \A r \in Request :
        request[r].pc = "answered" /\ request[r].answer \in Success =>
            batch[request[r].key].queued >= FirstPage(batch[request[r].key].rows)

\* A batch appears only while its sender is active, although the sender is read
\* long before the commit.
ActiveSender ==
    [][\A k \in Key : batch[k].by = NoRequest /\ batch'[k].by # NoRequest =>
         sender[request[batch'[k].by].content.sender].active]_vars

\* How a request was answered, whatever goes on behind the answer.
Outcome(r) ==
    IF request[r].pc = "unsent" THEN "none"
    ELSE IF request[r].pc # "answered" THEN "pending"
    ELSE IF request[r].answer \in Success THEN request[r].answer ELSE "failed"

Contract == INSTANCE BatchContract WITH
    asked  <- [r \in Request |-> [ key |-> request[r].key, content |-> request[r].content,
                                   answer |-> Outcome(r) ]],
    told   <- {k \in Key : dialog[k] = "closed"}

\* BatchCreation implements BatchContract: whatever requests overlap, fail halfway
\* or lose their connection, the batches appear at once and stay, and a dialog that
\* is told of success has one whose first page of rows is queued.
ImplementsBatchContract == Contract!Spec

\* Meant for repeated requests: while the database works, none whose batch exists
\* is answered with an internal error.
RepeatReturnsBatch ==
    [][\A r \in Request :
         /\ request[r].pc # "answered"
         /\ request'[r].pc = "answered" /\ request'[r].answer = "internalError"
         => ~Exists(request[r].key)]_vars
=============================================================================

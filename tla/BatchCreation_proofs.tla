------------------------ MODULE BatchCreation_proofs ------------------------
(***************************************************************************)
(* Proofs about POST /email-batches, for any number of dialogs, requests   *)
(* and senders, and with any faults.                                       *)
(***************************************************************************)
EXTENDS BatchCreation, TLAPS

Sent(r) == request[r].pc # "unsent"
Ended(r) == request[r].pc \in {"enqueue", "answered"}

\* A request that was sent has a key and a form, and no answer before its end.
FormInv ==
    \A r \in Request :
        /\ Sent(r) => request[r].key \in Key /\ request[r].content \in Content
        /\ ~Ended(r) => request[r].answer = "none"
        /\ request[r].pc = "commit" => request[r].rows = request[r].content.leads

\* A lock belongs to the transaction that is past the statement which took it.
LockInv ==
    /\ \A s \in Sender : senderLock[s] # NoRequest => request[senderLock[s]].content.sender = s
    /\ \A k \in Key : keyLock[k] # NoRequest => request[keyLock[k]].key = k
    /\ \A r \in Request :
        /\ request[r].pc \in Locking => senderLock[request[r].content.sender] = r
        /\ request[r].pc \in {"rows", "commit"} => keyLock[request[r].key] = r

\* The sender that a transaction has read active still is, unless it was updated
\* since, which the transaction that has locked it excludes.
VersionInv ==
    \A r \in Request :
        LET s == sender[request[r].content.sender] IN
        /\ request[r].pc = "update" =>
             request[r].version <= s.version /\ (request[r].version = s.version => s.active)
        /\ request[r].pc \in Locking => s.active /\ s.version < MaxVersion

\* A page's worth of a batch's rows is queued.
PageQueued(k) == batch[k].queued >= FirstPage(batch[k].rows)

\* A batch belongs to one request of its key, which has not been told of a replay;
\* nobody past the insert of a key meets a batch that has it.
OwnerInv ==
    /\ \A k \in Key : Exists(k) =>
         LET r == batch[k].by IN
         /\ r \in Request /\ Ended(r)
         /\ request[r].key = k /\ request[r].answer # "replayed"
         /\ batch[k].rows = request[r].content.leads
    /\ \A r \in Request : request[r].pc \in {"rows", "commit"} => ~Exists(request[r].key)
    /\ \A r \in Request : request[r].answer \in Success =>
         /\ Exists(request[r].key)
         /\ request[r].answer = "created" => batch[request[r].key].by = r
         /\ request[r].pc = "answered" => PageQueued(request[r].key)

Pc == {"unsent", "check", "enqueue", "answered"} \cup QueryPc
Answer == {"none"} \cup Success \cup Failure
RequestType == [ pc : Pc, key : Key \cup {NoRequest}, content : Content \cup {NoContent},
                 answer : Answer, version : 0..MaxVersion, rows : Nat, heard : BOOLEAN ]

\* What request r becomes when it goes on to pc with an answer, and the others stay.
Goes(r, pc, answer) ==
    /\ request' \in [Request -> RequestType]
    /\ \A q \in Request \ {r} : request'[q] = request[q]
    /\ request'[r].pc = pc /\ request'[r].answer = answer
    /\ request'[r].key = request[r].key /\ request'[r].content = request[r].content
    /\ request'[r].version = request[r].version /\ request'[r].rows = request[r].rows

IInv == TypeOK /\ FormInv /\ LockInv /\ VersionInv /\ OwnerInv

USE NullAssumption, ContentAssumption, BoundAssumption

\* Initially nothing is locked, sent or written.
LEMMA InitInv == Init => IInv
  BY DEF Init, IInv, TypeOK, FormInv, LockInv, VersionInv, OwnerInv, Sent, Ended, NoBatch, Exists,
         Running, Locking, QueryPc, Success, Failure

\* A request that only goes on.
LEMMA MovedGoes ==
    ASSUME TypeOK, NEW r \in Request, NEW pc \in Pc, request' = Moved(r, pc)
    PROVE  Goes(r, pc, request[r].answer)
<1>1. request \in [Request -> RequestType]
  BY DEF TypeOK, RequestType, Pc, Answer
<1>2. [request[r] EXCEPT !.pc = pc] \in RequestType
  BY <1>1 DEF RequestType
<1> QED
  BY <1>1, <1>2 DEF Goes, Moved, RequestType

\* A request that is answered.
LEMMA AnsweredGoes ==
    ASSUME TypeOK, NEW r \in Request, NEW answer \in Answer, request' = Answered(r, answer)
    PROVE  Goes(r, "answered", answer)
<1>1. request \in [Request -> RequestType]
  BY DEF TypeOK, RequestType, Pc, Answer
<1>2. [request[r] EXCEPT !.pc = "answered", !.answer = answer] \in RequestType
  BY <1>1 DEF RequestType, Pc
<1> QED
  BY <1>1, <1>2 DEF Goes, Answered, RequestType

\* A request that has an answer once its rows are queued.
LEMMA EnqueueingGoes ==
    ASSUME TypeOK, NEW r \in Request, NEW answer \in Answer, request' = Enqueueing(r, answer)
    PROVE  Goes(r, "enqueue", answer)
<1>1. request \in [Request -> RequestType]
  BY DEF TypeOK, RequestType, Pc, Answer
<1>2. [request[r] EXCEPT !.pc = "enqueue", !.answer = answer] \in RequestType
  BY <1>1 DEF RequestType, Pc
<1> QED
  BY <1>1, <1>2 DEF Goes, Enqueueing, RequestType

\* Only requests hold locks.
LEMMA LockHolders ==
    ASSUME IInv
    PROVE  /\ \A s \in Sender : senderLock[s] # NoRequest => senderLock[s] \in Request
           /\ \A k \in Key : keyLock[k] # NoRequest => keyLock[k] \in Request
  BY DEF IInv, TypeOK, Running

\* A request that has no lock goes on outside the locking part.
LEMMA OutsideInv ==
    ASSUME IInv, NEW r \in Request, NEW pc \in Pc, NEW answer \in Answer, Goes(r, pc, answer),
           request[r].pc \notin Locking \cup {"unsent", "enqueue", "answered", "update"},
           pc \notin Locking \cup {"unsent", "update"},
           pc \notin {"enqueue", "answered"} => answer = "none",
           answer # "created",
           answer = "replayed" => pc = "enqueue" /\ Exists(request[r].key),
           UNCHANGED <<dialog, sender, senderLock, keyLock, batch>>
    PROVE  IInv'
<1>1. TypeOK'
  <2>1. \A q \in Running : q \in Running'
    BY DEF Running, Goes
  <2> QED
    BY <2>1 DEF IInv, TypeOK, Goes, RequestType, Pc, Answer
<1>2. FormInv'
  BY DEF IInv, FormInv, Goes, Sent, Ended, Locking
<1>3. LockInv'
  <2>1. \A s \in Sender : senderLock[s] # NoRequest =>
           senderLock[s] \in Request \ {r} /\ senderLock'[s] = senderLock[s]
    BY DEF IInv, TypeOK, Running
  <2>2. \A k \in Key : keyLock[k] # NoRequest =>
           keyLock[k] \in Request \ {r} /\ keyLock'[k] = keyLock[k]
    BY DEF IInv, TypeOK, Running
  <2> QED
    BY <2>1, <2>2 DEF IInv, LockInv, Goes, Locking
<1>4. VersionInv'
  BY DEF IInv, VersionInv, Goes, Locking
<1>5. OwnerInv'
  BY DEF IInv, OwnerInv, FormInv, Goes, Ended, Sent, Exists, Success, Locking, PageQueued, FirstPage
<1> QED
  BY <1>1, <1>2, <1>3, <1>4, <1>5 DEF IInv

\* The steps outside the transaction.
LEMMA FindsInv ==
    ASSUME IInv, NEW r \in Request, find(r) \/ findAgain(r) \/ findRaced(r) \/ check(r)
    PROVE  IInv'
<1>1. request[r].answer = "none"
  BY DEF IInv, FormInv, Ended, find, findAgain, findRaced, check
<1>2. CASE find(r)
  <2>1. CASE Exists(request[r].key)
    <3>1. Goes(r, "enqueue", "replayed")
      BY <1>2, <2>1, EnqueueingGoes DEF find, IInv, Answer, Success
    <3> QED
      BY <1>2, <2>1, <3>1, OutsideInv DEF find, Locking, Pc, Answer, Success
  <2>2. CASE ~Exists(request[r].key)
    <3>1. Goes(r, "check", "none")
      BY <1>1, <1>2, <2>2, MovedGoes DEF find, IInv, Pc
    <3> QED
      BY <1>2, <2>2, <3>1, OutsideInv DEF find, Locking, Pc, Answer
  <2> QED
    BY <2>1, <2>2
<1>3. CASE findAgain(r)
  <2>1. CASE Exists(request[r].key)
    <3>1. Goes(r, "enqueue", "replayed")
      BY <1>3, <2>1, EnqueueingGoes DEF findAgain, IInv, Answer, Success
    <3> QED
      BY <1>3, <2>1, <3>1, OutsideInv DEF findAgain, Locking, Pc, Answer, Success
  <2>2. CASE request' = Answered(r, "rejected")
    <3>1. Goes(r, "answered", "rejected")
      BY <2>2, AnsweredGoes DEF IInv, Answer, Failure
    <3> QED
      BY <1>3, <3>1, OutsideInv DEF findAgain, Locking, Pc, Answer, Failure
  <2>3. CASE request' = Moved(r, "begin")
    <3>1. Goes(r, "begin", "none")
      BY <1>1, <2>3, MovedGoes DEF IInv, Pc, QueryPc
    <3> QED
      BY <1>3, <3>1, OutsideInv DEF findAgain, Locking, Pc, Answer, QueryPc
  <2> QED
    BY <1>3, <2>1, <2>2, <2>3 DEF findAgain
<1>4. CASE findRaced(r)
  <2>1. CASE Exists(request[r].key)
    <3>1. Goes(r, "enqueue", "replayed")
      BY <1>4, <2>1, EnqueueingGoes DEF findRaced, IInv, Answer, Success
    <3> QED
      BY <1>4, <2>1, <3>1, OutsideInv DEF findRaced, Locking, Pc, Answer, Success
  <2>2. CASE request' = Answered(r, "internalError")
    <3>1. Goes(r, "answered", "internalError")
      BY <2>2, AnsweredGoes DEF IInv, Answer, Failure
    <3> QED
      BY <1>4, <3>1, OutsideInv DEF findRaced, Locking, Pc, Answer, Failure
  <2> QED
    BY <1>4, <2>1, <2>2 DEF findRaced
<1>5. CASE check(r)
  <2>1. CASE request' = Answered(r, "rejected")
    <3>1. Goes(r, "answered", "rejected")
      BY <2>1, AnsweredGoes DEF IInv, Answer, Failure
    <3> QED
      BY <1>5, <3>1, OutsideInv DEF check, Locking, Pc, Answer, Failure
  <2>2. CASE request' = Moved(r, "findAgain")
    <3>1. Goes(r, "findAgain", "none")
      BY <1>1, <2>2, MovedGoes DEF IInv, Pc, QueryPc
    <3> QED
      BY <1>5, <3>1, OutsideInv DEF check, Locking, Pc, Answer, QueryPc
  <2> QED
    BY <1>5, <2>1, <2>2 DEF check
<1> QED
  BY <1>2, <1>3, <1>4, <1>5

\* A transaction that ends without a commit, before or after it took its locks.
LEMMA RollbackInv ==
    ASSUME IInv, NEW r \in Request, NEW pc \in {"raced", "answered"},
           NEW answer \in {"none", "internalError"}, Goes(r, pc, answer), Rollback(r),
           request[r].pc \in QueryPc, pc = "raced" => answer = "none"
    PROVE  IInv'
<1>1. TypeOK'
  <2>1. \A q \in Running : q # r => q \in Running'
    BY DEF Running, Goes
  <2>2. senderLock' \in [Sender -> Running' \cup {NoRequest}]
    BY <2>1 DEF IInv, TypeOK, Rollback
  <2>3. keyLock' \in [Key -> Running' \cup {NoRequest}]
    BY <2>1 DEF IInv, TypeOK, Rollback
  <2> QED
    BY <2>2, <2>3 DEF IInv, TypeOK, Goes, RequestType, Pc, Answer, Rollback
<1>2. FormInv'
  BY DEF IInv, FormInv, Goes, Sent, Ended, QueryPc, Locking
<1>3. LockInv'
  <2>1. \A s \in Sender : senderLock'[s] # NoRequest =>
           senderLock'[s] = senderLock[s] /\ senderLock[s] \in Request \ {r}
    BY LockHolders DEF Rollback
  <2>2. \A k \in Key : keyLock'[k] # NoRequest =>
           keyLock'[k] = keyLock[k] /\ keyLock[k] \in Request \ {r}
    BY LockHolders DEF Rollback
  <2>4. \A q \in Request \ {r} :
           /\ \A s \in Sender : senderLock[s] = q => senderLock'[s] = q
           /\ \A k \in Key : keyLock[k] = q => keyLock'[k] = q
    BY DEF Rollback
  <2>3. \A q \in Request : request[q].pc \in Locking =>
           request[q].key \in Key /\ request[q].content.sender \in Sender
    BY DEF IInv, FormInv, Sent, Locking
  <2> QED
    <3>1. \A s \in Sender : senderLock'[s] # NoRequest => request'[senderLock'[s]].content.sender = s
      BY <2>1 DEF IInv, LockInv, Goes
    <3>2. \A k \in Key : keyLock'[k] # NoRequest => request'[keyLock'[k]].key = k
      BY <2>2 DEF IInv, LockInv, Goes
    <3>3. \A q \in Request : /\ request'[q].pc \in Locking => senderLock'[request'[q].content.sender] = q
                             /\ request'[q].pc \in {"rows", "commit"} => keyLock'[request'[q].key] = q
      BY <2>3, <2>4 DEF IInv, LockInv, Goes, Locking
    <3> QED
      BY <3>1, <3>2, <3>3 DEF LockInv
<1>4. VersionInv'
  BY DEF IInv, VersionInv, Goes, Locking, Rollback
<1>5. OwnerInv'
  BY DEF IInv, OwnerInv, FormInv, Goes, Ended, Sent, Exists, Success, Locking, QueryPc, Rollback, PageQueued, FirstPage
<1> QED
  BY <1>1, <1>2, <1>3, <1>4, <1>5 DEF IInv

\* What only concerns a dialog and whether it waits.
LEMMA DialogInv ==
    ASSUME IInv, NEW r \in Request, Hear(r) \/ LoseConnection(r)
    PROVE  IInv'
<1>1. request \in [Request -> RequestType]
  BY DEF IInv, TypeOK, RequestType, Pc, Answer
<1>2. [request[r] EXCEPT !.heard = FALSE] \in RequestType
  BY <1>1 DEF RequestType
<1>3. request' \in [Request -> RequestType]
  BY <1>1, <1>2 DEF Hear, LoseConnection
<1>4. \A q \in Request :
         /\ request'[q].pc = request[q].pc /\ request'[q].answer = request[q].answer
         /\ request'[q].key = request[q].key /\ request'[q].content = request[q].content
         /\ request'[q].version = request[q].version /\ request'[q].rows = request[q].rows
  BY <1>1 DEF Hear, LoseConnection, RequestType
<1>5. UNCHANGED <<sender, senderLock, keyLock, batch>>
  BY DEF Hear, LoseConnection
<1>6. dialog' \in [Key -> {"open", "pending", "closed"}]
  BY DEF Hear, LoseConnection, IInv, TypeOK
<1>7. TypeOK'
  <2>1. Running' = Running
    BY <1>4 DEF Running
  <2> QED
    BY <1>3, <1>5, <1>6, <2>1 DEF IInv, TypeOK, RequestType, Pc, Answer
<1>8. FormInv'
  BY <1>4 DEF IInv, FormInv, Sent, Ended
<1>9. LockInv'
  BY <1>4, <1>5, LockHolders DEF IInv, LockInv
<1>10. VersionInv'
  BY <1>4, <1>5 DEF IInv, VersionInv
<1>11. OwnerInv'
  BY <1>4, <1>5 DEF IInv, OwnerInv, Ended, Exists, PageQueued, FirstPage
<1> QED
  BY <1>7, <1>8, <1>9, <1>10, <1>11 DEF IInv

\* A form is sent.
LEMMA SubmitInv ==
    ASSUME IInv, NEW k \in Key, NEW r \in Request, NEW c \in Content, submit(k, r, c)
    PROVE  IInv'
<1>1. request \in [Request -> RequestType]
  BY DEF IInv, TypeOK, RequestType, Pc, Answer
<1>2. [request[r] EXCEPT !.pc = "find", !.key = k, !.content = c, !.heard = TRUE] \in RequestType
  BY <1>1 DEF RequestType, Pc, QueryPc
<1>3. request' \in [Request -> RequestType] /\ \A q \in Request \ {r} : request'[q] = request[q]
  BY <1>1, <1>2 DEF submit
<1>4. /\ request'[r].pc = "find" /\ request'[r].key = k /\ request'[r].content = c
      /\ request'[r].answer = request[r].answer
  BY <1>1 DEF submit, RequestType
<1>5. UNCHANGED <<sender, senderLock, keyLock, batch>> /\ request[r].pc = "unsent"
  BY DEF submit
<1>6. dialog' \in [Key -> {"open", "pending", "closed"}]
  BY DEF submit, IInv, TypeOK
<1>7. TypeOK'
  <2>1. \A q \in Running : q \in Running'
    BY <1>3, <1>5 DEF Running, Locking
  <2> QED
    BY <1>3, <1>5, <1>6, <2>1 DEF IInv, TypeOK, RequestType, Pc, Answer
<1>8. FormInv'
  BY <1>3, <1>4, <1>5 DEF IInv, FormInv, Sent, Ended
<1>9. LockInv'
  <2>1. \A s \in Sender : senderLock[s] # r
    BY <1>5 DEF IInv, TypeOK, Running, Locking
  <2>2. \A l \in Key : keyLock[l] # r
    BY <1>5 DEF IInv, TypeOK, Running, Locking
  <2> QED
    BY <1>3, <1>4, <1>5, <2>1, <2>2, LockHolders DEF IInv, LockInv, Locking
<1>10. VersionInv'
  BY <1>3, <1>4, <1>5 DEF IInv, VersionInv, Locking
<1>11. OwnerInv'
  BY <1>3, <1>4, <1>5 DEF IInv, OwnerInv, FormInv, Ended, Exists, Success, PageQueued, FirstPage
<1> QED
  BY <1>7, <1>8, <1>9, <1>10, <1>11 DEF IInv

\* The snapshot: its version is the one of an active sender.
LEMMA BeginInv ==
    ASSUME IInv, NEW r \in Request, begin(r)
    PROVE  IInv'
<1> DEFINE s == request[r].content.sender
<1>1. s \in Sender /\ request[r].answer = "none"
  BY DEF IInv, FormInv, Sent, Ended, begin
<1>2. CASE ~sender[s].active
  <2>1. Goes(r, "answered", "senderNotFound")
    BY <1>2, AnsweredGoes DEF begin, IInv, Answer, Failure
  <2> QED
    BY <2>1, OutsideInv DEF begin, Locking, Pc, Answer, Failure
<1>3. CASE sender[s].active
  <2>1. request \in [Request -> RequestType]
    BY DEF IInv, TypeOK, RequestType, Pc, Answer
  <2>2. sender[s].version \in 0..MaxVersion
    BY <1>1 DEF IInv, TypeOK
  <2>3. [request[r] EXCEPT !.pc = "update", !.version = sender[s].version] \in RequestType
    BY <2>1, <2>2 DEF RequestType, Pc, QueryPc
  <2>4. request' \in [Request -> RequestType] /\ \A q \in Request \ {r} : request'[q] = request[q]
    BY <1>3, <2>1, <2>3 DEF begin
  <2>5. /\ request'[r].pc = "update" /\ request'[r].version = sender[s].version
        /\ request'[r].key = request[r].key /\ request'[r].content = request[r].content
        /\ request'[r].answer = request[r].answer
    BY <1>3, <2>1 DEF begin, RequestType
  <2>6. UNCHANGED <<dialog, sender, senderLock, keyLock, batch>> /\ request[r].pc = "begin"
    BY DEF begin
  <2>7. TypeOK'
    <3>1. \A q \in Running : q \in Running'
      BY <2>4, <2>6 DEF Running, Locking
    <3> QED
      BY <2>4, <2>6, <3>1 DEF IInv, TypeOK, RequestType, Pc, Answer
  <2>8. FormInv'
    BY <2>4, <2>5, <2>6 DEF IInv, FormInv, Sent, Ended
  <2>9. LockInv'
    <3>1. \A t \in Sender : senderLock[t] # r
      BY <2>6 DEF IInv, TypeOK, Running, Locking
    <3>2. \A k \in Key : keyLock[k] # r
      BY <2>6 DEF IInv, TypeOK, Running, Locking
    <3> QED
      BY <2>4, <2>5, <2>6, <3>1, <3>2, LockHolders DEF IInv, LockInv, Locking
  <2>10. VersionInv'
    BY <1>3, <2>2, <2>4, <2>5, <2>6 DEF IInv, VersionInv, Locking
  <2>11. OwnerInv'
    BY <2>4, <2>5, <2>6 DEF IInv, OwnerInv, Ended, Exists, Success, PageQueued, FirstPage
  <2> QED
    BY <2>7, <2>8, <2>9, <2>10, <2>11 DEF IInv
<1> QED
  BY <1>2, <1>3

\* The update of the sender row takes its lock, or ends the transaction.
LEMMA UpdateInv ==
    ASSUME IInv, NEW r \in Request, updateSender(r)
    PROVE  IInv'
<1> DEFINE s == request[r].content.sender
<1>1. /\ s \in Sender /\ request[r].answer = "none" /\ request[r].pc = "update"
      /\ senderLock[s] = NoRequest
  BY DEF IInv, FormInv, Sent, Ended, updateSender
<1>2. CASE request' = Answered(r, "internalError") /\ Rollback(r)
  <2>1. Goes(r, "answered", "internalError")
    BY <1>2, AnsweredGoes DEF IInv, Answer, Failure
  <2> QED
    BY <1>1, <1>2, <2>1, RollbackInv DEF QueryPc
<1>3. CASE /\ ~Stale(r) /\ sender[s].version < MaxVersion
           /\ senderLock' = [senderLock EXCEPT ![s] = r] /\ request' = Moved(r, "insert")
           /\ UNCHANGED <<dialog, sender, keyLock, batch>>
  <2>1. Goes(r, "insert", "none")
    BY <1>1, <1>3, MovedGoes DEF IInv, Pc, QueryPc, Locking
  <2>2. /\ senderLock'[s] = r
        /\ \A t \in Sender \ {s} : senderLock'[t] = senderLock[t]
    BY <1>1, <1>3 DEF IInv, TypeOK
  <2>3. TypeOK'
    <3>1. Running' = Running \cup {r}
      BY <1>1, <2>1 DEF Running, Goes, Locking
    <3>2. senderLock' \in [Sender -> Running' \cup {NoRequest}]
      BY <1>3, <3>1 DEF IInv, TypeOK
    <3>3. keyLock' \in [Key -> Running' \cup {NoRequest}]
      BY <1>3, <3>1 DEF IInv, TypeOK
    <3> QED
      BY <1>3, <2>1, <3>2, <3>3 DEF IInv, TypeOK, Goes, RequestType, Pc, Answer
  <2>4. FormInv'
    BY <1>1, <2>1 DEF IInv, FormInv, Goes, Sent, Ended
  <2>5. LockInv'
    <3>1. \A t \in Sender : senderLock'[t] # NoRequest => request'[senderLock'[t]].content.sender = t
      BY <1>1, <2>1, <2>2, LockHolders DEF IInv, LockInv, Goes
    <3>2. \A k \in Key : keyLock'[k] # NoRequest => request'[keyLock'[k]].key = k
      BY <1>3, <2>1, LockHolders DEF IInv, LockInv, Goes
    <3>3. ASSUME NEW q \in Request, request'[q].pc \in Locking
          PROVE  senderLock'[request'[q].content.sender] = q
      <4>1. CASE q = r
        BY <2>1, <2>2, <4>1 DEF Goes
      <4>2. CASE q # r
        <5>1. /\ request'[q] = request[q] /\ senderLock[request[q].content.sender] = q
              /\ request[q].content.sender \in Sender
          BY <2>1, <3>3, <4>2 DEF IInv, LockInv, FormInv, Sent, Goes, Locking
        <5> QED
          BY <1>1, <2>2, <5>1
      <4> QED
        BY <4>1, <4>2
    <3>4. \A q \in Request : request'[q].pc \in {"rows", "commit"} => keyLock'[request'[q].key] = q
      BY <1>3, <2>1 DEF IInv, LockInv, Goes
    <3> QED
      BY <3>1, <3>2, <3>3, <3>4 DEF LockInv
  <2>6. VersionInv'
    BY <1>1, <1>3, <2>1 DEF IInv, VersionInv, Goes, Locking, Stale
  <2>7. OwnerInv'
    BY <1>1, <1>3, <2>1 DEF IInv, OwnerInv, Goes, Ended, Exists, Success, PageQueued, FirstPage
  <2> QED
    BY <2>3, <2>4, <2>5, <2>6, <2>7 DEF IInv
<1> QED
  BY <1>2, <1>3 DEF updateSender

\* The insert takes the lock of a key without a batch, or ends the transaction.
LEMMA CreateBatchInv ==
    ASSUME IInv, NEW r \in Request, createBatch(r)
    PROVE  IInv'
<1> DEFINE k == request[r].key
<1>1. /\ k \in Key /\ request[r].answer = "none" /\ request[r].pc = "insert"
      /\ keyLock[k] = NoRequest
  BY DEF IInv, FormInv, Sent, Ended, createBatch
<1>2. CASE request' = Answered(r, "internalError") /\ Rollback(r)
  <2>1. Goes(r, "answered", "internalError")
    BY <1>2, AnsweredGoes DEF IInv, Answer, Failure
  <2> QED
    BY <1>1, <1>2, <2>1, RollbackInv DEF QueryPc, Locking
<1>3. CASE request' = Moved(r, "raced") /\ Rollback(r)
  <2>1. Goes(r, "raced", "none")
    BY <1>1, <1>3, MovedGoes DEF IInv, Pc, QueryPc
  <2> QED
    BY <1>1, <1>3, <2>1, RollbackInv DEF QueryPc, Locking
<1>4. CASE /\ ~Exists(k) /\ keyLock' = [keyLock EXCEPT ![k] = r] /\ request' = Moved(r, "rows")
           /\ UNCHANGED <<dialog, sender, senderLock, batch>>
  <2>1. Goes(r, "rows", "none")
    BY <1>1, <1>4, MovedGoes DEF IInv, Pc, QueryPc, Locking
  <2>2. /\ keyLock'[k] = r
        /\ \A l \in Key \ {k} : keyLock'[l] = keyLock[l]
    BY <1>1, <1>4 DEF IInv, TypeOK
  <2>3. TypeOK'
    <3>1. Running' = Running /\ r \in Running
      BY <1>1, <2>1 DEF Running, Goes, Locking
    <3>2. keyLock' \in [Key -> Running' \cup {NoRequest}]
      BY <1>4, <3>1 DEF IInv, TypeOK
    <3> QED
      BY <1>4, <2>1, <3>1, <3>2 DEF IInv, TypeOK, Goes, RequestType, Pc, Answer
  <2>4. FormInv'
    BY <1>1, <2>1 DEF IInv, FormInv, Goes, Sent, Ended
  <2>5. LockInv'
    <3>1. \A s \in Sender : senderLock'[s] # NoRequest => request'[senderLock'[s]].content.sender = s
      BY <1>4, <2>1, LockHolders DEF IInv, LockInv, Goes
    <3>2. \A l \in Key : keyLock'[l] # NoRequest => request'[keyLock'[l]].key = l
      BY <1>1, <2>1, <2>2, LockHolders DEF IInv, LockInv, Goes
    <3>3. \A q \in Request : request'[q].pc \in Locking => senderLock'[request'[q].content.sender] = q
      BY <1>1, <1>4, <2>1 DEF IInv, LockInv, Goes, Locking
    <3>4. ASSUME NEW q \in Request, request'[q].pc \in {"rows", "commit"}
          PROVE  keyLock'[request'[q].key] = q
      <4>1. CASE q = r
        BY <2>1, <2>2, <4>1 DEF Goes
      <4>2. CASE q # r
        <5>1. /\ request'[q] = request[q] /\ keyLock[request[q].key] = q /\ request[q].key \in Key
          BY <2>1, <3>4, <4>2 DEF IInv, LockInv, FormInv, Sent, Goes
        <5> QED
          BY <1>1, <2>2, <5>1
      <4> QED
        BY <4>1, <4>2
    <3> QED
      BY <3>1, <3>2, <3>3, <3>4 DEF LockInv
  <2>6. VersionInv'
    BY <1>1, <1>4, <2>1 DEF IInv, VersionInv, Goes, Locking
  <2>7. OwnerInv'
    BY <1>1, <1>4, <2>1 DEF IInv, OwnerInv, Goes, Ended, Exists, Success, PageQueued, FirstPage
  <2> QED
    BY <2>3, <2>4, <2>5, <2>6, <2>7 DEF IInv
<1> QED
  BY <1>2, <1>3, <1>4 DEF createBatch, Taken

\* A chunk of rows is inserted.
LEMMA CreateManyInv ==
    ASSUME IInv, NEW r \in Request, createMany(r)
    PROVE  IInv'
<1> DEFINE c == request[r].content
           n == IF request[r].rows + ChunkSize < c.leads THEN request[r].rows + ChunkSize ELSE c.leads
           pc == IF n = c.leads THEN "commit" ELSE "rows"
<1>1. /\ c \in Content /\ c.leads \in Nat /\ request[r].rows \in Nat
      /\ request[r].answer = "none" /\ request[r].pc = "rows"
  BY DEF IInv, TypeOK, FormInv, Sent, Ended, createMany
<1>2. n \in Nat
  BY <1>1
<1>3. request \in [Request -> RequestType]
  BY DEF IInv, TypeOK, RequestType, Pc, Answer
<1>4. [request[r] EXCEPT !.rows = n, !.pc = pc] \in RequestType
  BY <1>2, <1>3 DEF RequestType, Pc, QueryPc, Locking
<1>5. request' = [request EXCEPT ![r] = [request[r] EXCEPT !.rows = n, !.pc = pc]]
  BY DEF createMany
<1>6. request' \in [Request -> RequestType] /\ \A q \in Request \ {r} : request'[q] = request[q]
  BY <1>3, <1>4, <1>5
<1>7. /\ request'[r].pc = pc /\ request'[r].rows = n /\ request'[r].key = request[r].key
      /\ request'[r].content = c /\ request'[r].answer = "none"
  BY <1>1, <1>3, <1>5 DEF RequestType
<1>8. UNCHANGED <<dialog, sender, senderLock, keyLock, batch>>
  BY DEF createMany
<1>9. pc \in {"rows", "commit"} /\ (pc = "commit" => n = c.leads)
  OBVIOUS
<1> HIDE DEF n, pc
<1>10. TypeOK'
  <2>1. Running' = Running
    BY <1>1, <1>6, <1>7, <1>9 DEF Running, Locking
  <2> QED
    BY <1>6, <1>8, <2>1 DEF IInv, TypeOK, RequestType, Pc, Answer
<1>11. FormInv'
  BY <1>1, <1>6, <1>7, <1>9 DEF IInv, FormInv, Sent, Ended
<1>12. LockInv'
  BY <1>1, <1>6, <1>7, <1>8, <1>9, LockHolders DEF IInv, LockInv, Locking
<1>13. VersionInv'
  BY <1>1, <1>6, <1>7, <1>8, <1>9 DEF IInv, VersionInv, Locking
<1>14. OwnerInv'
  BY <1>1, <1>6, <1>7, <1>8, <1>9 DEF IInv, OwnerInv, Ended, Exists, Success, PageQueued, FirstPage
<1> QED
  BY <1>10, <1>11, <1>12, <1>13, <1>14 DEF IInv

\* A page of the rows is queued, or a part of it.
LEMMA EnqueueInv ==
    ASSUME IInv, NEW r \in Request, enqueueBatch(r)
    PROVE  IInv'
<1> DEFINE k == request[r].key
           answer == request[r].answer
<1>1. k \in Key /\ request[r].pc = "enqueue" /\ answer \in Answer
  BY DEF IInv, FormInv, Sent, enqueueBatch, TypeOK, Answer
<1>2. PICK n \in batch[k].queued..batch[k].rows :
        /\ batch' = [batch EXCEPT ![k] = [batch[k] EXCEPT !.queued = n]]
        /\ \/ n >= FirstPage(batch[k].rows) /\ request' \in {request, Moved(r, "answered")}
           \/ request' = Answered(r, "queueUnavailable")
  BY DEF enqueueBatch
<1>3. /\ batch' \in [Key -> [by : Request \cup {NoRequest}, rows : Nat, queued : Nat]]
      /\ \A l \in Key : /\ batch'[l].by = batch[l].by /\ batch'[l].rows = batch[l].rows
                        /\ PageQueued(l) => PageQueued(l)'
      /\ batch'[k].queued = n
  <2>1. batch \in [Key -> [by : Request \cup {NoRequest}, rows : Nat, queued : Nat]]
    BY DEF IInv, TypeOK
  <2>2. n \in Nat /\ n >= batch[k].queued /\ batch[k] \in [by : Request \cup {NoRequest}, rows : Nat, queued : Nat]
    BY <1>1, <1>2, <2>1
  <2>3. PICK b : b = [batch[k] EXCEPT !.queued = n]
    OBVIOUS
  <2>4. /\ b \in [by : Request \cup {NoRequest}, rows : Nat, queued : Nat]
        /\ b.by = batch[k].by /\ b.rows = batch[k].rows /\ b.queued = n
    BY <2>2, <2>3
  <2>5. batch' = [batch EXCEPT ![k] = b]
    BY <1>2, <2>3
  <2>6. batch'[k] = b /\ \A l \in Key \ {k} : batch'[l] = batch[l]
    BY <1>1, <2>1, <2>5
  <2>7. batch' \in [Key -> [by : Request \cup {NoRequest}, rows : Nat, queued : Nat]]
    BY <1>1, <2>1, <2>4, <2>5
  <2>8. ASSUME NEW l \in Key
        PROVE  /\ batch'[l].by = batch[l].by /\ batch'[l].rows = batch[l].rows
               /\ PageQueued(l) => PageQueued(l)'
    <3>1. CASE l # k
      <4>1. batch'[l] = batch[l]
        BY <2>6, <3>1
      <4> QED
        BY <4>1 DEF PageQueued, FirstPage
    <3>2. CASE l = k
      <4>1. batch'[l].rows = batch[l].rows /\ batch'[l].by = batch[l].by /\ batch'[l].queued = n
        BY <2>4, <2>6, <3>2
      <4>2. /\ FirstPage(batch'[l].rows) \in Nat /\ n >= batch[l].queued /\ n \in Nat
            /\ batch[l].queued \in Nat
        BY <2>2, <3>2, <4>1 DEF FirstPage
      <4>3. batch[l].queued >= FirstPage(batch[l].rows) => batch'[l].queued >= FirstPage(batch'[l].rows)
        BY <4>1, <4>2
      <4>4. PageQueued(l)' <=> batch'[l].queued >= FirstPage(batch'[l].rows)
        BY DEF PageQueued, FirstPage
      <4> QED
        BY <4>1, <4>3, <4>4 DEF PageQueued
    <3> QED
      BY <3>1, <3>2
  <2>9. batch'[k].queued = n
    BY <2>4, <2>6
  <2> HIDE DEF k
  <2> QED
    BY <2>7, <2>8, <2>9
<1>4. PICK pc \in {"enqueue", "answered"}, a \in {answer, "queueUnavailable"} :
        /\ Goes(r, pc, a)
        /\ pc = "answered" /\ a \in Success => n >= FirstPage(batch[k].rows)
  <2>1. CASE n >= FirstPage(batch[k].rows) /\ request' = request
    <3>1. Goes(r, "enqueue", answer)
      BY <1>1, <2>1 DEF Goes, IInv, TypeOK, RequestType, Pc, Answer
    <3> QED
      BY <2>1, <3>1
  <2>2. CASE n >= FirstPage(batch[k].rows) /\ request' = Moved(r, "answered")
    <3>1. Goes(r, "answered", answer)
      BY <2>2, MovedGoes DEF IInv, Pc
    <3> QED
      BY <2>2, <3>1
  <2>3. CASE request' = Answered(r, "queueUnavailable")
    <3>1. Goes(r, "answered", "queueUnavailable")
      BY <2>3, AnsweredGoes DEF IInv, Answer, Failure
    <3> QED
      BY <3>1 DEF Success
  <2> QED
    BY <1>2, <2>1, <2>2, <2>3
<1>5. UNCHANGED <<dialog, sender, senderLock, keyLock>>
  BY DEF enqueueBatch
<1>6. TypeOK'
  <2>1. Running' = Running
    BY <1>1, <1>4 DEF Running, Goes, Locking
  <2> QED
    BY <1>3, <1>4, <1>5, <2>1 DEF IInv, TypeOK, Goes, RequestType, Pc, Answer
<1>7. FormInv'
  BY <1>1, <1>4 DEF IInv, FormInv, Goes, Sent, Ended
<1>8. LockInv'
  BY <1>1, <1>4, <1>5, LockHolders DEF IInv, LockInv, Goes, Locking
<1>9. VersionInv'
  BY <1>1, <1>4, <1>5 DEF IInv, VersionInv, Goes, Locking
<1>10. OwnerInv'
  <2>1. \A l \in Key : Exists(l)' <=> Exists(l)
    BY <1>3 DEF Exists
  <2>2. \A q \in Request : /\ request'[q].key = request[q].key
                           /\ request'[q].answer \in {request[q].answer, "queueUnavailable"}
                           /\ request'[q].content = request[q].content
                           /\ Ended(q)' <=> Ended(q)
                           /\ request[q].answer \in Success => request[q].key \in Key
    BY <1>1, <1>4 DEF Goes, Ended, IInv, FormInv, Sent, Success
  <2>3. \A l \in Key : Exists(l)' =>
           /\ batch'[l].by \in Request /\ Ended(batch[l].by)'
           /\ request'[batch'[l].by].key = l /\ request'[batch'[l].by].answer # "replayed"
           /\ batch'[l].rows = request'[batch'[l].by].content.leads
    BY <1>3, <2>1, <2>2 DEF IInv, OwnerInv
  <2>4. \A q \in Request : request'[q].pc \in {"rows", "commit"} => ~Exists(request[q].key)'
    BY <1>1, <1>3, <1>4, <2>2 DEF IInv, OwnerInv, FormInv, Sent, Goes, Exists
  <2>5. ASSUME NEW q \in Request, request'[q].answer \in Success
        PROVE  /\ Exists(request[q].key)'
               /\ request'[q].answer = "created" => batch'[request'[q].key].by = q
               /\ request'[q].pc = "answered" => PageQueued(request[q].key)'
    <3>1. /\ Exists(request[q].key) /\ request[q].key \in Key
          /\ request'[q].answer = request[q].answer
          /\ request[q].answer = "created" => batch[request[q].key].by = q
          /\ request[q].pc = "answered" => PageQueued(request[q].key)
      BY <2>2, <2>5 DEF IInv, OwnerInv, Success
    <3>2. CASE q = r
      <4>1. request'[q].pc = "answered" => PageQueued(k)'
        BY <1>1, <1>3, <1>4, <2>5, <3>2 DEF Goes, PageQueued, FirstPage
      <4> QED
        BY <1>3, <2>1, <2>2, <3>1, <3>2, <4>1
    <3>3. CASE q # r
      <4>1. request'[q] = request[q]
        BY <1>4, <3>3 DEF Goes
      <4> QED
        BY <1>3, <2>1, <3>1, <4>1
    <3> QED
      BY <3>2, <3>3
  <2>6. \A q \in Request : PageQueued(request[q].key)' => batch'[request'[q].key].queued >= FirstPage(batch'[request'[q].key].rows)
    BY <2>2 DEF PageQueued
  <2> HIDE DEF k, answer
  <2> QED
    BY <2>2, <2>3, <2>4, <2>5, <2>6 DEF OwnerInv, PageQueued, Exists, FirstPage
<1> QED
  BY <1>6, <1>7, <1>8, <1>9, <1>10 DEF IInv

\* A failed query takes the transaction with it.
LEMMA QueryFailsInv ==
    ASSUME IInv, NEW r \in Request, QueryFails(r)
    PROVE  IInv'
<1>1. Goes(r, "answered", "internalError")
  BY AnsweredGoes DEF QueryFails, IInv, Answer, Failure
<1> QED
  BY <1>1, RollbackInv DEF QueryFails

\* PATCH changes only senders that no transaction has locked.
LEMMA PatchInv ==
    ASSUME IInv, NEW s \in Sender, Patch(s)
    PROVE  IInv'
<1>1. UNCHANGED <<dialog, request, senderLock, keyLock, batch>> /\ senderLock[s] = NoRequest
  BY DEF Patch
<1>2. sender' \in [Sender -> [active : BOOLEAN, version : 0..MaxVersion]]
  BY DEF Patch, IInv, TypeOK
<1>3. /\ sender'[s].version = sender[s].version + 1 /\ sender[s].version \in Nat
      /\ \A t \in Sender \ {s} : sender'[t] = sender[t]
  BY DEF Patch, IInv, TypeOK
<1>4. TypeOK'
  BY <1>1, <1>2 DEF IInv, TypeOK, Running
<1>5. FormInv' /\ LockInv' /\ OwnerInv'
  BY <1>1 DEF IInv, FormInv, LockInv, OwnerInv, Sent, Ended, Exists, PageQueued, FirstPage
<1>6. VersionInv'
  <2>1. ASSUME NEW r \in Request, request[r].pc = "update"
        PROVE  LET t == sender'[request[r].content.sender] IN
               request[r].version <= t.version /\ (request[r].version = t.version => t.active)
    <3>1. request[r].content.sender \in Sender /\ request[r].version \in Nat
      BY <2>1 DEF IInv, FormInv, Sent, TypeOK
    <3> QED
      BY <1>3, <2>1, <3>1 DEF IInv, VersionInv
  <2>2. ASSUME NEW r \in Request, request[r].pc \in Locking
        PROVE  LET t == sender'[request[r].content.sender] IN t.active /\ t.version < MaxVersion
    <3>1. /\ request[r].content.sender \in Sender
          /\ senderLock[request[r].content.sender] = r
      BY <2>2 DEF IInv, FormInv, LockInv, Sent, Locking
    <3> QED
      BY <1>1, <1>3, <2>2, <3>1 DEF IInv, VersionInv
  <2> QED
    BY <1>1, <2>1, <2>2 DEF VersionInv
<1> QED
  BY <1>4, <1>5, <1>6 DEF IInv

\* The commit: the batch takes its key, and both locks are free again.
LEMMA CommitInv ==
    ASSUME IInv, NEW r \in Request, commit(r)
    PROVE  IInv'
<1> DEFINE k == request[r].key
           s == request[r].content.sender
<1>1. /\ k \in Key /\ request[r].content \in Content /\ s \in Sender
      /\ request[r].pc = "commit" /\ request[r].answer = "none"
      /\ request[r].rows = request[r].content.leads /\ request[r].rows \in Nat
  BY DEF IInv, FormInv, Sent, Ended, commit, TypeOK
<1>2. /\ senderLock[s] = r /\ keyLock[k] = r /\ ~Exists(k)
      /\ sender[s].active /\ sender[s].version < MaxVersion /\ sender[s].version \in Nat
  BY <1>1 DEF IInv, LockInv, VersionInv, OwnerInv, Locking, TypeOK
<1>3. PICK pc \in {"enqueue", "answered"}, answer \in {"created", "internalError"} :
         /\ Goes(r, pc, answer)
         /\ pc = "answered" => answer = "internalError"
  <2>1. CASE request' = Enqueueing(r, "created")
    BY <2>1, EnqueueingGoes DEF IInv, Answer, Success
  <2>2. CASE request' = Answered(r, "internalError")
    BY <2>2, AnsweredGoes DEF IInv, Answer, Failure
  <2> QED
    BY <2>1, <2>2 DEF commit
<1>4. /\ sender' \in [Sender -> [active : BOOLEAN, version : 0..MaxVersion]]
      /\ sender'[s].active /\ sender'[s].version = sender[s].version + 1
      /\ \A t \in Sender \ {s} : sender'[t] = sender[t]
  <2>1. sender \in [Sender -> [active : BOOLEAN, version : 0..MaxVersion]]
    BY DEF IInv, TypeOK
  <2>2. sender' = [sender EXCEPT ![s] = [sender[s] EXCEPT !.version = sender[s].version + 1]]
    BY DEF commit
  <2>3. sender[s].version + 1 \in 0..MaxVersion
    BY <1>2
  <2>4. [sender[s] EXCEPT !.version = sender[s].version + 1] \in [active : BOOLEAN, version : 0..MaxVersion]
    BY <1>1, <2>1, <2>3
  <2> QED
    BY <1>1, <1>2, <2>1, <2>2, <2>4
<1>5. /\ senderLock'[s] = NoRequest
      /\ \A t \in Sender \ {s} : senderLock'[t] = senderLock[t]
      /\ keyLock'[k] = NoRequest
      /\ \A l \in Key \ {k} : keyLock'[l] = keyLock[l]
  BY <1>1 DEF commit, IInv, TypeOK
<1>6. /\ batch' \in [Key -> [by : Request \cup {NoRequest}, rows : Nat, queued : Nat]]
      /\ batch'[k].by = r /\ batch'[k].rows = request[r].content.leads
      /\ \A l \in Key \ {k} : batch'[l] = batch[l]
  BY <1>1 DEF commit, IInv, TypeOK
<1>7. TypeOK'
  <2>1. Running' = Running \ {r}
    BY <1>1, <1>3 DEF Running, Goes, Locking
  <2>2. \A t \in Sender \ {s} : senderLock[t] # r
    BY <1>2 DEF IInv, LockInv
  <2>3. \A l \in Key \ {k} : keyLock[l] # r
    BY <1>2 DEF IInv, LockInv
  <2>4. senderLock' \in [Sender -> Running' \cup {NoRequest}]
    BY <1>1, <2>1, <2>2 DEF commit, IInv, TypeOK
  <2>5. keyLock' \in [Key -> Running' \cup {NoRequest}]
    BY <1>1, <2>1, <2>3 DEF commit, IInv, TypeOK
  <2>6. dialog' = dialog
    BY DEF commit
  <2> QED
    BY <1>3, <1>4, <1>6, <2>4, <2>5, <2>6 DEF IInv, TypeOK, Goes, RequestType, Pc, Answer
<1>8. FormInv'
  BY <1>1, <1>3 DEF IInv, FormInv, Goes, Sent, Ended
<1>9. LockInv'
  <2>1. \A t \in Sender : senderLock'[t] # NoRequest => request'[senderLock'[t]].content.sender = t
    BY <1>3, <1>5, LockHolders DEF IInv, LockInv, Goes
  <2>2. \A l \in Key : keyLock'[l] # NoRequest => request'[keyLock'[l]].key = l
    BY <1>3, <1>5, LockHolders DEF IInv, LockInv, Goes
  <2>3. ASSUME NEW q \in Request, request'[q].pc \in Locking
        PROVE  senderLock'[request'[q].content.sender] = q
    <3>1. q # r /\ request'[q] = request[q]
      BY <1>3, <2>3 DEF Goes, Locking
    <3>2. senderLock[request[q].content.sender] = q /\ request[q].content.sender \in Sender
      BY <2>3, <3>1 DEF IInv, LockInv, FormInv, Sent, Locking
    <3> QED
      BY <1>2, <1>5, <3>1, <3>2
  <2>4. ASSUME NEW q \in Request, request'[q].pc \in {"rows", "commit"}
        PROVE  keyLock'[request'[q].key] = q
    <3>1. q # r /\ request'[q] = request[q]
      BY <1>3, <2>4 DEF Goes
    <3>2. keyLock[request[q].key] = q /\ request[q].key \in Key
      BY <2>4, <3>1 DEF IInv, LockInv, FormInv, Sent
    <3> QED
      BY <1>2, <1>5, <3>1, <3>2
  <2> QED
    BY <2>1, <2>2, <2>3, <2>4 DEF LockInv
<1>10. VersionInv'
  <2>1. ASSUME NEW q \in Request, request'[q].pc = "update"
        PROVE  LET t == sender'[request'[q].content.sender] IN
               request'[q].version <= t.version /\ (request'[q].version = t.version => t.active)
    <3>1. q # r /\ request'[q] = request[q]
      BY <1>3, <2>1 DEF Goes
    <3>2. request[q].content.sender \in Sender /\ request[q].version \in Nat
      BY <2>1, <3>1 DEF IInv, FormInv, Sent, TypeOK
    <3> QED
      BY <1>2, <1>4, <2>1, <3>1, <3>2 DEF IInv, VersionInv
  <2>2. ASSUME NEW q \in Request, request'[q].pc \in Locking
        PROVE  LET t == sender'[request'[q].content.sender] IN t.active /\ t.version < MaxVersion
    <3>1. q # r /\ request'[q] = request[q]
      BY <1>3, <2>2 DEF Goes, Locking
    <3>2. senderLock[request[q].content.sender] = q /\ request[q].content.sender \in Sender
      BY <2>2, <3>1 DEF IInv, LockInv, FormInv, Sent, Locking
    <3> QED
      BY <1>2, <1>4, <2>2, <3>1, <3>2 DEF IInv, VersionInv
  <2> QED
    BY <2>1, <2>2 DEF VersionInv
<1>11. OwnerInv'
  <2>1. ASSUME NEW l \in Key, Exists(l)'
        PROVE  LET q == batch'[l].by IN
               /\ q \in Request /\ request'[q].pc \in {"enqueue", "answered"}
               /\ request'[q].key = l /\ request'[q].answer # "replayed"
               /\ batch'[l].rows = request'[q].content.leads
    <3>1. CASE l = k
      BY <1>3, <1>6, <3>1 DEF Goes
    <3>2. CASE l # k
      <4>1. batch'[l] = batch[l] /\ Exists(l)
        BY <1>6, <2>1, <3>2 DEF Exists
      <4>2. /\ batch[l].by \in Request \ {r} /\ request[batch[l].by].key = l
            /\ request[batch[l].by].pc \in {"enqueue", "answered"}
            /\ request[batch[l].by].answer # "replayed"
            /\ batch[l].rows = request[batch[l].by].content.leads
        BY <3>2, <4>1 DEF IInv, OwnerInv, Ended
      <4>3. request'[batch[l].by] = request[batch[l].by]
        BY <1>3, <4>2 DEF Goes
      <4> QED
        BY <4>1, <4>2, <4>3
    <3> QED
      BY <3>1, <3>2
  <2>2. ASSUME NEW q \in Request, request'[q].pc \in {"rows", "commit"}
        PROVE  batch'[request'[q].key].by = NoRequest
    <3>1. q # r /\ request'[q] = request[q]
      BY <1>3, <2>2 DEF Goes
    <3>2. /\ keyLock[request[q].key] = q /\ request[q].key \in Key
          /\ ~Exists(request[q].key)
      BY <2>2, <3>1 DEF IInv, LockInv, FormInv, OwnerInv, Sent
    <3> QED
      BY <1>2, <1>6, <3>1, <3>2 DEF Exists
  <2>3. ASSUME NEW q \in Request, request'[q].answer \in Success
        PROVE  /\ batch'[request'[q].key].by # NoRequest
               /\ request'[q].answer = "created" => batch'[request'[q].key].by = q
               /\ request'[q].pc = "answered" =>
                    batch'[request'[q].key].queued >= FirstPage(batch'[request'[q].key].rows)
    <3>1. CASE q = r
      BY <1>3, <1>6, <2>3, <3>1 DEF Goes, Success
    <3>2. CASE q # r
      <4>1. request'[q] = request[q]
        BY <1>3, <3>2 DEF Goes
      <4>2. /\ Exists(request[q].key) /\ request[q].key \in Key
            /\ request[q].answer = "created" => batch[request[q].key].by = q
            /\ request[q].pc = "answered" => PageQueued(request[q].key)
        BY <2>3, <4>1 DEF IInv, OwnerInv, FormInv, Sent, Ended, Success
      <4> QED
        BY <1>2, <1>6, <4>1, <4>2 DEF Exists, PageQueued
    <3> QED
      BY <3>1, <3>2
  <2> QED
    BY <2>1, <2>2, <2>3 DEF OwnerInv, Exists, Ended, PageQueued, FirstPage
<1> QED
  BY <1>7, <1>8, <1>9, <1>10, <1>11 DEF IInv

\* Every step keeps the invariant.
LEMMA NextInv == IInv /\ [Next]_vars => IInv'
<1> SUFFICES ASSUME IInv, [Next]_vars PROVE IInv'
  OBVIOUS
<1>1. CASE UNCHANGED vars
  BY <1>1 DEF vars, IInv, TypeOK, FormInv, LockInv, VersionInv, OwnerInv, Sent, Ended, Exists, Running, PageQueued, FirstPage
<1>2. CASE \E r \in Request, k \in Key, c \in Content : submit(k, r, c)
  BY <1>2, SubmitInv
<1>3. CASE \E r \in Request : Hear(r) \/ LoseConnection(r)
  BY <1>3, DialogInv
<1>4. CASE \E r \in Request : find(r) \/ findAgain(r) \/ findRaced(r) \/ check(r)
  BY <1>4, FindsInv
<1>5. CASE \E r \in Request : enqueueBatch(r)
  BY <1>5, EnqueueInv
<1>6. CASE \E r \in Request : begin(r)
  BY <1>6, BeginInv
<1>7. CASE \E r \in Request : updateSender(r)
  BY <1>7, UpdateInv
<1>8. CASE \E r \in Request : createBatch(r)
  BY <1>8, CreateBatchInv
<1>9. CASE \E r \in Request : createMany(r)
  BY <1>9, CreateManyInv
<1>10. CASE \E r \in Request : commit(r)
  BY <1>10, CommitInv
<1>11. CASE \E r \in Request : QueryFails(r)
  BY <1>11, QueryFailsInv
<1>12. CASE \E s \in Sender : Patch(s)
  BY <1>12, PatchInv
<1> QED
  BY <1>1, <1>2, <1>3, <1>4, <1>5, <1>6, <1>7, <1>8, <1>9, <1>10, <1>11, <1>12 DEF Next

\* The inductive invariant holds of every state of the API and its dialogs.
THEOREM InvCorrect == Spec => []IInv
  BY InitInv, NextInv, PTL DEF Spec

\* Every variable keeps its type, and only a running transaction holds a lock.
THEOREM TypeCorrect == Spec => []TypeOK
<1>1. IInv => TypeOK
  BY DEF IInv
<1> QED
  BY <1>1, InvCorrect, PTL

\* However requests with one key follow or overtake each other, whatever is lost
\* and whenever senders change, at most one is told that it created the batch, the
\* batch is its, with all its rows, and who is told of a replay finds a batch.
THEOREM AnswersCorrect == Spec => []AnswersAgree
<1>1. IInv => AnswersAgree
  <2> SUFFICES ASSUME IInv, NEW r \in Request, request[r].answer \in Success
               PROVE  LET b == batch[request[r].key] IN
                      /\ b.by \in Request
                      /\ b.rows = request[b.by].content.leads
                      /\ request[r].answer = "created" <=> b.by = r
    BY DEF AnswersAgree
  <2>1. request[r].key \in Key /\ Exists(request[r].key)
    BY DEF IInv, FormInv, OwnerInv, Sent, Ended, Success
  <2> QED
    BY <2>1 DEF IInv, OwnerInv, Success
<1> QED
  BY <1>1, InvCorrect, PTL

\* Whoever is answered with success, the one that created the batch or one that
\* repeats it, leaves a page's worth of its rows queued, or all of fewer, however
\* many requests queue them at once and wherever one of them fails.
THEOREM QueuedCorrect == Spec => []SuccessQueued
<1>1. IInv => SuccessQueued
  BY DEF IInv, OwnerInv, PageQueued, SuccessQueued
<1> QED
  BY <1>1, InvCorrect, PTL

\* The step at which a batch appears starts in a state in which its sender is
\* active, however long ago the transaction read the sender.
THEOREM ActiveCorrect == Spec => ActiveSender
<1> DEFINE Active ==
             \A k \in Key : batch[k].by = NoRequest /\ batch'[k].by # NoRequest =>
                sender[request[batch'[k].by].content.sender].active
<1>1. IInv /\ [Next]_vars => [Active]_vars
  <2> SUFFICES ASSUME IInv, [Next]_vars, NEW k \in Key,
                      batch[k].by = NoRequest, batch'[k].by # NoRequest
               PROVE  sender[request[batch'[k].by].content.sender].active
    OBVIOUS
  <2>1. CASE \E r \in Request : commit(r)
    <3>1. PICK r \in Request : commit(r)
      BY <2>1
    <3>2. batch'[k].by = r
      BY <3>1 DEF commit, IInv, TypeOK
    <3> QED
      BY <3>1, <3>2 DEF commit, IInv, VersionInv, Locking
  <2>2. CASE \E r \in Request : enqueueBatch(r)
    <3>1. PICK r \in Request : enqueueBatch(r)
      BY <2>2
    <3>2. PICK n : batch' = [batch EXCEPT ![request[r].key] = [batch[request[r].key] EXCEPT !.queued = n]]
      BY <3>1 DEF enqueueBatch
    <3>3. batch'[k].by = batch[k].by
      BY <3>2 DEF IInv, TypeOK
    <3> QED
      BY <3>3
  <2>3. CASE UNCHANGED batch
    BY <2>3
  <2> QED
    BY <2>1, <2>2, <2>3 DEF Next, vars, submit, Hear, LoseConnection, find, check, findAgain, findRaced,
       begin, updateSender, createBatch, createMany, QueryFails, Rollback, Patch
<1> QED
  BY <1>1, InvCorrect, PTL DEF Spec, ActiveSender

-----------------------------------------------------------------------------
(* BatchCreation implements BatchContract. *)

\* A dialog waits for one request at most, and has not been told of success.
HeardInv ==
    \A r \in Request : request[r].heard =>
        /\ Sent(r)
        /\ dialog[request[r].key] = "pending"
        /\ \A q \in Request : request[q].heard /\ request[q].key = request[r].key => q = r

\* A transaction has leads to insert, and what waits for the queue is a success.
StageInv ==
    \A r \in Request :
        /\ request[r].pc \in {"begin", "update"} \cup Locking => request[r].content.leads # 0
        /\ request[r].pc = "enqueue" => request[r].answer \in Success

PromiseInv == IInv /\ HeardInv /\ StageInv

\* What request r does by itself, apart from its dialog.
Serves(r) ==
    \/ find(r) \/ check(r) \/ findAgain(r) \/ findRaced(r) \/ enqueueBatch(r)
    \/ begin(r) \/ updateSender(r) \/ createBatch(r) \/ createMany(r) \/ commit(r) \/ QueryFails(r)

\* What a request's own step leaves alone.
Onward(r) ==
    /\ \A q \in Request \ {r} : request'[q] = request[q]
    /\ request'[r].key = request[r].key /\ request'[r].content = request[r].content
    /\ request'[r].heard = request[r].heard
    /\ request[r].pc \notin {"unsent", "answered"} /\ request'[r].pc # "unsent"
    /\ UNCHANGED dialog

\* Requests are functions to records, before and after every step.
LEMMA RequestTyped == IInv => request \in [Request -> RequestType]
  BY DEF IInv, TypeOK, RequestType, Pc, Answer

\* What the three ways to go on change.
LEMMA GoingOn ==
    ASSUME IInv, NEW r \in Request, request[r].pc \notin {"unsent", "answered"}, UNCHANGED dialog
    PROVE  /\ \A pc : pc # "unsent" /\ request' = Moved(r, pc) =>
                Onward(r) /\ request'[r].pc = pc /\ request'[r].answer = request[r].answer
           /\ \A answer : request' = Answered(r, answer) =>
                Onward(r) /\ request'[r].pc = "answered" /\ request'[r].answer = answer
           /\ \A answer : request' = Enqueueing(r, answer) =>
                Onward(r) /\ request'[r].pc = "enqueue" /\ request'[r].answer = answer
<1>1. request \in [Request -> RequestType]
  BY RequestTyped
<1>2. ASSUME NEW pc, pc # "unsent", request' = Moved(r, pc)
      PROVE  Onward(r) /\ request'[r].pc = pc /\ request'[r].answer = request[r].answer
  BY <1>1, <1>2 DEF Moved, Onward, RequestType
<1>3. ASSUME NEW answer, request' = Answered(r, answer)
      PROVE  Onward(r) /\ request'[r].pc = "answered" /\ request'[r].answer = answer
  BY <1>1, <1>3 DEF Answered, Onward, RequestType
<1>4. ASSUME NEW answer, request' = Enqueueing(r, answer)
      PROVE  Onward(r) /\ request'[r].pc = "enqueue" /\ request'[r].answer = answer
  BY <1>1, <1>4 DEF Enqueueing, Onward, RequestType
<1> QED
  BY <1>2, <1>3, <1>4

\* A query of a request ends it, finds its batch, or lets it go on.
LEMMA FindsStep ==
    ASSUME IInv, NEW r \in Request, find(r) \/ check(r) \/ findAgain(r) \/ findRaced(r)
    PROVE  /\ Onward(r)
           /\ \/ request'[r].pc = "answered" /\ request'[r].answer \in Failure
              \/ request'[r].pc = "enqueue" /\ request'[r].answer \in Success
              \/ request'[r].pc \in {"check", "findAgain"}
              \/ request'[r].pc = "begin" /\ request[r].content.leads # 0
           /\ UNCHANGED batch
<1>1. request[r].pc \notin {"unsent", "answered"} /\ UNCHANGED <<dialog, batch>>
  BY DEF find, check, findAgain, findRaced
<1>2. \/ request' = Enqueueing(r, "replayed")
      \/ request' \in {Answered(r, "rejected"), Answered(r, "internalError")}
      \/ request' \in {Moved(r, "check"), Moved(r, "findAgain")}
      \/ request' = Moved(r, "begin") /\ request[r].content.leads # 0
  BY DEF find, check, findAgain, findRaced
<1> QED
  BY <1>1, <1>2, GoingOn DEF Failure, Success

\* A statement of the transaction ends it, or lets it go on.
LEMMA StatementStep ==
    ASSUME IInv, NEW r \in Request, begin(r) \/ updateSender(r) \/ createBatch(r) \/ createMany(r)
    PROVE  /\ Onward(r)
           /\ \/ request'[r].pc = "answered" /\ request'[r].answer \in Failure
              \/ request'[r].pc = "raced"
              \/ /\ request[r].pc \in {"begin", "update"} \cup Locking
                 /\ request'[r].pc \in {"update"} \cup Locking
           /\ UNCHANGED batch
<1>1. request[r].pc \notin {"unsent", "answered"} /\ UNCHANGED <<dialog, batch>>
  BY DEF begin, updateSender, createBatch, createMany, Rollback
<1>2. request \in [Request -> RequestType]
  BY RequestTyped
<1>3. CASE begin(r) /\ request' # Answered(r, "senderNotFound")
  BY <1>1, <1>2, <1>3 DEF begin, Onward, RequestType
<1>4. CASE createMany(r)
  BY <1>1, <1>2, <1>4 DEF createMany, Onward, RequestType, Locking
<1>5. CASE request' \in {Answered(r, "senderNotFound"), Answered(r, "internalError")}
  BY <1>1, <1>5, GoingOn DEF Failure
<1>6. CASE updateSender(r) /\ request' = Moved(r, "insert")
  BY <1>1, <1>6, GoingOn DEF updateSender, Locking
<1>7. CASE createBatch(r) /\ request' \in {Moved(r, "raced"), Moved(r, "rows")}
  BY <1>1, <1>7, GoingOn DEF createBatch, Locking
<1> QED
  BY <1>3, <1>4, <1>5, <1>6, <1>7 DEF updateSender, createBatch

\* A page that is queued keeps the request, answers it with what it has, or fails it.
LEMMA EnqueueStep ==
    ASSUME IInv, NEW r \in Request, enqueueBatch(r)
    PROVE  /\ Onward(r)
           /\ \/ UNCHANGED request
              \/ request'[r].pc = "answered" /\ request'[r].answer \in {request[r].answer, "queueUnavailable"}
<1>1. /\ request[r].pc = "enqueue" /\ UNCHANGED dialog
      /\ request' \in {request, Moved(r, "answered"), Answered(r, "queueUnavailable")}
  BY DEF enqueueBatch
<1>2. CASE request' = request
  BY <1>1, <1>2 DEF Onward
<1>3. CASE request' \in {Moved(r, "answered"), Answered(r, "queueUnavailable")}
  BY <1>1, <1>3, GoingOn
<1> QED
  BY <1>1, <1>2, <1>3

\* A commit hands the request to the queue or ends it, a failed query ends it.
LEMMA LastStep ==
    ASSUME IInv, NEW r \in Request, commit(r) \/ QueryFails(r)
    PROVE  /\ Onward(r)
           /\ \/ /\ request'[r].pc = "answered" /\ request'[r].answer \in Failure
                 /\ UNCHANGED batch \/ commit(r)
              \/ request'[r].pc = "enqueue" /\ request'[r].answer = "created" /\ commit(r)
<1>1. request[r].pc \notin {"unsent", "answered"} /\ UNCHANGED dialog
  BY DEF commit, QueryFails, Rollback, QueryPc, Locking
<1>2. \/ /\ request' = Answered(r, "internalError")
         /\ UNCHANGED batch \/ commit(r)
      \/ commit(r) /\ request' = Enqueueing(r, "created")
  <2>1. CASE commit(r)
    BY <2>1 DEF commit
  <2>2. CASE QueryFails(r)
    BY <2>2 DEF QueryFails, Rollback
  <2> QED
    BY <2>1, <2>2
<1> QED
  BY <1>1, <1>2, GoingOn DEF Failure

\* A request keeps its key, its form and its dialog while it is served.
LEMMA ServesOnward ==
    ASSUME IInv, NEW r \in Request, Serves(r)
    PROVE  Onward(r)
BY FindsStep, StatementStep, EnqueueStep, LastStep DEF Serves

\* A dialog is not heard by a request of another, nor by a second one of its own.
LEMMA HeardStep ==
    ASSUME IInv, HeardInv, [Next]_vars
    PROVE  HeardInv'
<1>1. request \in [Request -> RequestType] /\ dialog \in [Key -> {"open", "pending", "closed"}]
  BY RequestTyped DEF IInv, TypeOK
<1>2. CASE UNCHANGED vars
  BY <1>2 DEF vars, HeardInv, Sent
<1>3. ASSUME NEW r \in Request, Serves(r) PROVE HeardInv'
  BY <1>3, ServesOnward DEF Onward, HeardInv, Sent
<1>4. ASSUME NEW r \in Request, NEW k \in Key, NEW c \in Content, submit(k, r, c) PROVE HeardInv'
  <2>1. /\ request'[r].key = k /\ request'[r].pc = "find"
        /\ \A q \in Request \ {r} : request'[q] = request[q]
        /\ dialog'[k] = "pending" /\ \A l \in Key \ {k} : dialog'[l] = dialog[l]
    BY <1>1, <1>4 DEF submit, RequestType
  <2>2. \A q \in Request \ {r} : request[q].heard => request[q].key \in Key /\ request[q].key # k
    BY <1>4 DEF submit, HeardInv, IInv, FormInv, Sent
  <2> QED
    BY <2>1, <2>2 DEF HeardInv, Sent
<1>5. ASSUME NEW r \in Request, Hear(r) \/ LoseConnection(r) PROVE HeardInv'
  <2>1. /\ request'[r].heard = FALSE /\ request[r].heard
        /\ \A q \in Request \ {r} : request'[q] = request[q]
    BY <1>1, <1>5 DEF Hear, LoseConnection, RequestType
  <2>2. \A q \in Request \ {r} : request[q].heard => request[q].key \in Key /\ request[q].key # request[r].key
    BY <2>1 DEF HeardInv, IInv, FormInv, Sent
  <2>3. \A l \in Key : l # request[r].key => dialog'[l] = dialog[l]
    BY <1>1, <1>5 DEF Hear, LoseConnection
  <2> QED
    BY <2>1, <2>2, <2>3 DEF HeardInv, Sent
<1>6. ASSUME NEW s \in Sender, Patch(s) PROVE HeardInv'
  BY <1>6 DEF Patch, HeardInv, Sent
<1> QED
  BY <1>2, <1>3, <1>4, <1>5, <1>6 DEF Next, Serves

\* Only a form with leads gets a transaction, and only a success is enqueued.
LEMMA StageStep ==
    ASSUME IInv, StageInv, [Next]_vars
    PROVE  StageInv'
<1>1. request \in [Request -> RequestType]
  BY RequestTyped
<1> DEFINE Staged(q) == /\ request[q].pc \in {"begin", "update"} \cup Locking => request[q].content.leads # 0
                        /\ request[q].pc = "enqueue" => request[q].answer \in Success
<1>2. ASSUME NEW r \in Request, Onward(r), Staged(r)' PROVE StageInv'
  BY <1>2 DEF Onward, StageInv
<1>3. ASSUME NEW r \in Request, Serves(r) PROVE StageInv'
  <2>1. Onward(r) /\ Staged(r)
    BY <1>3, ServesOnward DEF StageInv
  <2>2. CASE find(r) \/ check(r) \/ findAgain(r) \/ findRaced(r)
    BY <2>1, <2>2, <1>2, FindsStep DEF Onward, Locking
  <2>3. CASE begin(r) \/ updateSender(r) \/ createBatch(r) \/ createMany(r)
    BY <2>1, <2>3, <1>2, StatementStep DEF Onward, Locking
  <2>4. CASE commit(r) \/ QueryFails(r)
    BY <2>1, <2>4, <1>2, LastStep DEF Onward, Locking, Success
  <2>5. CASE enqueueBatch(r)
    BY <2>1, <2>5, <1>2, EnqueueStep DEF Onward, Locking, StageInv
  <2> QED
    BY <1>3, <2>2, <2>3, <2>4, <2>5 DEF Serves
<1>4. ASSUME NEW r \in Request, NEW k \in Key, NEW c \in Content, submit(k, r, c) PROVE StageInv'
  BY <1>1, <1>4 DEF submit, StageInv, RequestType, Locking
<1>5. ASSUME NEW r \in Request, Hear(r) \/ LoseConnection(r) PROVE StageInv'
  BY <1>1, <1>5 DEF Hear, LoseConnection, StageInv, RequestType
<1>6. ASSUME UNCHANGED request PROVE StageInv'
  BY <1>6 DEF StageInv
<1> QED
  BY <1>3, <1>4, <1>5, <1>6 DEF Next, Serves, Patch, vars

\* The strengthened invariant holds of every state.
LEMMA PromiseReachable == Spec => []PromiseInv
<1>1. Init => PromiseInv
  BY InitInv DEF Init, PromiseInv, HeardInv, StageInv, Locking
<1>2. PromiseInv /\ [Next]_vars => PromiseInv'
  BY NextInv, HeardStep, StageStep DEF PromiseInv
<1> QED
  BY <1>1, <1>2, PTL DEF Spec

\* What the contract sees of the requests.
Asked == [r \in Request |-> [key |-> request[r].key, content |-> request[r].content, answer |-> Outcome(r)]]

\* The initial states map to those of the contract.
LEMMA ContractInit == Init => Contract!Init
  BY DEF Init, Contract!Init, Outcome, NoBatch, Contract!NoBatch

\* A request's own step changes no more than its answer, which was pending.
LEMMA OutcomeStep ==
    ASSUME NEW r \in Request, Onward(r)
    PROVE  /\ Asked[r].answer = "pending"
           /\ Asked' = [Asked EXCEPT ![r] = [@ EXCEPT !.answer = Outcome(r)']]
<1>1. \A q \in Request \ {r} : Asked'[q] = Asked[q]
  BY DEF Onward, Asked, Outcome
<1>2. Asked'[r] = [Asked[r] EXCEPT !.answer = Outcome(r)']
  BY DEF Onward, Asked
<1>3. Asked[r].answer = "pending"
  BY DEF Onward, Outcome, Asked
<1>4. Asked = [q \in Request |-> Asked[q]] /\ Asked' = [q \in Request |-> Asked'[q]]
  BY DEF Asked
<1> QED
  BY <1>1, <1>2, <1>3, <1>4

\* A request that is not answered yet is a stutter, if it leaves the batches alone.
LEMMA PendingStutters ==
    ASSUME NEW r \in Request, Onward(r), request'[r].pc # "answered"
    PROVE  Asked' = Asked
<1>1. Outcome(r)' = "pending"
  BY DEF Onward, Outcome
<1>2. Asked[r] = [Asked[r] EXCEPT !.answer = "pending"]
  BY OutcomeStep DEF Asked
<1>3. Asked' = [Asked EXCEPT ![r] = Asked[r]]
  BY <1>1, <1>2, OutcomeStep
<1> QED
  BY <1>3 DEF Asked

\* A request that is answered with an error fails.
LEMMA FailureMapped ==
    ASSUME NEW r \in Request, Onward(r),
           request'[r].pc = "answered", request'[r].answer \in Failure
    PROVE  /\ Asked' = [Asked EXCEPT ![r] = [@ EXCEPT !.answer = "failed"]]
           /\ UNCHANGED batch => Contract!Fail(r)
<1>1. Outcome(r)' = "failed"
  BY DEF Outcome, Failure, Success
<1>2. Asked' = [Asked EXCEPT ![r] = [@ EXCEPT !.answer = "failed"]]
  BY <1>1, OutcomeStep
<1>3. UNCHANGED {k \in Key : dialog[k] = "closed"}
  BY DEF Onward
<1> QED
  BY <1>2, <1>3, OutcomeStep DEF Contract!Fail, Contract!Answer, Asked

\* A page that is queued is one of the contract's; with the last one, the answer is
\* a success with a page of queued rows; and a failure may leave a part queued.
LEMMA EnqueueMapped ==
    ASSUME PromiseInv, NEW r \in Request, enqueueBatch(r)
    PROVE  Contract!Queue(r) \/ Contract!Succeed(r) \/ Contract!Fail(r)
<1>1. /\ request[r].answer \in Success /\ Exists(request[r].key)
      /\ Onward(r) /\ request \in [Request -> RequestType]
  BY EnqueueStep, RequestTyped DEF enqueueBatch, PromiseInv, StageInv, IInv, OwnerInv
<1>2. UNCHANGED {k \in Key : dialog[k] = "closed"}
  BY <1>1 DEF Onward
<1>3. Asked[r].key = request[r].key /\ Asked[r].answer = "pending"
  BY <1>1, OutcomeStep DEF Asked
<1>4. PICK n \in batch[request[r].key].queued..batch[request[r].key].rows :
        /\ batch' = [batch EXCEPT ![request[r].key] = [batch[request[r].key] EXCEPT !.queued = n]]
        /\ \/ n >= FirstPage(batch[request[r].key].rows) /\ request' \in {request, Moved(r, "answered")}
           \/ request' = Answered(r, "queueUnavailable")
  BY DEF enqueueBatch
<1>5. CASE request' = request
  <2>1. Asked' = Asked
    BY <1>5 DEF Asked, Outcome
  <2> QED
    BY <1>1, <1>2, <1>3, <1>4, <2>1
    DEF Contract!Queue, Contract!Queueing, Contract!Exists, Exists, Asked
<1>6. CASE n >= FirstPage(batch[request[r].key].rows) /\ request' = Moved(r, "answered")
  <2>1. request'[r].pc = "answered" /\ request'[r].answer = request[r].answer
    BY <1>1, <1>6 DEF Moved, RequestType
  <2>2. Outcome(r)' = IF batch[request[r].key].by = r THEN "created" ELSE "replayed"
    <3>1. Outcome(r)' = request[r].answer
      BY <1>1, <2>1 DEF Outcome
    <3>2. /\ request[r].answer = "created" => batch[request[r].key].by = r
          /\ batch[request[r].key].by = r => request[r].answer # "replayed"
      BY <1>1 DEF PromiseInv, IInv, OwnerInv, FormInv, Sent, enqueueBatch
    <3> QED
      BY <1>1, <3>1, <3>2 DEF Success
  <2>3. Asked' = [Asked EXCEPT ![r] = [@ EXCEPT !.answer = Outcome(r)']]
    BY <1>1, OutcomeStep
  <2> QED
    BY <1>1, <1>2, <1>3, <1>4, <1>6, <2>2, <2>3
    DEF Contract!Succeed, Contract!Answer, Contract!Queueing, Contract!FirstPage, FirstPage,
        Contract!Exists, Exists, Asked
<1>7. CASE request' = Answered(r, "queueUnavailable")
  <2>1. request'[r].pc = "answered" /\ request'[r].answer \in Failure
    BY <1>1, <1>7 DEF Answered, RequestType, Failure
  <2>2. Asked' = [Asked EXCEPT ![r] = [@ EXCEPT !.answer = "failed"]]
    BY <1>1, <2>1, FailureMapped
  <2> QED
    BY <1>1, <1>2, <1>3, <1>4, <2>2
    DEF Contract!Fail, Contract!Answer, Contract!Queueing, Contract!Exists, Exists, Asked
<1> QED
  BY <1>4, <1>5, <1>6, <1>7

\* A commit creates the batch of a key that had none, with every row of its form.
LEMMA CommitMapped ==
    ASSUME PromiseInv, NEW r \in Request, commit(r), Onward(r),
           \/ request'[r].pc = "enqueue"
           \/ request'[r].pc = "answered" /\ request'[r].answer \in Failure
    PROVE  Contract!Create(r)
<1>1. /\ ~Exists(request[r].key) /\ request[r].content.leads # 0
      /\ request[r].rows = request[r].content.leads
  BY DEF commit, PromiseInv, StageInv, IInv, OwnerInv, FormInv, Locking
<1>2. Asked' \in {Asked, [Asked EXCEPT ![r] = [@ EXCEPT !.answer = "failed"]]}
  BY PendingStutters, FailureMapped
<1>3. UNCHANGED {k \in Key : dialog[k] = "closed"}
  BY DEF Onward
<1>4. /\ Asked[r].key = request[r].key /\ Asked[r].content = request[r].content
  BY DEF Asked
<1>5. batch' = [batch EXCEPT ![request[r].key] =
                  [by |-> r, rows |-> request[r].content.leads, queued |-> 0]]
  BY <1>1 DEF commit
<1> QED
  BY <1>1, <1>2, <1>3, <1>4, <1>5, OutcomeStep
  DEF Contract!Create, Contract!Answer, Contract!Exists, Exists, Asked

\* A form that is sent is a request of the contract, since its dialog is open.
LEMMA SubmitMapped ==
    ASSUME PromiseInv, NEW r \in Request, NEW k \in Key, NEW c \in Content, submit(k, r, c)
    PROVE  Contract!Ask(r, k, c)
<1>1. request \in [Request -> RequestType] /\ dialog \in [Key -> {"open", "pending", "closed"}]
  BY RequestTyped DEF PromiseInv, IInv, TypeOK
<1>2. /\ request'[r].key = k /\ request'[r].content = c /\ request'[r].pc = "find"
      /\ \A q \in Request \ {r} : request'[q] = request[q]
  BY <1>1 DEF submit, RequestType
<1>3. Asked' = [Asked EXCEPT ![r] = [key |-> k, content |-> c, answer |-> "pending"]]
  BY <1>2 DEF Asked, Outcome
<1>4. Asked[r].answer = "none"
  BY DEF submit, Asked, Outcome
<1>5. UNCHANGED {l \in Key : dialog[l] = "closed"} /\ k \notin {l \in Key : dialog[l] = "closed"}
  BY <1>1 DEF submit
<1> QED
  BY <1>3, <1>4, <1>5 DEF Contract!Ask, Asked, submit

\* A dialog that hears of a success is told; one that hears of an error, or of
\* nothing, may ask again, since it was waiting.
LEMMA HeardMapped ==
    ASSUME PromiseInv, NEW r \in Request, Hear(r) \/ LoseConnection(r)
    PROVE  Contract!Tell(r) \/ UNCHANGED Contract!vars
<1>1. request \in [Request -> RequestType] /\ dialog \in [Key -> {"open", "pending", "closed"}]
  BY RequestTyped DEF PromiseInv, IInv, TypeOK
<1>2. request[r].heard /\ request[r].key \in Key /\ dialog[request[r].key] = "pending"
  BY DEF Hear, LoseConnection, PromiseInv, HeardInv, IInv, FormInv
<1>3. Asked' = Asked
  BY <1>1 DEF Hear, LoseConnection, RequestType, Asked, Outcome
<1>4. CASE dialog' = [dialog EXCEPT ![request[r].key] = "open"]
  <2>1. UNCHANGED {k \in Key : dialog[k] = "closed"}
    BY <1>1, <1>2, <1>4
  <2> QED
    BY <1>3, <2>1 DEF Contract!vars, Asked, Hear, LoseConnection
<1>5. CASE /\ request[r].pc = "answered" /\ request[r].answer \in Success
           /\ dialog' = [dialog EXCEPT ![request[r].key] = "closed"]
  <2>1. {k \in Key : dialog'[k] = "closed"} = {k \in Key : dialog[k] = "closed"} \cup {Asked[r].key}
    BY <1>1, <1>2, <1>5 DEF Asked
  <2>2. Asked[r].answer \in {"created", "replayed"}
    BY <1>5 DEF Asked, Outcome, Success
  <2> QED
    BY <1>3, <2>1, <2>2 DEF Contract!Tell, Asked, Hear, LoseConnection
<1> QED
  BY <1>4, <1>5 DEF Hear, LoseConnection

\* Every step of the API and its dialogs is a step of the contract or a stutter.
LEMMA ContractNext ==
    PromiseInv /\ [Next]_vars => [Contract!Next]_(Contract!vars)
<1> SUFFICES ASSUME PromiseInv, [Next]_vars
             PROVE  Contract!Next \/ UNCHANGED Contract!vars
  OBVIOUS
<1>1. ASSUME NEW r \in Request, NEW k \in Key, NEW c \in Content, submit(k, r, c) PROVE Contract!Next
  BY <1>1, SubmitMapped DEF Contract!Next
<1>2. ASSUME NEW r \in Request, Hear(r) \/ LoseConnection(r)
      PROVE  Contract!Next \/ UNCHANGED Contract!vars
  BY <1>2, HeardMapped DEF Contract!Next
<1>3. ASSUME NEW r \in Request, Onward(r), request'[r].pc # "answered", UNCHANGED batch
      PROVE  UNCHANGED Contract!vars
  BY <1>3, PendingStutters DEF Contract!vars, Asked, Onward
<1>4. ASSUME NEW r \in Request, Onward(r), UNCHANGED batch,
             request'[r].pc = "answered", request'[r].answer \in Failure
      PROVE  Contract!Next
  BY <1>4, FailureMapped DEF Contract!Next
<1>5. ASSUME NEW r \in Request, find(r) \/ check(r) \/ findAgain(r) \/ findRaced(r)
      PROVE  Contract!Next \/ UNCHANGED Contract!vars
  BY <1>3, <1>4, <1>5, FindsStep DEF PromiseInv
<1>6. ASSUME NEW r \in Request, begin(r) \/ updateSender(r) \/ createBatch(r) \/ createMany(r)
      PROVE  Contract!Next \/ UNCHANGED Contract!vars
  BY <1>3, <1>4, <1>6, StatementStep DEF PromiseInv, Locking
<1>7. ASSUME NEW r \in Request, commit(r) PROVE Contract!Next
  <2>1. /\ Onward(r)
        /\ \/ request'[r].pc = "enqueue"
           \/ request'[r].pc = "answered" /\ request'[r].answer \in Failure
    BY <1>7, LastStep DEF PromiseInv
  <2> QED
    BY <1>7, <2>1, CommitMapped DEF Contract!Next
<1>8. ASSUME NEW r \in Request, QueryFails(r) \/ enqueueBatch(r) PROVE Contract!Next
  <2>2. CASE enqueueBatch(r)
    BY <2>2, EnqueueMapped DEF Contract!Next
  <2>3. CASE QueryFails(r)
    <3>1. Onward(r) /\ UNCHANGED batch
      BY <2>3, LastStep DEF PromiseInv, QueryFails, Rollback
    <3>2. request'[r].pc = "answered" /\ request'[r].answer = "internalError"
      BY <2>3, GoingOn DEF PromiseInv, QueryFails, Rollback, QueryPc, Locking
    <3> QED
      BY <1>4, <3>1, <3>2 DEF Failure
  <2> QED
    BY <1>8, <2>2, <2>3
<1>9. CASE UNCHANGED <<dialog, request, batch>>
  BY <1>9 DEF Contract!vars, Outcome
<1> QED
  BY <1>1, <1>2, <1>5, <1>6, <1>7, <1>8, <1>9 DEF Next, Patch, vars

\* For any dialogs, requests, senders, pages and faults, a key gets one batch, at
\* once with all its rows, that stays; success is answered when a page of its rows
\* is queued, or all of fewer; and a dialog is told of it only then.
THEOREM BatchContractImplemented == Spec => ImplementsBatchContract
  BY ContractInit, ContractNext, PromiseReachable, PTL
  DEF Spec, ImplementsBatchContract, Contract!Spec
=============================================================================

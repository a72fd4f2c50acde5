----------------------- MODULE EmailProcessor_proofs -----------------------
(***************************************************************************)
(* Proofs about EmailProcessor, for any number of emails, batches and      *)
(* slots, any bounds and any set of faults.                                *)
(***************************************************************************)
EXTENDS EmailProcessor, TLAPS

(***************************************************************************)
(* Types.  A slot that runs the handler also knows its email.              *)
(***************************************************************************)
RunPc == {"send"} \cup QueryPc \cup SettledPc

TypeInv ==
    /\ TypeOK
    /\ \A s \in Slot : slot[s].pc \in RunPc => slot[s].email \in Email

USE BatchAssumption, NullAssumption, BoundAssumption
USE DEF Claimable, Unsuccessful, terminalStatuses, Status, Outcome, CompletionPc, SettledPc,
        StartupPc, QueryPc, RunPc

\* Initially every variable has its type.
LEMMA TypeInit == Init => TypeInv
<1> SUFFICES ASSUME Init PROVE TypeInv
  OBVIOUS
<1>1. ASSUME NEW pc \in {"stopped", "idle"}
      PROVE  FreshLocal(pc) \in Local /\ FreshLocal(pc).pc \notin RunPc
  BY DEF FreshLocal, Local
<1>2. slot \in [Slot -> Local] /\ \A s \in Slot : slot[s].pc \notin RunPc
  <2>1. slot \in [Slot -> {FreshLocal("stopped"), FreshLocal("idle")}]
    BY DEF Init
  <2> QED
    BY <1>1, <2>1
<1>3. posting \in [Batch -> Posting]
  BY DEF Init, FreshPosting, Posting
<1>4. row \in [Email -> Row]
  BY DEF Init, Row
<1>5. job \in [Email -> Job]
  BY DEF Init, Job, JobState, AbsentJob
<1> QED
  BY <1>2, <1>3, <1>4, <1>5 DEF Init, TypeInv, TypeOK

\* A page of the walk, and the cursor it leaves, are rows.
LEMMA PageType ==
    ASSUME NEW S \in SUBSET Email, NEW c
    PROVE  Page(S, c) \in SUBSET Email /\ NextCursor(S) \in SUBSET Email
  BY DEF Page, ClaimableRows, NextCursor

\* The local state a slot starts a phase with is well typed.
LEMMA FreshLocalType ==
    ASSUME NEW pc \in {"idle", "load", "stopped"}
    PROVE  FreshLocal(pc) \in Local /\ FreshLocal(pc).pc = pc
  BY DEF FreshLocal, Local

\* What a rejected await leaves of a handler is well typed.
LEMMA ThrownType ==
    ASSUME TypeInv, NEW s \in Slot, slot[s].pc \in QueryPc
    PROVE  /\ Thrown(s) \in Local
           /\ Thrown(s).email = slot[s].email
           /\ Thrown(s).token = slot[s].token
           /\ Thrown(s).pc \in {"recordFailure", "error"}
<1>1. slot[s] \in Local
  BY DEF TypeInv, TypeOK
<1>2. CASE Caught(s)
  BY <1>1, <1>2 DEF Thrown, Local
<1>3. CASE ~Caught(s)
  BY <1>1, <1>3 DEF Thrown, Local
<1> QED
  BY <1>2, <1>3

\* One more local state keeps the array of local states well typed.
LEMMA SlotUpdate ==
    ASSUME TypeInv, NEW s \in Slot, NEW l \in Local,
           l.pc \in RunPc => l.email \in Email,
           slot' = [slot EXCEPT ![s] = l]
    PROVE  /\ slot' \in [Slot -> Local]
           /\ \A t \in Slot : slot'[t].pc \in RunPc => slot'[t].email \in Email
  BY DEF TypeInv, TypeOK

\* A step to another place in the handler, by the slot itself.
LEMMA ProceedType ==
    ASSUME TypeInv, NEW s \in Slot, NEW pc \in {"idle", "send"} \cup QueryPc \cup SettledPc \cup StartupPc,
           slot[s].pc \in RunPc \/ pc \notin RunPc,
           Proceed(s, pc)
    PROVE  /\ slot' \in [Slot -> Local]
           /\ \A t \in Slot : slot'[t].pc \in RunPc => slot'[t].email \in Email
<1> DEFINE l == [slot[s] EXCEPT !.pc = pc]
<1>1. slot[s] \in Local /\ (slot[s].pc \in RunPc => slot[s].email \in Email)
  BY DEF TypeInv, TypeOK
<1>2. l \in Local /\ l.pc = pc /\ l.email = slot[s].email
  BY <1>1 DEF Local
<1>3. slot' = [slot EXCEPT ![s] = l]
  BY DEF Proceed, TypeInv, TypeOK
<1> QED
  BY <1>1, <1>2, <1>3, SlotUpdate

\* After a page has been added the worker is idle or reads the next one.
LEMMA AddPageLocal ==
    ASSUME TypeInv, NEW s \in Slot, AddPage(s)
    PROVE  \E l \in Local : l.pc \in {"idle", "readPage"} /\ slot' = [slot EXCEPT ![s] = l]
<1>1. FreshLocal("idle") \in Local /\ FreshLocal("idle").pc = "idle"
  BY DEF FreshLocal, Local
<1>2. NextCursor(slot[s].page) \in SUBSET Email
  <2>1. slot[s].page \in SUBSET Email
    BY DEF TypeInv, TypeOK, Local
  <2> QED
    BY <2>1, PageType
<1>3. ASSUME NEW e \in Email
      PROVE  /\ [FreshLocal("readPage") EXCEPT !.cursor = e] \in Local
             /\ [FreshLocal("readPage") EXCEPT !.cursor = e].pc = "readPage"
  <2>1. FreshLocal("readPage") \in Local /\ FreshLocal("readPage").pc = "readPage"
    BY DEF FreshLocal, Local
  <2> QED
    BY <2>1 DEF Local
<1> QED
  BY <1>1, <1>2, <1>3 DEF AddPage

SlotType == 
    /\ slot \in [Slot -> Local]
    /\ \A t \in Slot : slot[t].pc \in RunPc => slot[t].email \in Email

\* The answer of a transaction, received or lost, leaves a well-typed handler.
LEMMA CommittedType ==
    ASSUME TypeInv, NEW s \in Slot, slot[s].pc \in QueryPc,
           NEW next \in Local, next.email = slot[s].email,
           Committed(s, next)
    PROVE  SlotType'
<1>1. slot[s].email \in Email
  BY DEF TypeInv
<1>2. PICK l \in {next, Thrown(s)} : slot' = [slot EXCEPT ![s] = l]
  BY DEF Committed
<1>3. l \in Local /\ l.email \in Email
  BY <1>1, <1>2, ThrownType
<1> QED
  BY <1>2, <1>3, SlotUpdate DEF SlotType

\* BullMQ's jobs stay well typed whatever set of rows is added.
LEMMA AddBulkType ==
    ASSUME TypeInv, NEW S, AddBulk(S)
    PROVE  job' \in [Email -> Job]
  BY DEF AddBulk, TypeInv, TypeOK, AbsentJob, Job, JobState

\* A numbered attempt keeps rows and attempts well typed.
LEMMA AttemptedType ==
    ASSUME TypeInv, NEW e \in Email, NEW r \in Row, NEW outcome \in Outcome,
           r.attemptCount = row[e].attemptCount, r.attemptCount < AttemptBound,
           Attempted(e, r, outcome)
    PROVE  /\ row' \in [Email -> Row]
           /\ attempt' \in [Email -> [1..AttemptBound -> Outcome]]
<1>1. row[e] \in Row /\ attempt[e] \in [1..AttemptBound -> Outcome]
  BY DEF TypeInv, TypeOK
<1>2. [r EXCEPT !.attemptCount = @ + 1] \in Row
  BY DEF Row
<1>3. row' \in [Email -> Row]
  BY <1>2 DEF Attempted, TypeInv, TypeOK
<1>4. [attempt[e] EXCEPT ![row[e].attemptCount + 1] = outcome] \in [1..AttemptBound -> Outcome]
  BY <1>1
<1>5. attempt' \in [Email -> [1..AttemptBound -> Outcome]]
  BY <1>4 DEF Attempted, TypeInv, TypeOK
<1> QED
  BY <1>3, <1>5

\* The row an outcome leaves behind is well typed.
LEMMA RowUpdate ==
    ASSUME NEW r \in Row, NEW status \in Status, NEW due \in BOOLEAN
    PROVE  [r EXCEPT !.status = status, !.token = 0, !.due = due] \in Row
<1>1. 0 \in 0..AttemptBound
  OBVIOUS
<1> QED
  BY <1>1 DEF Row

\* A recorded outcome keeps rows and attempts well typed.
LEMMA OutcomesType ==
    ASSUME TypeInv, NEW s \in Slot, slot[s].pc \in RunPc,
           NEW status \in Status, NEW due \in BOOLEAN, NEW outcome \in Outcome,
           Outcomes(s, status, due, outcome)
    PROVE  /\ row' \in [Email -> Row]
           /\ attempt' \in [Email -> [1..AttemptBound -> Outcome]]
<1> DEFINE e == slot[s].email
           r == [row[e] EXCEPT !.status = status, !.token = 0, !.due = due]
<1>1. e \in Email /\ row[e] \in Row /\ attempt[e] \in [1..AttemptBound -> Outcome]
  BY DEF TypeInv, TypeOK
<1>2. r \in Row
  BY <1>1, RowUpdate
<1>3. row' = row \/ row' = [row EXCEPT ![e] = r]
  <2>1. row \in [Email -> Row]
    BY DEF TypeInv, TypeOK
  <2>2. CASE OwnsClaim(s)
    BY <1>1, <2>1, <2>2 DEF Outcomes
  <2>3. CASE ~OwnsClaim(s)
    BY <2>3 DEF Outcomes
  <2> QED
    BY <2>2, <2>3
<1>4. row' \in [Email -> Row]
  BY <1>2, <1>3 DEF TypeInv, TypeOK
<1>5. [attempt[e] EXCEPT ![slot[s].token] = outcome] \in [1..AttemptBound -> Outcome]
  BY <1>1
<1>6. attempt' \in [Email -> [1..AttemptBound -> Outcome]]
  BY <1>5 DEF Outcomes, TypeInv, TypeOK
<1> QED
  BY <1>4, <1>6

\* What is left of a job after a run is well typed.
LEMMA AfterRunType ==
    ASSUME NEW s \in Slot, slot[s] \in Local, slot[s].pc \in SettledPc, NEW j \in Job
    PROVE  AfterRun(s, j) \in Job
<1>1. slot[s].made + 1 \in Nat /\ slot[s].made \in Nat
  BY DEF Local
<1>2. \A state \in JobState : [j EXCEPT !.state = state, !.holder = NoSlot] \in Job
  BY DEF Job
<1>3. \A state \in JobState :
        [j EXCEPT !.state = state, !.holder = NoSlot, !.made = slot[s].made + 1] \in Job
  BY <1>1 DEF Job
<1>4. CASE slot[s].pc = "complete"
  BY <1>2, <1>4 DEF AfterRun, JobState
<1>5. CASE slot[s].pc = "unrecoverable"
  BY <1>2, <1>5 DEF AfterRun, JobState
<1>6. CASE slot[s].pc = "delay"
  BY <1>2, <1>6 DEF AfterRun, JobState
<1>7. CASE slot[s].pc = "error"
  BY <1>3, <1>7 DEF AfterRun, JobState
<1> QED
  BY <1>4, <1>5, <1>6, <1>7

\* Every step of the processor keeps every variable in its type.
LEMMA TypeNext == TypeInv /\ [Next]_vars => TypeInv'
<1> SUFFICES ASSUME TypeInv, [Next]_vars
             PROVE  TypeInv'
  OBVIOUS
<1> DEFINE RowType == /\ row \in [Email -> Row]
                      /\ attempt \in [Email -> [1..AttemptBound -> Outcome]]
           RestType == /\ batch \in [Batch -> {"SCHEDULED", "COMPLETED", "PARTIALLY_FAILED"}]
                       /\ posting \in [Batch -> Posting]
                       /\ accepted \in [Email -> Nat]
           JobType == job \in [Email -> Job]
<1>1. RowType /\ RestType /\ JobType /\ SlotType
  BY DEF TypeInv, TypeOK, SlotType
<1>2. SUFFICES RowType' /\ RestType' /\ JobType' /\ SlotType'
  BY DEF TypeInv, TypeOK, SlotType
<1>3. ASSUME NEW s \in Slot, Handler(s) PROVE RowType' /\ RestType' /\ JobType' /\ SlotType'
  <2>0. slot[s] \in Local /\ (slot[s].pc \in RunPc => slot[s].email \in Email)
    BY <1>1 DEF SlotType
  <2>1. CASE Load(s)
    <3> DEFINE r == row[slot[s].email]
               pc == IF r.status \in terminalStatuses \cup {"PROCESSING"} THEN "complete"
                     ELSE IF ~r.due THEN "delay" ELSE "reserve"
    <3>1. pc \in {"complete", "delay", "reserve"} /\ Proceed(s, pc) /\ slot[s].pc = "load"
      BY <2>1 DEF Load
    <3> HIDE DEF pc
    <3>2. SlotType'
      BY <3>1, ProceedType DEF SlotType
    <3> QED
      BY <1>1, <2>1, <3>2 DEF Load
  <2>2. CASE Admit(s) \/ Deny(s)
    BY <1>1, <2>2, ProceedType DEF Admit, Deny, SlotType
  <2>3. CASE recordRateLimit(s)
    <3> DEFINE e == slot[s].email
               r == [row[e] EXCEPT !.status = "RATE_LIMITED", !.due = FALSE]
               next == [slot[s] EXCEPT !.pc = "delay"]
    <3>1. slot[s].pc = "rateLimit" /\ e \in Email /\ row[e] \in Row
      BY <1>1, <2>0, <2>3 DEF recordRateLimit
    <3>2. r \in Row /\ r.attemptCount = row[e].attemptCount
      BY <3>1 DEF Row
    <3>3. RowType'
      <4>1. CASE row[e].status \in Claimable
        <5>1. Attempted(e, r, "RATE_LIMITED") /\ r.attemptCount < AttemptBound
          BY <2>3, <3>2, <4>1 DEF recordRateLimit
        <5> QED
          BY <3>1, <3>2, <5>1, AttemptedType
      <4>2. CASE row[e].status \notin Claimable
        BY <1>1, <2>3, <4>2 DEF recordRateLimit
      <4> QED
        BY <4>1, <4>2
    <3>4. next \in Local /\ next.email = slot[s].email
      BY <2>0 DEF Local
    <3>5. Committed(s, next)
      BY <2>3 DEF recordRateLimit
    <3>6. SlotType'
      BY <3>1, <3>4, <3>5, CommittedType
    <3> QED
      BY <1>1, <2>3, <3>3, <3>6 DEF recordRateLimit
  <2>4. CASE claimEmail(s)
    <3> DEFINE e == slot[s].email
               n == row[e].attemptCount + 1
               r == [row[e] EXCEPT !.status = "PROCESSING", !.token = n]
               next == [slot[s] EXCEPT !.pc = "send", !.token = n]
               done == [slot[s] EXCEPT !.pc = "complete"]
    <3>1. slot[s].pc = "claim" /\ e \in Email /\ row[e] \in Row
      BY <1>1, <2>0, <2>4 DEF claimEmail
    <3>2. CASE ClaimGuard(row[e])
      <4>1. n <= AttemptBound /\ Attempted(e, r, "CLAIMED") /\ Committed(s, next)
        BY <2>4, <3>2 DEF claimEmail
      <4>2. n \in 1..AttemptBound /\ n \in 0..AttemptBound /\ row[e].attemptCount < AttemptBound
        BY <3>1, <4>1 DEF Row
      <4>3. r \in Row /\ r.attemptCount = row[e].attemptCount
        BY <3>1, <4>2 DEF Row
      <4>4. next \in Local /\ next.email = slot[s].email
        BY <2>0, <4>2 DEF Local
      <4>5. RowType'
        BY <3>1, <4>1, <4>2, <4>3, AttemptedType
      <4>6. SlotType'
        BY <3>1, <4>1, <4>4, CommittedType
      <4> QED
        BY <1>1, <2>4, <4>5, <4>6 DEF claimEmail
    <3>3. CASE ~ClaimGuard(row[e])
      <4>1. Committed(s, done) /\ RowType'
        BY <1>1, <2>4, <3>3 DEF claimEmail
      <4>2. done \in Local /\ done.email = slot[s].email
        BY <2>0 DEF Local
      <4>3. SlotType'
        BY <3>1, <4>1, <4>2, CommittedType
      <4> QED
        BY <1>1, <2>4, <4>1, <4>3 DEF claimEmail
    <3> QED
      BY <3>2, <3>3
  <2>5. CASE SendAccepted(s) \/ SendRefused(s)
    <3>1. slot[s].pc = "send" /\ slot[s].email \in Email
      BY <2>0, <2>5 DEF SendAccepted, SendRefused
    <3>2. ASSUME NEW f \in {"permanent", "transient", "unknown"}, Classified(s, f) PROVE SlotType'
      <4> DEFINE l == [slot[s] EXCEPT !.pc = "recordFailure", !.failure = f]
      <4>1. l \in Local /\ l.email = slot[s].email
        BY <2>0 DEF Local
      <4>2. slot' = [slot EXCEPT ![s] = l]
        BY <1>1, <3>2 DEF Classified, SlotType
      <4> QED
        BY <3>1, <4>1, <4>2, SlotUpdate DEF SlotType
    <3>3. ASSUME Proceed(s, "recordAccepted") PROVE SlotType'
      BY <3>1, <3>3, ProceedType DEF SlotType
    <3>4. SlotType'
      BY <2>5, <3>2, <3>3 DEF SendAccepted, SendRefused
    <3>5. RestType'
      <4>1. accepted' \in [Email -> Nat]
        BY <1>1, <2>5, <3>1 DEF SendAccepted, SendRefused
      <4>2. UNCHANGED <<batch, posting>>
        BY <2>5 DEF SendAccepted, SendRefused
      <4> QED
        BY <1>1, <4>1, <4>2
    <3> QED
      BY <1>1, <2>5, <3>4, <3>5 DEF SendAccepted, SendRefused
  <2>6. CASE recordAccepted(s)
    <3> DEFINE next == [slot[s] EXCEPT !.pc = "countRemaining"]
    <3>1. slot[s].pc = "recordAccepted" /\ slot[s].email \in Email
      BY <2>0, <2>6 DEF recordAccepted
    <3>2. next \in Local /\ next.email = slot[s].email
      BY <2>0 DEF Local
    <3>3. CASE OwnsClaim(s)
      <4>1. Outcomes(s, "SENT", TRUE, "SMTP_ACCEPTED") /\ Committed(s, next)
        BY <2>6, <3>3 DEF recordAccepted
      <4>2. RowType'
        BY <3>1, <4>1, OutcomesType
      <4>3. SlotType'
        BY <3>1, <3>2, <4>1, CommittedType
      <4> QED
        BY <1>1, <2>6, <4>2, <4>3 DEF recordAccepted
    <3>4. CASE ~OwnsClaim(s)
      <4>1. slot' = [slot EXCEPT ![s] = Thrown(s)]
        BY <2>6, <3>4 DEF recordAccepted
      <4>2. SlotType'
        BY <3>1, <4>1, ThrownType, SlotUpdate DEF SlotType
      <4> QED
        BY <1>1, <2>6, <3>4, <4>2 DEF recordAccepted
    <3> QED
      BY <3>3, <3>4
  <2>7. CASE recordFailure(s)
    <3> DEFINE next == [slot[s] EXCEPT !.pc = "countRemaining"]
    <3>1. slot[s].pc = "recordFailure" /\ slot[s].email \in Email
      BY <2>0, <2>7 DEF recordFailure
    <3>2. next \in Local /\ next.email = slot[s].email
      BY <2>0 DEF Local
    <3>3. /\ \/ Outcomes(s, "RETRYABLE", FALSE, "TRANSIENT_FAILURE")
             \/ Outcomes(s, "DELIVERY_UNKNOWN", TRUE, "DELIVERY_UNKNOWN")
             \/ Outcomes(s, "FAILED", TRUE, "DEFINITE_FAILURE")
          /\ Proceed(s, "error") \/ Committed(s, next)
      BY <2>7 DEF recordFailure
    <3>4. RowType'
      BY <3>1, <3>3, OutcomesType
    <3>5. SlotType'
      BY <3>1, <3>2, <3>3, CommittedType, ProceedType DEF SlotType
    <3> QED
      BY <1>1, <2>7, <3>4, <3>5 DEF recordFailure
  <2>8. CASE countRemaining(s)
    <3>1. slot[s].pc = "countRemaining" /\ UNCHANGED <<row, attempt, batch, job, posting, accepted>>
      BY <2>8 DEF countRemaining
    <3>2. PICK pc \in {"complete", "unrecoverable", "countUnsuccessful"} : Proceed(s, pc)
      BY <2>8 DEF countRemaining, AfterCompletion
    <3>3. SlotType'
      BY <3>1, <3>2, ProceedType DEF SlotType
    <3> QED
      BY <1>1, <3>1, <3>3
  <2>9. CASE countUnsuccessful(s)
    <3> DEFINE u == \E e \in BatchRows(s) : row[e].status \in Unsuccessful
               l == [slot[s] EXCEPT !.pc = "updateBatch", !.unsuccessful = u]
    <3>1. u \in BOOLEAN
      OBVIOUS
    <3> HIDE DEF u
    <3>2. l \in Local /\ l.email = slot[s].email
      BY <2>0, <3>1 DEF Local
    <3>3. slot' = [slot EXCEPT ![s] = l] /\ slot[s].pc = "countUnsuccessful"
      BY <1>1, <2>9 DEF countUnsuccessful, SlotType, u
    <3> HIDE DEF l
    <3>4. SlotType'
      BY <2>0, <3>2, <3>3, SlotUpdate DEF SlotType
    <3> QED
      BY <1>1, <2>9, <3>4 DEF countUnsuccessful
  <2>10. CASE updateBatch(s)
    <3> DEFINE l == [slot[s] EXCEPT !.pc = AfterCompletion(s)]
    <3>1. slot[s].pc = "updateBatch" /\ Committed(s, l)
      BY <2>10 DEF updateBatch
    <3>2. l \in Local /\ l.email = slot[s].email
      BY <2>0 DEF Local, AfterCompletion
    <3>3. SlotType'
      BY <3>1, <3>2, CommittedType
    <3>4. batch' \in [Batch -> {"SCHEDULED", "COMPLETED", "PARTIALLY_FAILED"}]
      BY <1>1, <2>10 DEF updateBatch
    <3> QED
      BY <1>1, <2>10, <3>3, <3>4 DEF updateBatch
  <2>11. CASE Finish(s)
    <3>1. slot[s].pc \in SettledPc /\ slot[s].email \in Email
      BY <2>0, <2>11 DEF Finish
    <3>2. AfterRun(s, job[slot[s].email]) \in Job
      BY <1>1, <2>0, <3>1, AfterRunType
    <3>3. JobType'
      BY <1>1, <2>11, <3>2 DEF Finish
    <3>4. SlotType'
      BY <2>11, FreshLocalType, SlotUpdate DEF Finish, SlotType
    <3> QED
      BY <1>1, <2>11, <3>3, <3>4 DEF Finish
  <2> QED
    BY <1>3, <2>1, <2>2, <2>3, <2>4, <2>5, <2>6, <2>7, <2>8, <2>9, <2>10, <2>11 DEF Handler
<1>4. ASSUME NEW s \in Slot, Startup(s) PROVE RowType' /\ RestType' /\ JobType' /\ SlotType'
  <2>1. CASE Start(s)
    <3>0. 0 \in 0..AttemptBound
      OBVIOUS
    <3>1. \A e \in Email : [row[e] EXCEPT !.status = "DELIVERY_UNKNOWN", !.token = 0] \in Row
      <4> SUFFICES ASSUME NEW e \in Email
                   PROVE  [row[e] EXCEPT !.status = "DELIVERY_UNKNOWN", !.token = 0] \in Row
        OBVIOUS
      <4>1. row[e] \in Row
        BY <1>1
      <4> QED
        BY <3>0, <4>1 DEF Row
    <3>2. RowType'
      <4>1. PICK S \in SUBSET Stale :
              row' = [e \in Email |->
                        IF e \in S THEN [row[e] EXCEPT !.status = "DELIVERY_UNKNOWN", !.token = 0]
                                   ELSE row[e]]
        BY <2>1 DEF Start
      <4>2. row' \in [Email -> Row]
        BY <1>1, <3>1, <4>1
      <4> QED
        BY <1>1, <2>1, <4>2 DEF Start
    <3>3. SlotType'
      BY <2>1, ProceedType DEF Start, SlotType
    <3> QED
      BY <1>1, <2>1, <3>2, <3>3 DEF Start
  <2>2. CASE ReadPage(s)
    <3> DEFINE l == [slot[s] EXCEPT !.pc = "addPage", !.page = Page(Email, slot[s].cursor)]
    <3>0. Page(Email, slot[s].cursor) \in SUBSET Email
      BY PageType
    <3>1. l \in Local /\ l.pc = "addPage"
      <4>1. slot[s] \in Local
        BY <1>1 DEF SlotType
      <4> QED
        BY <3>0, <4>1 DEF Local
    <3>2. slot' = [slot EXCEPT ![s] = l]
      BY <1>1, <2>2 DEF ReadPage, SlotType
    <3> QED
      BY <1>1, <2>2, <3>1, <3>2, SlotUpdate DEF ReadPage, SlotType
  <2>3. CASE AddPage(s)
    <3>1. PICK l \in Local : l.pc \in {"idle", "readPage"} /\ slot' = [slot EXCEPT ![s] = l]
      BY <2>3, AddPageLocal
    <3> QED
      BY <1>1, <2>3, <3>1, AddBulkType, SlotUpdate DEF AddPage, SlotType
  <2> QED
    BY <1>4, <2>1, <2>2, <2>3 DEF Startup
<1>5. ASSUME NEW s \in Slot, QueryFails(s) PROVE RowType' /\ RestType' /\ JobType' /\ SlotType'
  <2>1. slot[s].pc \in QueryPc /\ slot[s].email \in Email /\ slot' = [slot EXCEPT ![s] = Thrown(s)]
    BY <1>1, <1>5 DEF QueryFails, SlotType
  <2> QED
    BY <1>1, <1>5, <2>1, ThrownType, SlotUpdate DEF QueryFails, SlotType
<1>6. ASSUME NEW s \in Slot, Crash(s) PROVE RowType' /\ RestType' /\ JobType' /\ SlotType'
  BY <1>1, <1>6, FreshLocalType, SlotUpdate DEF Crash, SlotType
<1>7. ASSUME NEW s \in Slot, NEW e \in Email, Take(s, e)
      PROVE  RowType' /\ RestType' /\ JobType' /\ SlotType'
  <2> DEFINE l == [FreshLocal("load") EXCEPT !.email = e, !.made = job[e].made]
  <2>1. job[e] \in Job
    BY <1>1
  <2>2. l \in Local /\ l.email = e
    BY <2>1, FreshLocalType DEF Job, Local, FreshLocal
  <2>3. [job[e] EXCEPT !.state = "active", !.holder = s] \in Job
    BY <2>1 DEF Job, JobState
  <2>4. JobType'
    BY <1>1, <1>7, <2>3 DEF Take
  <2>5. SlotType'
    BY <1>7, <2>2, SlotUpdate DEF Take, SlotType
  <2> QED
    BY <1>1, <1>7, <2>4, <2>5 DEF Take
<1>8. ASSUME NEW e \in Email, Stall(e) \/ DropJob(e) \/ BecomeDue(e)
      PROVE  RowType' /\ RestType' /\ JobType' /\ SlotType'
  <2>1. CASE Stall(e)
    <3> DEFINE state == IF job[e].stalled < MaxStalledCount THEN "queued" ELSE "failed"
               j == [job[e] EXCEPT !.state = state, !.holder = NoSlot, !.stalled = @ + 1]
    <3>1. state \in {"queued", "failed"} /\ job[e] \in Job
      BY <1>1
    <3>3. job' = [job EXCEPT ![e] = j]
      BY <2>1 DEF Stall
    <3> HIDE DEF state
    <3>2. j \in Job
      <4>1. NoSlot \in Slot \cup {NoSlot} /\ job[e].stalled + 1 \in Nat
        BY <3>1 DEF Job
      <4> QED
        BY <3>1, <4>1 DEF Job, JobState
    <3> HIDE DEF j
    <3>4. JobType'
      BY <1>1, <3>2, <3>3
    <3> QED
      BY <1>1, <2>1, <3>4 DEF Stall, SlotType
  <2>2. CASE DropJob(e)
    BY <1>1, <2>2 DEF DropJob, AbsentJob, Job, JobState, SlotType
  <2>3. CASE BecomeDue(e)
    <3>1. [row[e] EXCEPT !.due = TRUE] \in Row
      <4>1. row[e] \in Row
        BY <1>1
      <4> QED
        BY <4>1 DEF Row
    <3>2. RowType'
      BY <1>1, <2>3, <3>1 DEF BecomeDue
    <3> QED
      BY <1>1, <2>3, <3>2 DEF BecomeDue, SlotType
  <2> QED
    BY <1>8, <2>1, <2>2, <2>3
<1>9. ASSUME NEW b \in Batch, Post(b) \/ FailPost(b) \/ Replay(b)
      PROVE  RowType' /\ RestType' /\ JobType' /\ SlotType'
  <2>1. CASE ReadBatch(b) \/ FailPost(b) \/ Replay(b)
    <3>1. PICK p \in Posting : posting' = [posting EXCEPT ![b] = p]
      <4>1. FreshPosting("read") \in Posting /\ FreshPosting("answered") \in Posting
        BY DEF FreshPosting, Posting
      <4>2. [posting[b] EXCEPT !.pc = "add", !.page = Page(InBatch(b), posting[b].cursor)] \in Posting
        <5>1. Page(InBatch(b), posting[b].cursor) \in SUBSET Email
          BY PageType DEF InBatch
        <5>2. posting[b] \in Posting
          BY <1>1
        <5> QED
          BY <5>1, <5>2 DEF Posting
      <4> QED
        BY <2>1, <4>1, <4>2 DEF ReadBatch, FailPost, Replay
    <3>2. posting' \in [Batch -> Posting]
      BY <1>1, <3>1
    <3> QED
      BY <1>1, <2>1, <3>2 DEF ReadBatch, FailPost, Replay, SlotType
  <2>2. CASE AddBatch(b)
    <3>1. PICK p \in Posting : posting' = [posting EXCEPT ![b] = p]
      <4>1. FreshPosting("answered") \in Posting
        BY DEF FreshPosting, Posting
      <4>2. NextCursor(posting[b].page) \in SUBSET Email
        BY <1>1, PageType DEF Posting
      <4>3. \A e \in Email : [FreshPosting("read") EXCEPT !.cursor = e] \in Posting
        BY DEF FreshPosting, Posting
      <4> QED
        BY <2>2, <4>1, <4>2, <4>3 DEF AddBatch
    <3>2. posting' \in [Batch -> Posting]
      BY <1>1, <3>1
    <3> QED
      BY <1>1, <2>2, <3>2, AddBulkType DEF AddBatch, SlotType
  <2> QED
    BY <1>9, <2>1, <2>2 DEF Post
<1>10. CASE UNCHANGED vars
  BY <1>1, <1>10 DEF vars, SlotType
<1> QED
  BY <1>3, <1>4, <1>5, <1>6, <1>7, <1>8, <1>9, <1>10 DEF Next

\* Every reachable state is well typed.
THEOREM TypeCorrect == Spec => []TypeInv
  BY TypeInit, TypeNext, PTL DEF Spec

\* In particular every variable keeps its type.
THEOREM TypeOKCorrect == Spec => []TypeOK
<1>1. TypeInv => TypeOK
  BY DEF TypeInv
<1> QED
  BY <1>1, TypeCorrect, PTL

-----------------------------------------------------------------------------
(***************************************************************************)
(* Terminal rows.  Only four transactions touch the status of a row; each  *)
(* is conditioned on a nonterminal one.                                    *)
(***************************************************************************)

\* Steps that leave the rows alone, or only move their clock.
SameRows == \A e \in Email : row'[e].status = row[e].status /\ row'[e].attemptCount = row[e].attemptCount

\* Which steps may change the status of a row.
LEMMA QuietSteps ==
    ASSUME TypeInv, [Next]_vars
    PROVE  \/ SameRows /\ UNCHANGED attempt
           \/ \E s \in Slot : \/ recordRateLimit(s)
                              \/ claimEmail(s)
                              \/ recordAccepted(s)
                              \/ recordFailure(s)
                              \/ Start(s)
<1> DEFINE Goal == SameRows /\ UNCHANGED attempt
<1>0. row \in [Email -> Row]
  BY DEF TypeInv, TypeOK
<1>1. UNCHANGED <<row, attempt>> => Goal
  BY DEF SameRows
<1>2. ASSUME NEW e \in Email, BecomeDue(e) PROVE Goal
  <2>1. row' = [row EXCEPT ![e] = [row[e] EXCEPT !.due = TRUE]] /\ UNCHANGED attempt
    BY <1>2 DEF BecomeDue
  <2>2. row[e] \in Row
    BY <1>0
  <2>3. LET r == [row[e] EXCEPT !.due = TRUE] IN
          r.status = row[e].status /\ r.attemptCount = row[e].attemptCount
    BY <2>2 DEF Row
  <2> QED
    BY <1>0, <2>1, <2>3 DEF SameRows
<1>3. ASSUME NEW s \in Slot, Handler(s), ~recordRateLimit(s), ~claimEmail(s), ~recordAccepted(s),
             ~recordFailure(s)
      PROVE  UNCHANGED <<row, attempt>>
  BY <1>3 DEF Handler, Load, Admit, Deny, SendAccepted, SendRefused, countRemaining,
              countUnsuccessful, updateBatch, Finish
<1>4. ASSUME NEW s \in Slot, ReadPage(s) \/ AddPage(s) \/ QueryFails(s) \/ Crash(s)
      PROVE  UNCHANGED <<row, attempt>>
  BY <1>4 DEF ReadPage, AddPage, QueryFails, Crash
<1>5. ASSUME NEW s \in Slot, NEW e \in Email, Take(s, e) PROVE UNCHANGED <<row, attempt>>
  BY <1>5 DEF Take
<1>6. ASSUME NEW e \in Email, Stall(e) \/ DropJob(e) PROVE UNCHANGED <<row, attempt>>
  BY <1>6 DEF Stall, DropJob
<1>7. ASSUME NEW b \in Batch, Post(b) \/ FailPost(b) \/ Replay(b) PROVE UNCHANGED <<row, attempt>>
  BY <1>7 DEF Post, ReadBatch, AddBatch, FailPost, Replay
<1>8. CASE UNCHANGED vars
  BY <1>1, <1>8 DEF vars
<1>9. CASE Next
  BY <1>1, <1>2, <1>3, <1>4, <1>5, <1>6, <1>7, <1>9 DEF Next, Startup
<1> QED
  BY <1>8, <1>9

\* The attempt number n of email f, and no other, becomes outcome.
Wrote(f, n, outcome) ==
    \A e \in Email, m \in 1..AttemptBound :
        attempt'[e][m] = IF e = f /\ m = n THEN outcome ELSE attempt[e][m]

\* What one outcome does to the rows, field by field.
LEMMA OutcomesRow ==
    ASSUME TypeInv, NEW s \in Slot, slot[s].email \in Email, NEW status \in Status, NEW due \in BOOLEAN, NEW outcome,
           Outcomes(s, status, due, outcome)
    PROVE  /\ \A e \in Email :
                /\ row'[e].attemptCount = row[e].attemptCount
                /\ IF e = slot[s].email /\ OwnsClaim(s)
                   THEN row'[e].status = status
                   ELSE row'[e] = row[e]
           /\ Wrote(slot[s].email, slot[s].token, outcome)
<1>1. row \in [Email -> Row] /\ row[slot[s].email] \in Row
  BY DEF TypeInv, TypeOK
<1> DEFINE r == [row[slot[s].email] EXCEPT !.status = status, !.token = 0, !.due = due]
<1>2. r.status = status /\ r.attemptCount = row[slot[s].email].attemptCount
  BY <1>1 DEF Row
<1>3. row' = IF OwnsClaim(s) THEN [row EXCEPT ![slot[s].email] = r] ELSE row
  BY DEF Outcomes
<1>4. Wrote(slot[s].email, slot[s].token, outcome)
  <2> DEFINE a == [attempt[slot[s].email] EXCEPT ![slot[s].token] = outcome]
  <2>1. attempt \in [Email -> [1..AttemptBound -> Outcome]]
    BY DEF TypeInv, TypeOK
  <2>2. \A m \in 1..AttemptBound :
          a[m] = IF m = slot[s].token THEN outcome ELSE attempt[slot[s].email][m]
    BY <2>1
  <2>3. attempt' = [attempt EXCEPT ![slot[s].email] = a]
    BY <2>1 DEF Outcomes
  <2> HIDE DEF a
  <2> QED
    BY <2>1, <2>2, <2>3 DEF Wrote
<1> HIDE DEF r
<1> QED
  BY <1>1, <1>2, <1>3, <1>4

\* What a numbered attempt does to the rows.
LEMMA AttemptedRow ==
    ASSUME TypeInv, NEW e \in Email, NEW r \in Row, NEW outcome, Attempted(e, r, outcome)
    PROVE  /\ row'[e].status = r.status
           /\ row'[e].attemptCount = r.attemptCount + 1
           /\ \A f \in Email \ {e} : row'[f] = row[f]
           /\ Wrote(e, row[e].attemptCount + 1, outcome)
<1>1. row \in [Email -> Row]
  BY DEF TypeInv, TypeOK
<1> DEFINE q == [r EXCEPT !.attemptCount = @ + 1]
<1>2. q.status = r.status /\ q.attemptCount = r.attemptCount + 1
  BY DEF Row
<1>3. row' = [row EXCEPT ![e] = q]
  BY DEF Attempted
<1>4. Wrote(e, row[e].attemptCount + 1, outcome)
  <2> DEFINE a == [attempt[e] EXCEPT ![row[e].attemptCount + 1] = outcome]
  <2>1. attempt \in [Email -> [1..AttemptBound -> Outcome]]
    BY DEF TypeInv, TypeOK
  <2>2. \A m \in 1..AttemptBound :
          a[m] = IF m = row[e].attemptCount + 1 THEN outcome ELSE attempt[e][m]
    BY <2>1
  <2>3. attempt' = [attempt EXCEPT ![e] = a]
    BY <2>1 DEF Attempted
  <2> HIDE DEF a
  <2> QED
    BY <2>1, <2>2, <2>3 DEF Wrote
<1> HIDE DEF q
<1> QED
  BY <1>1, <1>2, <1>3, <1>4

\* recordRateLimit changes a claimable row to RATE_LIMITED, or nothing.
LEMMA RateLimitRow ==
    ASSUME TypeInv, NEW s \in Slot, recordRateLimit(s)
    PROVE  \/ UNCHANGED <<row, attempt>>
           \/ /\ row[slot[s].email].status \in Claimable
              /\ row'[slot[s].email].status = "RATE_LIMITED"
              /\ row'[slot[s].email].attemptCount = row[slot[s].email].attemptCount + 1
              /\ Wrote(slot[s].email, row[slot[s].email].attemptCount + 1, "RATE_LIMITED")
              /\ \A f \in Email \ {slot[s].email} : row'[f] = row[f]
<1> DEFINE e == slot[s].email
           r == [row[e] EXCEPT !.status = "RATE_LIMITED", !.due = FALSE]
<1>1. e \in Email /\ row[e] \in Row
  BY DEF TypeInv, TypeOK, recordRateLimit
<1>2. r \in Row /\ r.status = "RATE_LIMITED" /\ r.attemptCount = row[e].attemptCount
  BY <1>1 DEF Row
<1>3. CASE row[e].status \in Claimable
  <2>1. Attempted(e, r, "RATE_LIMITED")
    BY <1>3 DEF recordRateLimit
  <2>2. Wrote(e, row[e].attemptCount + 1, "RATE_LIMITED")
    BY <1>1, <1>2, <2>1, AttemptedRow
  <2>3. /\ row'[e].status = r.status
        /\ row'[e].attemptCount = r.attemptCount + 1
        /\ \A f \in Email \ {e} : row'[f] = row[f]
    BY <1>1, <1>2, <2>1, AttemptedRow
  <2> HIDE DEF r
  <2> QED
    BY <1>2, <1>3, <2>2, <2>3
<1>4. CASE row[e].status \notin Claimable
  BY <1>4 DEF recordRateLimit
<1> QED
  BY <1>3, <1>4

\* claimEmail changes a claimable row to PROCESSING and its slot goes on to the
\* send, unless the answer is lost; or the rows stay as they are.
LEMMA ClaimRow ==
    ASSUME TypeInv, NEW s \in Slot, claimEmail(s)
    PROVE  \/ /\ UNCHANGED <<row, attempt>>
              /\ \/ slot' = [slot EXCEPT ![s] = [slot[s] EXCEPT !.pc = "complete"]]
                 \/ slot' = [slot EXCEPT ![s] = Thrown(s)]
           \/ /\ row[slot[s].email].status \in Claimable
              /\ row'[slot[s].email].status = "PROCESSING"
              /\ row'[slot[s].email].attemptCount = row[slot[s].email].attemptCount + 1
              /\ Wrote(slot[s].email, row[slot[s].email].attemptCount + 1, "CLAIMED")
              /\ \A f \in Email \ {slot[s].email} : row'[f] = row[f]
              /\ \/ slot' = [slot EXCEPT ![s] =
                      [slot[s] EXCEPT !.pc = "send", !.token = row[slot[s].email].attemptCount + 1]]
                 \/ slot' = [slot EXCEPT ![s] = Thrown(s)]
<1> DEFINE e == slot[s].email
           n == row[e].attemptCount + 1
           r == [row[e] EXCEPT !.status = "PROCESSING", !.token = n]
           next == [slot[s] EXCEPT !.pc = "send", !.token = n]
           done == [slot[s] EXCEPT !.pc = "complete"]
<1>1. e \in Email /\ row[e] \in Row
  BY DEF TypeInv, TypeOK, claimEmail
<1>2. CASE ClaimGuard(row[e])
  <2>1. n <= AttemptBound /\ Attempted(e, r, "CLAIMED") /\ Committed(s, next)
    BY <1>2 DEF claimEmail
  <2>2. n \in 0..AttemptBound
    BY <1>1, <2>1 DEF Row
  <2>3. r \in Row /\ r.status = "PROCESSING" /\ r.attemptCount = row[e].attemptCount
    BY <1>1, <2>2 DEF Row
  <2>4. slot' = [slot EXCEPT ![s] = next] \/ slot' = [slot EXCEPT ![s] = Thrown(s)]
    BY <2>1 DEF Committed
  <2>5. Wrote(e, row[e].attemptCount + 1, "CLAIMED")
    BY <1>1, <2>1, <2>3, AttemptedRow
  <2>6. /\ row'[e].status = r.status
        /\ row'[e].attemptCount = r.attemptCount + 1
        /\ \A f \in Email \ {e} : row'[f] = row[f]
    BY <1>1, <2>1, <2>3, AttemptedRow
  <2>7. row[e].status \in Claimable
    BY <1>2 DEF ClaimGuard
  <2> HIDE DEF r
  <2> QED
    BY <2>3, <2>4, <2>5, <2>6, <2>7
<1>3. CASE ~ClaimGuard(row[e])
  <2>1. Committed(s, done) /\ UNCHANGED <<row, attempt>>
    BY <1>3 DEF claimEmail
  <2> QED
    BY <2>1 DEF Committed
<1> QED
  BY <1>2, <1>3

\* The stale sweep changes PROCESSING rows to DELIVERY_UNKNOWN.
LEMMA StartRow ==
    ASSUME TypeInv, NEW s \in Slot, Start(s)
    PROVE  /\ UNCHANGED attempt
           /\ \A e \in Email :
                /\ row'[e].attemptCount = row[e].attemptCount
                /\ \/ row'[e] = row[e]
                   \/ row[e].status = "PROCESSING" /\ row'[e].status = "DELIVERY_UNKNOWN"
<1>1. row \in [Email -> Row]
  BY DEF TypeInv, TypeOK
<1>2. PICK S \in SUBSET Stale :
        row' = [e \in Email |->
                  IF e \in S THEN [row[e] EXCEPT !.status = "DELIVERY_UNKNOWN", !.token = 0]
                             ELSE row[e]]
  BY DEF Start
<1>3. \A e \in S : row[e].status = "PROCESSING"
  BY DEF Stale
<1>4. ASSUME NEW e \in Email
      PROVE  /\ row'[e].attemptCount = row[e].attemptCount
             /\ \/ row'[e] = row[e]
                \/ row[e].status = "PROCESSING" /\ row'[e].status = "DELIVERY_UNKNOWN"
  <2>1. row[e] \in Row
    BY <1>1
  <2>2. CASE e \in S
    <3> DEFINE r == [row[e] EXCEPT !.status = "DELIVERY_UNKNOWN", !.token = 0]
    <3>1. r.status = "DELIVERY_UNKNOWN" /\ r.attemptCount = row[e].attemptCount
      BY <2>1 DEF Row
    <3>2. row'[e] = r
      BY <1>2, <2>2
    <3> QED
      BY <1>3, <2>2, <3>1, <3>2
  <2>3. CASE e \notin S
    BY <1>2, <2>3
  <2> QED
    BY <2>2, <2>3
<1> QED
  BY <1>4 DEF Start

\* A step never changes the status of a terminal row.
LEMMA TerminalStep ==
    ASSUME TypeInv, [Next]_vars, NEW e \in Email, row[e].status \in terminalStatuses
    PROVE  row'[e].status = row[e].status
<1>1. ASSUME NEW s \in Slot, recordRateLimit(s) \/ claimEmail(s)
      PROVE  row'[e].status = row[e].status
  <2>1. \/ UNCHANGED row
        \/ /\ row[slot[s].email].status \in Claimable
           /\ \A f \in Email \ {slot[s].email} : row'[f] = row[f]
    BY <1>1, RateLimitRow, ClaimRow
  <2> QED
    BY <2>1
<1>2. ASSUME NEW s \in Slot, recordAccepted(s) \/ recordFailure(s)
      PROVE  row'[e].status = row[e].status
  <2>1. slot[s].email \in Email
    BY <1>2 DEF TypeInv, recordAccepted, recordFailure
  <2>2. UNCHANGED row \/ \E status \in Status, due \in BOOLEAN, outcome \in Outcome : Outcomes(s, status, due, outcome)
    BY <1>2 DEF recordAccepted, recordFailure
  <2>3. OwnsClaim(s) => row[slot[s].email].status = "PROCESSING"
    BY DEF OwnsClaim
  <2> QED
    BY <2>1, <2>2, <2>3, OutcomesRow
<1>3. ASSUME NEW s \in Slot, Start(s) PROVE row'[e].status = row[e].status
  BY <1>3, StartRow
<1> QED
  BY <1>1, <1>2, <1>3, QuietSteps DEF SameRows

\* No step of a slot, late or repeated, changes the status of a terminal row.
THEOREM TerminalCorrect == Spec => TerminalIsFinal
<1>1. TypeInv /\ [Next]_vars =>
        [\A e \in Email : row[e].status \in terminalStatuses => row'[e].status = row[e].status]_vars
  BY TerminalStep
<1> QED
  BY <1>1, TypeCorrect, PTL DEF Spec, TerminalIsFinal

-----------------------------------------------------------------------------
(***************************************************************************)
(* The claim.  ClaimExclusive is not inductive: from the batch update of   *)
(* an accepted email the catch block leads back to recordFailure, so a     *)
(* slot is in its claim until it can no longer come back.                  *)
(***************************************************************************)
InClaim(l, e) ==
    /\ l.email = e
    /\ \/ l.pc \in ClaimedPc
       \/ l.pc \in CompletionPc /\ l.failure = "none"

ClaimInv ==
    \A e \in Email :
        /\ \A s, t \in Slot : InClaim(slot[s], e) /\ InClaim(slot[t], e) => s = t
        /\ row[e].status \in Claimable => \A s \in Slot : ~InClaim(slot[s], e)

\* A rejected await does not bring a slot into a claim it was not in.
LEMMA ThrownClaim ==
    ASSUME TypeInv, NEW s \in Slot, slot[s].pc \in QueryPc, NEW e, InClaim(Thrown(s), e)
    PROVE  InClaim(slot[s], e)
<1>1. slot[s] \in Local
  BY DEF TypeInv, TypeOK
<1>2. CASE Caught(s)
  <2>1. Thrown(s).email = slot[s].email
    BY ThrownType
  <2> QED
    BY <1>2, <2>1 DEF Caught, InClaim, ClaimedPc
<1>3. CASE ~Caught(s)
  <2>1. Thrown(s).pc = "error"
    BY <1>1, <1>3 DEF Thrown, Local
  <2> QED
    BY <2>1 DEF InClaim, ClaimedPc
<1> QED
  BY <1>2, <1>3

\* A step of the system changes at most one slot.
LEMMA OneSlot ==
    ASSUME TypeInv, [Next]_vars
    PROVE  \/ UNCHANGED slot
           \/ \E s \in Slot : \A t \in Slot \ {s} : slot'[t] = slot[t]
<1>0. slot \in [Slot -> Local]
  BY DEF TypeInv, TypeOK
<1>1. ASSUME NEW s \in Slot, Handler(s) \/ Startup(s) \/ QueryFails(s) \/ Crash(s)
      PROVE  \A t \in Slot \ {s} : slot'[t] = slot[t]
  <2>1. \E l : slot' = [slot EXCEPT ![s] = l]
    <3>1. CASE Load(s) \/ Admit(s) \/ Deny(s)
      BY <3>1 DEF Load, Admit, Deny, Proceed
    <3>2. CASE recordRateLimit(s) \/ claimEmail(s)
      BY <3>2 DEF recordRateLimit, claimEmail, Committed
    <3>3. CASE SendAccepted(s) \/ SendRefused(s)
      BY <3>3 DEF SendAccepted, SendRefused, Proceed, Classified
    <3>4. CASE recordAccepted(s) \/ recordFailure(s)
      BY <3>4 DEF recordAccepted, recordFailure, Committed, Proceed
    <3>5. CASE countRemaining(s) \/ countUnsuccessful(s) \/ updateBatch(s) \/ Finish(s)
      BY <3>5 DEF countRemaining, countUnsuccessful, updateBatch, Finish, Committed, Proceed
    <3>6. CASE Startup(s) \/ QueryFails(s) \/ Crash(s)
      BY <3>6 DEF Startup, Start, ReadPage, AddPage, QueryFails, Crash, Proceed
    <3> QED
      BY <1>1, <3>1, <3>2, <3>3, <3>4, <3>5, <3>6 DEF Handler
  <2> QED
    BY <1>0, <2>1
<1>2. ASSUME NEW s \in Slot, NEW e \in Email, Take(s, e)
      PROVE  \A t \in Slot \ {s} : slot'[t] = slot[t]
  BY <1>0, <1>2 DEF Take
<1>3. ASSUME NEW e \in Email, Stall(e) \/ DropJob(e) \/ BecomeDue(e) PROVE UNCHANGED slot
  BY <1>3 DEF Stall, DropJob, BecomeDue
<1>4. ASSUME NEW b \in Batch, Post(b) \/ FailPost(b) \/ Replay(b) PROVE UNCHANGED slot
  BY <1>4 DEF Post, ReadBatch, AddBatch, FailPost, Replay
<1> QED
  BY <1>1, <1>2, <1>3, <1>4 DEF Next, vars

\* A slot gets into a claim only by claimEmail, on a row that was claimable.
LEMMA ClaimEntry ==
    ASSUME TypeInv, [Next]_vars, NEW s \in Slot, NEW e \in Email,
           InClaim(slot'[s], e), ~InClaim(slot[s], e)
    PROVE  /\ row[e].status \in Claimable
           /\ row'[e].status = "PROCESSING"
           /\ slot'[s].pc = "send"
           /\ slot'[s].token = row'[e].attemptCount
           /\ UNCHANGED accepted
<1> DEFINE Goal == /\ row[e].status \in Claimable
                   /\ row'[e].status = "PROCESSING"
                   /\ slot'[s].pc = "send"
                   /\ slot'[s].token = row'[e].attemptCount
                   /\ UNCHANGED accepted
<1>0. slot \in [Slot -> Local] /\ slot[s] \in Local
  BY DEF TypeInv, TypeOK
<1>1. slot'[s] # slot[s]
  OBVIOUS
<1>2. ASSUME NEW pc, Proceed(s, pc) PROVE slot'[s].pc = pc /\ slot'[s].email = slot[s].email /\ slot'[s].failure = slot[s].failure
  <2> DEFINE l == [slot[s] EXCEPT !.pc = pc]
  <2>1. l.pc = pc /\ l.email = slot[s].email /\ l.failure = slot[s].failure
    BY <1>0 DEF Local
  <2>2. slot'[s] = l
    BY <1>0, <1>2 DEF Proceed
  <2> QED
    BY <2>1, <2>2
<1>3. ASSUME NEW pc, slot' = [slot EXCEPT ![s] = FreshLocal(pc)], pc \in {"idle", "stopped"}
      PROVE  FALSE
  BY <1>0, <1>3 DEF FreshLocal, InClaim, ClaimedPc
<1>4. ASSUME slot'[s] = Thrown(s), slot[s].pc \in QueryPc PROVE FALSE
  BY <1>4, ThrownClaim
<1>5. ASSUME NEW t \in Slot, Handler(t) PROVE Goal
  <2>1. CASE Load(t) \/ Admit(t) \/ Deny(t)
    <3>1. PICK pc \in {"complete", "delay", "reserve", "claim", "rateLimit"} : Proceed(t, pc)
      BY <2>1 DEF Load, Admit, Deny
    <3>2. t = s
      BY <1>0, <1>1, <3>1 DEF Proceed
    <3> QED
      BY <1>2, <3>1, <3>2 DEF InClaim, ClaimedPc
  <2>2. CASE recordRateLimit(t)
    <3>1. Committed(t, [slot[t] EXCEPT !.pc = "delay"]) /\ slot[t].pc \in QueryPc
      BY <2>2 DEF recordRateLimit
    <3>2. t = s
      BY <1>0, <1>1, <3>1 DEF Committed
    <3>3. slot'[s] = [slot[s] EXCEPT !.pc = "delay"] \/ slot'[s] = Thrown(s)
      BY <1>0, <3>1, <3>2 DEF Committed
    <3>4. [slot[s] EXCEPT !.pc = "delay"].pc = "delay"
      BY <1>0 DEF Local
    <3> QED
      BY <1>4, <3>1, <3>2, <3>3, <3>4 DEF InClaim, ClaimedPc
  <2>3. CASE claimEmail(t)
    <3>0. slot[t].pc = "claim" /\ UNCHANGED accepted
      BY <2>3 DEF claimEmail
    <3>1. t = s
      BY <1>0, <1>1, <2>3, ClaimRow
    <3>2. slot'[s] # Thrown(s)
      BY <1>4, <3>0, <3>1
    <3>3. slot'[s] # [slot[s] EXCEPT !.pc = "complete"]
      <4>1. [slot[s] EXCEPT !.pc = "complete"].pc = "complete"
        BY <1>0 DEF Local
      <4> QED
        BY <4>1 DEF InClaim, ClaimedPc
    <3> DEFINE n == row[slot[s].email].attemptCount + 1
               l == [slot[s] EXCEPT !.pc = "send", !.token = n]
    <3>4. /\ row[slot[s].email].status \in Claimable
          /\ row'[slot[s].email].status = "PROCESSING"
          /\ row'[slot[s].email].attemptCount = n
          /\ slot' = [slot EXCEPT ![s] = l]
      BY <1>0, <2>3, <3>1, <3>2, <3>3, ClaimRow
    <3>5. l.pc = "send" /\ l.token = n /\ l.email = slot[s].email
      BY <1>0 DEF Local
    <3>6. slot'[s] = l
      BY <1>0, <3>4
    <3> HIDE DEF l
    <3>7. slot[s].email = e
      BY <3>5, <3>6 DEF InClaim
    <3> QED
      BY <3>0, <3>4, <3>5, <3>6, <3>7
  <2>4. CASE SendAccepted(t) \/ SendRefused(t)
    <3>1. slot[t].pc = "send"
      BY <2>4 DEF SendAccepted, SendRefused
    <3>2. Proceed(t, "recordAccepted") \/ \E f : Classified(t, f)
      BY <2>4 DEF SendAccepted, SendRefused
    <3>3. t = s
      BY <1>0, <1>1, <3>2 DEF Proceed, Classified
    <3>4. slot'[s].email = slot[s].email
      <4>1. ASSUME NEW f, Classified(s, f) PROVE slot'[s].email = slot[s].email
        BY <1>0, <4>1 DEF Classified, Local
      <4> QED
        BY <1>2, <3>2, <3>3, <4>1
    <3> QED
      BY <3>1, <3>3, <3>4 DEF InClaim, ClaimedPc
  <2>5. CASE recordAccepted(t)
    <3>1. slot[t].pc = "recordAccepted"
      BY <2>5 DEF recordAccepted
    <3> DEFINE l == [slot[t] EXCEPT !.pc = "countRemaining"]
    <3>2. slot' = [slot EXCEPT ![t] = l] \/ slot' = [slot EXCEPT ![t] = Thrown(t)]
      BY <2>5 DEF recordAccepted, Committed
    <3>3. t = s
      BY <1>0, <1>1, <3>2
    <3>4. slot'[s].email = slot[s].email
      <4>1. l.email = slot[t].email
        BY <1>0, <3>3 DEF Local
      <4> QED
        BY <1>0, <3>1, <3>2, <3>3, <4>1, ThrownType
    <3>5. slot[s].email = e
      BY <3>4 DEF InClaim
    <3> QED
      BY <3>1, <3>3, <3>5 DEF InClaim, ClaimedPc
  <2>6. CASE recordFailure(t)
    <3>1. slot[t].pc = "recordFailure"
      BY <2>6 DEF recordFailure
    <3> DEFINE l == [slot[t] EXCEPT !.pc = "countRemaining"]
               m == [slot[t] EXCEPT !.pc = "error"]
    <3>2. \/ slot' = [slot EXCEPT ![t] = l]
          \/ slot' = [slot EXCEPT ![t] = m]
          \/ slot' = [slot EXCEPT ![t] = Thrown(t)]
      BY <1>0, <2>6 DEF recordFailure, Committed, Proceed
    <3>3. t = s
      BY <1>0, <1>1, <3>2
    <3>4. slot'[s].email = slot[s].email
      <4>1. l.email = slot[t].email /\ m.email = slot[t].email
        BY <1>0, <3>3 DEF Local
      <4> QED
        BY <1>0, <3>1, <3>2, <3>3, <4>1, ThrownType
    <3>5. slot[s].email = e
      BY <3>4 DEF InClaim
    <3> QED
      BY <3>1, <3>3, <3>5 DEF InClaim, ClaimedPc
  <2>7. CASE countRemaining(t)
    <3>1. slot[t].pc = "countRemaining"
      BY <2>7 DEF countRemaining
    <3>2. PICK pc \in {"complete", "unrecoverable", "countUnsuccessful"} : Proceed(t, pc)
      BY <2>7 DEF countRemaining, AfterCompletion
    <3>3. t = s
      BY <1>0, <1>1, <3>2 DEF Proceed
    <3> QED
      BY <1>2, <3>1, <3>2, <3>3 DEF InClaim, ClaimedPc
  <2>8. CASE countUnsuccessful(t)
    <3>1. slot[t].pc = "countUnsuccessful"
      BY <2>8 DEF countUnsuccessful
    <3>2. PICK u : slot' = [slot EXCEPT ![t] = [slot[t] EXCEPT !.pc = "updateBatch", !.unsuccessful = u]]
      BY <1>0, <2>8 DEF countUnsuccessful
    <3>3. t = s
      BY <1>0, <1>1, <3>2
    <3>4. slot'[s].pc = "updateBatch" /\ slot'[s].email = slot[s].email /\ slot'[s].failure = slot[s].failure
      BY <1>0, <3>2, <3>3 DEF Local
    <3>5. slot[s].email = e /\ slot[s].failure = "none"
      BY <3>4 DEF InClaim, ClaimedPc
    <3> QED
      BY <3>1, <3>3, <3>5 DEF InClaim
  <2>9. CASE updateBatch(t)
    <3> DEFINE l == [slot[t] EXCEPT !.pc = AfterCompletion(t)]
    <3>1. slot[t].pc = "updateBatch"
      BY <2>9 DEF updateBatch
    <3>2. slot' = [slot EXCEPT ![t] = l] \/ slot' = [slot EXCEPT ![t] = Thrown(t)]
      BY <2>9 DEF updateBatch, Committed
    <3>3. t = s
      BY <1>0, <1>1, <3>2
    <3>4. l.pc \in {"complete", "unrecoverable"}
      BY <1>0, <3>3 DEF Local, AfterCompletion
    <3> QED
      BY <1>0, <1>4, <3>1, <3>2, <3>3, <3>4 DEF InClaim, ClaimedPc
  <2>10. CASE Finish(t)
    BY <1>0, <1>1, <1>3, <2>10 DEF Finish
  <2> QED
    BY <1>5, <2>1, <2>2, <2>3, <2>4, <2>5, <2>6, <2>7, <2>8, <2>9, <2>10 DEF Handler
<1>6. ASSUME NEW t \in Slot, Startup(t) PROVE FALSE
  <2>1. CASE Start(t)
    <3>1. Proceed(t, "readPage")
      BY <2>1 DEF Start
    <3> QED
      BY <1>0, <1>1, <1>2, <3>1 DEF Proceed, InClaim, ClaimedPc
  <2>2. CASE ReadPage(t)
    <3>1. slot' = [slot EXCEPT ![t] = [slot[t] EXCEPT !.pc = "addPage", !.page = Page(Email, slot[t].cursor)]]
      BY <1>0, <2>2 DEF ReadPage
    <3>2. t = s
      BY <1>0, <1>1, <3>1
    <3>3. slot'[s].pc = "addPage"
      BY <1>0, <3>1, <3>2 DEF Local
    <3> QED
      BY <3>3 DEF InClaim, ClaimedPc
  <2>3. CASE AddPage(t)
    <3>1. PICK l \in Local : l.pc \in {"idle", "readPage"} /\ slot' = [slot EXCEPT ![t] = l]
      BY <2>3, AddPageLocal
    <3> QED
      BY <1>0, <1>1, <3>1 DEF InClaim, ClaimedPc
  <2> QED
    BY <1>6, <2>1, <2>2, <2>3 DEF Startup
<1>7. ASSUME NEW t \in Slot, QueryFails(t) PROVE FALSE
  BY <1>0, <1>1, <1>4, <1>7 DEF QueryFails
<1>8. ASSUME NEW t \in Slot, Crash(t) PROVE FALSE
  BY <1>0, <1>1, <1>3, <1>8 DEF Crash
<1>9. ASSUME NEW t \in Slot, NEW f \in Email, Take(t, f) PROVE FALSE
  <2>1. slot'[t].pc = "load"
    BY <1>0, <1>9 DEF Take, FreshLocal
  <2> QED
    BY <1>0, <1>1, <1>9, <2>1 DEF Take, InClaim, ClaimedPc
<1>10. ASSUME NEW f \in Email, Stall(f) \/ DropJob(f) \/ BecomeDue(f) PROVE FALSE
  BY <1>1, <1>10 DEF Stall, DropJob, BecomeDue
<1>11. ASSUME NEW b \in Batch, Post(b) \/ FailPost(b) \/ Replay(b) PROVE FALSE
  BY <1>1, <1>11 DEF Post, ReadBatch, AddBatch, FailPost, Replay
<1>12. CASE UNCHANGED vars
  BY <1>1, <1>12 DEF vars
<1> QED
  BY <1>5, <1>6, <1>7, <1>8, <1>9, <1>10, <1>11, <1>12 DEF Next

\* A row becomes claimable again only when a slot in its claim records a
\* transient failure, which takes the slot out of the claim.
LEMMA BecomesClaimable ==
    ASSUME TypeInv, [Next]_vars, NEW e \in Email,
           row[e].status \notin Claimable, row'[e].status \in Claimable
    PROVE  \E s \in Slot :
             /\ InClaim(slot[s], e)
             /\ slot[s].pc = "recordFailure" /\ slot[s].failure = "transient"
             /\ slot'[s].pc = "error"
             /\ \A t \in Slot \ {s} : slot'[t] = slot[t]
             /\ UNCHANGED accepted
<1>0. slot \in [Slot -> Local]
  BY DEF TypeInv, TypeOK
<1>1. ASSUME NEW s \in Slot, recordRateLimit(s) \/ claimEmail(s) PROVE FALSE
  <2>1. \/ UNCHANGED row
        \/ /\ row[slot[s].email].status \in Claimable
           /\ \A f \in Email \ {slot[s].email} : row'[f] = row[f]
    BY <1>1, RateLimitRow, ClaimRow
  <2> QED
    BY <2>1
<1>2. ASSUME NEW s \in Slot, Start(s) PROVE FALSE
  BY <1>2, StartRow
<1>3. ASSUME NEW s \in Slot, recordAccepted(s) PROVE FALSE
  <2>1. slot[s].email \in Email
    BY <1>3 DEF TypeInv, recordAccepted
  <2>2. UNCHANGED row \/ \E due \in BOOLEAN, outcome \in Outcome : Outcomes(s, "SENT", due, outcome)
    BY <1>3 DEF recordAccepted
  <2> QED
    BY <2>1, <2>2, OutcomesRow
<1>4. PICK s \in Slot : recordFailure(s)
  BY <1>1, <1>2, <1>3, QuietSteps DEF SameRows
<1>5. slot[s].pc = "recordFailure" /\ slot[s].email \in Email /\ UNCHANGED accepted
  BY <1>4 DEF TypeInv, recordFailure
<1>6. /\ slot[s].failure = "transient"
      /\ Outcomes(s, "RETRYABLE", FALSE, "TRANSIENT_FAILURE")
      /\ Proceed(s, "error")
  <2>1. ASSUME NEW status \in {"DELIVERY_UNKNOWN", "FAILED"}, NEW due \in BOOLEAN, NEW outcome,
               Outcomes(s, status, due, outcome)
        PROVE  FALSE
    BY <1>5, <2>1, OutcomesRow
  <2>2. \/ /\ slot[s].failure = "transient"
           /\ Outcomes(s, "RETRYABLE", FALSE, "TRANSIENT_FAILURE")
           /\ Proceed(s, "error")
        \/ \E status \in {"DELIVERY_UNKNOWN", "FAILED"}, due \in BOOLEAN, outcome \in Outcome :
              Outcomes(s, status, due, outcome)
    BY <1>4 DEF recordFailure
  <2> QED
    BY <2>1, <2>2
<1>7. slot[s].email = e
  <2>1. \E due \in BOOLEAN, outcome \in Outcome : Outcomes(s, "RETRYABLE", due, outcome)
    BY <1>6
  <2> QED
    BY <1>5, <2>1, OutcomesRow
<1>8. InClaim(slot[s], e)
  BY <1>5, <1>7 DEF InClaim, ClaimedPc
<1>9. slot'[s].pc = "error" /\ \A t \in Slot \ {s} : slot'[t] = slot[t]
  <2>1. [slot[s] EXCEPT !.pc = "error"].pc = "error"
    BY <1>0 DEF Local
  <2> QED
    BY <1>0, <1>6, <2>1 DEF Proceed
<1> QED
  BY <1>5, <1>6, <1>8, <1>9

\* Every step keeps the claims exclusive.
LEMMA ClaimNext == TypeInv /\ ClaimInv /\ [Next]_vars => ClaimInv'
<1> SUFFICES ASSUME TypeInv, ClaimInv, [Next]_vars, NEW e \in Email
             PROVE  /\ \A s, t \in Slot : InClaim(slot'[s], e) /\ InClaim(slot'[t], e) => s = t
                    /\ row'[e].status \in Claimable => \A s \in Slot : ~InClaim(slot'[s], e)
  BY DEF ClaimInv, InClaim
<1>1. ASSUME NEW s \in Slot, NEW t \in Slot, InClaim(slot'[s], e), InClaim(slot'[t], e)
      PROVE  s = t
  <2>1. CASE InClaim(slot[s], e) /\ InClaim(slot[t], e)
    BY <2>1 DEF ClaimInv
  <2>2. CASE ~InClaim(slot[s], e) \/ ~InClaim(slot[t], e)
    <3>1. row[e].status \in Claimable
      BY <1>1, <2>2, ClaimEntry
    <3>2. ~InClaim(slot[s], e) /\ ~InClaim(slot[t], e)
      BY <3>1 DEF ClaimInv
    <3>3. slot'[s] # slot[s] /\ slot'[t] # slot[t]
      BY <1>1, <3>2
    <3> QED
      BY <3>3, OneSlot
  <2> QED
    BY <2>1, <2>2
<1>2. ASSUME row'[e].status \in Claimable, NEW s \in Slot, InClaim(slot'[s], e)
      PROVE  FALSE
  <2>1. InClaim(slot[s], e)
    BY <1>2, ClaimEntry
  <2>2. row[e].status \notin Claimable
    BY <2>1 DEF ClaimInv
  <2>3. PICK t \in Slot : InClaim(slot[t], e) /\ slot'[t].pc = "error"
    BY <1>2, <2>2, BecomesClaimable
  <2>4. s = t
    BY <2>1, <2>3 DEF ClaimInv
  <2> QED
    BY <1>2, <2>3, <2>4 DEF InClaim, ClaimedPc
<1> QED
  BY <1>1, <1>2

\* No claim is held at the start.
LEMMA ClaimInit == Init => ClaimInv
  BY DEF Init, ClaimInv, InClaim, ClaimedPc, FreshLocal

\* The claim invariant holds throughout.
LEMMA ClaimReachable == Spec => []ClaimInv
  BY ClaimInit, ClaimNext, TypeCorrect, PTL DEF Spec

\* However many slots there are and whatever fails, two of them are never past
\* the claim of the same email, and a claimable row is in nobody's hands.
THEOREM ClaimCorrect == Spec => []ClaimExclusive
<1>1. ClaimInv => ClaimExclusive
  BY DEF ClaimInv, ClaimExclusive, InClaim, Holding
<1> QED
  BY <1>1, ClaimReachable, PTL

-----------------------------------------------------------------------------
(***************************************************************************)
(* The outcome.  What a slot knows after the send agrees with what the     *)
(* server did, and no other slot can have changed that in the meantime.    *)
(***************************************************************************)

\* Which step leads to each place of the handler that the proofs below are about.
LEMMA PcEntry ==
    ASSUME TypeInv, [Next]_vars, NEW s \in Slot, slot'[s] # slot[s]
    PROVE  /\ slot'[s].pc = "send" => claimEmail(s)
           /\ slot'[s].pc = "recordAccepted" => SendAccepted(s)
           /\ slot'[s].pc = "recordFailure" =>
                \/ SendAccepted(s)
                \/ SendRefused(s)
                \/ slot'[s] = Thrown(s) /\ slot[s].pc \in QueryPc
           /\ slot'[s].pc = "countUnsuccessful" => countRemaining(s)
           /\ slot'[s].pc = "updateBatch" => countUnsuccessful(s)
<1> DEFINE Watched == {"send", "recordAccepted", "recordFailure", "countUnsuccessful", "updateBatch"}
           Goal == /\ slot'[s].pc = "send" => claimEmail(s)
                   /\ slot'[s].pc = "recordAccepted" => SendAccepted(s)
                   /\ slot'[s].pc = "recordFailure" =>
                        \/ SendAccepted(s)
                        \/ SendRefused(s)
                        \/ slot'[s] = Thrown(s) /\ slot[s].pc \in QueryPc
                   /\ slot'[s].pc = "countUnsuccessful" => countRemaining(s)
                   /\ slot'[s].pc = "updateBatch" => countUnsuccessful(s)
<1>0. slot \in [Slot -> Local] /\ slot[s] \in Local
  BY DEF TypeInv, TypeOK
<1>1. slot'[s].pc \notin Watched => Goal
  OBVIOUS
<1>2. ASSUME slot'[s] = Thrown(s), slot[s].pc \in QueryPc PROVE Goal
  BY <1>2, ThrownType
<1>3. ASSUME NEW pc, slot'[s] = [slot[s] EXCEPT !.pc = pc] PROVE slot'[s].pc = pc
  BY <1>0, <1>3 DEF Local
<1> HIDE DEF Goal
<1>4. ASSUME NEW t \in Slot, Handler(t) PROVE Goal
  <2>1. CASE Load(t) \/ Admit(t) \/ Deny(t)
    <3>1. PICK pc \in {"complete", "delay", "reserve", "claim", "rateLimit"} : Proceed(t, pc)
      BY <2>1 DEF Load, Admit, Deny
    <3>2. slot'[s].pc = pc
      BY <1>0, <1>3, <3>1 DEF Proceed
    <3> QED
      BY <1>1, <3>2
  <2>2. CASE recordRateLimit(t)
    <3>1. slot[t].pc \in QueryPc /\ Committed(t, [slot[t] EXCEPT !.pc = "delay"])
      BY <2>2 DEF recordRateLimit
    <3>2. t = s /\ (slot'[s] = [slot[s] EXCEPT !.pc = "delay"] \/ slot'[s] = Thrown(s))
      BY <1>0, <3>1 DEF Committed
    <3> QED
      BY <1>1, <1>2, <1>3, <3>1, <3>2
  <2>3. CASE claimEmail(t)
    <3>1. t = s
      BY <1>0, <2>3, ClaimRow
    <3>2. slot[s].pc \in QueryPc
      BY <2>3, <3>1 DEF claimEmail
    <3>3. CASE slot'[s] = Thrown(s)
      BY <1>2, <3>2, <3>3
    <3>4. CASE slot'[s] # Thrown(s)
      <4>1. \/ slot'[s] = [slot[s] EXCEPT !.pc = "complete"]
            \/ \E n : slot'[s] = [slot[s] EXCEPT !.pc = "send", !.token = n]
        BY <1>0, <2>3, <3>1, <3>4, ClaimRow
      <4>2. slot'[s].pc \in {"complete", "send"}
        BY <1>0, <4>1 DEF Local
      <4> QED
        BY <2>3, <3>1, <4>2 DEF Goal
    <3> QED
      BY <3>3, <3>4
  <2>4. CASE SendAccepted(t)
    <3>1. t = s /\ slot'[s].pc \in {"recordAccepted", "recordFailure"}
      <4>1. CASE Proceed(t, "recordAccepted")
        BY <1>0, <1>3, <4>1 DEF Proceed
      <4>2. CASE \E f : Classified(t, f)
        BY <1>0, <4>2 DEF Classified, Local
      <4> QED
        BY <2>4, <4>1, <4>2 DEF SendAccepted
    <3> QED
      BY <2>4, <3>1 DEF Goal
  <2>5. CASE SendRefused(t)
    <3>1. t = s /\ slot'[s].pc = "recordFailure"
      BY <1>0, <2>5 DEF SendRefused, Classified, Local
    <3> QED
      BY <2>5, <3>1 DEF Goal
  <2>6. CASE recordAccepted(t)
    <3>1. slot[t].pc \in QueryPc
      BY <2>6 DEF recordAccepted
    <3>2. t = s /\ (slot'[s] = [slot[s] EXCEPT !.pc = "countRemaining"] \/ slot'[s] = Thrown(s))
      BY <1>0, <2>6 DEF recordAccepted, Committed
    <3> QED
      BY <1>1, <1>2, <1>3, <3>1, <3>2
  <2>7. CASE recordFailure(t)
    <3>1. slot[t].pc \in QueryPc
      BY <2>7 DEF recordFailure
    <3>2. /\ t = s
          /\ \/ slot'[s] = [slot[s] EXCEPT !.pc = "countRemaining"]
             \/ slot'[s] = [slot[s] EXCEPT !.pc = "error"]
             \/ slot'[s] = Thrown(s)
      BY <1>0, <2>7 DEF recordFailure, Committed, Proceed
    <3> QED
      BY <1>1, <1>2, <1>3, <3>1, <3>2
  <2>8. CASE countRemaining(t)
    <3>1. PICK pc \in {"complete", "unrecoverable", "countUnsuccessful"} : Proceed(t, pc)
      BY <2>8 DEF countRemaining, AfterCompletion
    <3>2. t = s /\ slot'[s].pc = pc
      BY <1>0, <1>3, <3>1 DEF Proceed
    <3> QED
      BY <2>8, <3>2 DEF Goal
  <2>9. CASE countUnsuccessful(t)
    <3>1. PICK u : slot' = [slot EXCEPT ![t] = [slot[t] EXCEPT !.pc = "updateBatch", !.unsuccessful = u]]
      BY <1>0, <2>9 DEF countUnsuccessful
    <3>2. t = s /\ slot'[s].pc = "updateBatch"
      BY <1>0, <3>1 DEF Local
    <3> QED
      BY <2>9, <3>2 DEF Goal
  <2>10. CASE updateBatch(t)
    <3>1. slot[t].pc \in QueryPc /\ AfterCompletion(t) \notin Watched
      BY <2>10 DEF updateBatch, AfterCompletion
    <3>2. t = s /\ (slot'[s] = [slot[s] EXCEPT !.pc = AfterCompletion(s)] \/ slot'[s] = Thrown(s))
      BY <1>0, <2>10 DEF updateBatch, Committed
    <3> QED
      BY <1>1, <1>2, <1>3, <3>1, <3>2
  <2>11. CASE Finish(t)
    BY <1>0, <1>1, <2>11 DEF Finish, FreshLocal
  <2> QED
    BY <1>4, <2>1, <2>2, <2>3, <2>4, <2>5, <2>6, <2>7, <2>8, <2>9, <2>10, <2>11 DEF Handler
<1>5. ASSUME NEW t \in Slot, Startup(t) PROVE slot'[s].pc \notin Watched
  <2>1. CASE Start(t)
    BY <1>0, <2>1, <1>3 DEF Start, Proceed
  <2>2. CASE ReadPage(t)
    BY <1>0, <2>2 DEF ReadPage, Local
  <2>3. CASE AddPage(t)
    BY <1>0, <2>3 DEF AddPage, FreshLocal
  <2> QED
    BY <1>5, <2>1, <2>2, <2>3 DEF Startup
<1>6. ASSUME NEW t \in Slot, QueryFails(t) PROVE Goal
  BY <1>0, <1>2, <1>6 DEF QueryFails
<1>7. ASSUME NEW t \in Slot, Crash(t) PROVE Goal
  BY <1>0, <1>1, <1>7 DEF Crash, FreshLocal
<1>8. ASSUME NEW t \in Slot, NEW e \in Email, Take(t, e) PROVE Goal
  BY <1>0, <1>1, <1>8 DEF Take, FreshLocal
<1>9. ASSUME NEW e \in Email, Stall(e) \/ DropJob(e) \/ BecomeDue(e) PROVE FALSE
  BY <1>9 DEF Stall, DropJob, BecomeDue
<1>10. ASSUME NEW b \in Batch, Post(b) \/ FailPost(b) \/ Replay(b) PROVE FALSE
  BY <1>10 DEF Post, ReadBatch, AddBatch, FailPost, Replay
<1>11. ASSUME UNCHANGED vars PROVE FALSE
  BY <1>11 DEF vars
<1>12. Goal
  BY <1>1, <1>4, <1>5, <1>6, <1>7, <1>8, <1>9, <1>10, <1>11 DEF Next
<1> QED
  BY <1>12 DEF Goal

\* Only an acceptance changes the ghost.
LEMMA AcceptedStep ==
    ASSUME TypeInv, [Next]_vars
    PROVE  UNCHANGED accepted \/ \E s \in Slot : SendAccepted(s)
  BY DEF Next, vars, Handler, Load, Admit, Deny, recordRateLimit, claimEmail, SendRefused,
         recordAccepted, recordFailure, countRemaining, countUnsuccessful, updateBatch, Finish,
         Startup, Start, ReadPage, AddPage, QueryFails, Crash, Take, Stall, DropJob, BecomeDue,
         Post, ReadBatch, AddBatch, FailPost, Replay

Sending == {"PROCESSING", "DELIVERY_UNKNOWN"}

OutcomeInv(e) ==
    /\ accepted[e] \in {0, 1}
    /\ row[e].status = "SENT" => accepted[e] = 1
    /\ row[e].status \in Claimable \cup {"FAILED"} => accepted[e] = 0

KnowledgeInv(s) ==
    LET e == slot[s].email IN
    /\ slot[s].pc = "send" => row[e].status \in Sending /\ accepted[e] = 0
    /\ slot[s].pc = "recordAccepted" => accepted[e] = 1
    /\ slot[s].pc = "recordFailure" /\ slot[s].failure \in {"transient", "permanent"} => accepted[e] = 0

AcceptInv ==
    /\ \A e \in Email : OutcomeInv(e)
    /\ \A s \in Slot : KnowledgeInv(s)

\* What SendAccepted does, with its slot and email named.
LEMMA AcceptanceStep ==
    ASSUME TypeInv, AcceptInv, NEW t \in Slot, SendAccepted(t)
    PROVE  LET f == slot[t].email IN
           /\ f \in Email
           /\ InClaim(slot[t], f)
           /\ slot[t].pc = "send"
           /\ row[f].status \in Sending
           /\ accepted[f] = 0
           /\ accepted'[f] = 1
           /\ \A e \in Email \ {f} : accepted'[e] = accepted[e]
           /\ UNCHANGED row
<1>1. slot[t].pc = "send" /\ slot[t].email \in Email
  BY DEF SendAccepted, TypeInv
<1>2. row[slot[t].email].status \in Sending /\ accepted[slot[t].email] = 0
  BY <1>1 DEF AcceptInv, KnowledgeInv
<1>3. accepted \in [Email -> Nat]
  BY DEF TypeInv, TypeOK
<1> QED
  BY <1>1, <1>2, <1>3 DEF SendAccepted, InClaim, ClaimedPc

\* While a slot sends, nobody but the stale sweep touches its row.
LEMMA SendingRow ==
    ASSUME TypeInv, ClaimInv, [Next]_vars, NEW s \in Slot, slot[s].pc = "send",
           row[slot[s].email].status \in Sending
    PROVE  row'[slot[s].email].status \in Sending
<1> DEFINE e == slot[s].email
<1>1. e \in Email /\ InClaim(slot[s], e)
  BY DEF TypeInv, InClaim, ClaimedPc
<1>2. ASSUME NEW t \in Slot, recordRateLimit(t) \/ claimEmail(t) PROVE row'[e].status \in Sending
  <2>1. \/ UNCHANGED row
        \/ /\ row[slot[t].email].status \in Claimable
           /\ \A f \in Email \ {slot[t].email} : row'[f] = row[f]
    BY <1>2, RateLimitRow, ClaimRow
  <2>2. row[e].status \notin Claimable
    BY DEF Sending
  <2> QED
    BY <1>1, <2>1, <2>2
<1>3. ASSUME NEW t \in Slot, recordAccepted(t) \/ recordFailure(t) PROVE row'[e].status \in Sending
  <2>1. slot[t].pc \in {"recordAccepted", "recordFailure"} /\ slot[t].email \in Email
    BY <1>3 DEF TypeInv, recordAccepted, recordFailure
  <2>2. slot[t].email # e
    <3>1. InClaim(slot[t], slot[t].email)
      BY <2>1 DEF InClaim, ClaimedPc
    <3> QED
      BY <1>1, <2>1, <3>1 DEF ClaimInv
  <2>3. UNCHANGED row \/ \E status \in Status, due \in BOOLEAN, outcome \in Outcome : Outcomes(t, status, due, outcome)
    BY <1>3 DEF recordAccepted, recordFailure
  <2> QED
    BY <1>1, <2>1, <2>2, <2>3, OutcomesRow
<1>4. ASSUME NEW t \in Slot, Start(t) PROVE row'[e].status \in Sending
  BY <1>1, <1>4, StartRow DEF Sending
<1> QED
  BY <1>1, <1>2, <1>3, <1>4, QuietSteps DEF SameRows

\* Every row's status keeps agreeing with what the server did.
LEMMA OutcomeNext ==
    ASSUME TypeInv, ClaimInv, AcceptInv, [Next]_vars, NEW e \in Email
    PROVE  OutcomeInv(e)'
<1>0. OutcomeInv(e)
  BY DEF AcceptInv
<1>1. CASE row'[e].status = row[e].status
  <2>1. CASE UNCHANGED accepted
    BY <1>0, <1>1, <2>1 DEF OutcomeInv
  <2>2. ASSUME NEW t \in Slot, SendAccepted(t) PROVE OutcomeInv(e)'
    <3>1. CASE slot[t].email = e
      BY <1>1, <2>2, <3>1, AcceptanceStep DEF OutcomeInv, Sending
    <3>2. CASE slot[t].email # e
      BY <1>0, <1>1, <2>2, <3>2, AcceptanceStep DEF OutcomeInv
    <3> QED
      BY <3>1, <3>2
  <2> QED
    BY <2>1, <2>2, AcceptedStep
<1>2. CASE row'[e].status # row[e].status
  <2>1. UNCHANGED accepted
    BY <1>2, AcceptedStep, AcceptanceStep
  <2>2. ASSUME NEW t \in Slot, recordRateLimit(t) \/ claimEmail(t) PROVE OutcomeInv(e)'
    <3>1. \/ UNCHANGED row
          \/ /\ row[slot[t].email].status \in Claimable
             /\ row'[slot[t].email].status \in {"RATE_LIMITED", "PROCESSING"}
             /\ \A f \in Email \ {slot[t].email} : row'[f] = row[f]
      BY <2>2, RateLimitRow, ClaimRow
    <3>2. row[e].status \in Claimable /\ row'[e].status \in {"RATE_LIMITED", "PROCESSING"}
      BY <1>2, <3>1
    <3> QED
      BY <1>0, <2>1, <3>2 DEF OutcomeInv
  <2>3. ASSUME NEW t \in Slot, recordAccepted(t) PROVE OutcomeInv(e)'
    <3>1. slot[t].pc = "recordAccepted" /\ slot[t].email \in Email
      BY <2>3 DEF TypeInv, recordAccepted
    <3>2. UNCHANGED row \/ \E due \in BOOLEAN, outcome \in Outcome : Outcomes(t, "SENT", due, outcome)
      BY <2>3 DEF recordAccepted
    <3>3. slot[t].email = e /\ row'[e].status = "SENT"
      BY <1>2, <3>1, <3>2, OutcomesRow
    <3>4. accepted[e] = 1
      BY <3>1, <3>3 DEF AcceptInv, KnowledgeInv
    <3> QED
      BY <2>1, <3>3, <3>4 DEF OutcomeInv
  <2>4. ASSUME NEW t \in Slot, recordFailure(t) PROVE OutcomeInv(e)'
    <3>1. slot[t].pc = "recordFailure" /\ slot[t].email \in Email
      BY <2>4 DEF TypeInv, recordFailure
    <3>2. \/ /\ slot[t].failure \in {"transient", "permanent"}
             /\ \E status \in {"RETRYABLE", "FAILED"}, due \in BOOLEAN, outcome \in Outcome :
                  Outcomes(t, status, due, outcome)
          \/ \E due \in BOOLEAN, outcome \in Outcome : Outcomes(t, "DELIVERY_UNKNOWN", due, outcome)
      BY <2>4 DEF recordFailure
    <3>3. /\ slot[t].email = e
          /\ \/ row'[e].status = "DELIVERY_UNKNOWN"
             \/ /\ slot[t].failure \in {"transient", "permanent"}
                /\ row'[e].status \in {"RETRYABLE", "FAILED"}
      BY <1>2, <3>1, <3>2, OutcomesRow
    <3>4. slot[t].failure \in {"transient", "permanent"} => accepted[e] = 0
      BY <3>1, <3>3 DEF AcceptInv, KnowledgeInv
    <3> QED
      BY <1>0, <2>1, <3>3, <3>4 DEF OutcomeInv
  <2>5. ASSUME NEW t \in Slot, Start(t) PROVE OutcomeInv(e)'
    <3>1. row'[e].status = "DELIVERY_UNKNOWN"
      BY <1>2, <2>5, StartRow
    <3> QED
      BY <1>0, <2>1, <3>1 DEF OutcomeInv
  <2> QED
    BY <1>2, <2>2, <2>3, <2>4, <2>5, QuietSteps DEF SameRows
<1> QED
  BY <1>1, <1>2

\* What a slot knows of its email stays true until it acts on it.
LEMMA KnowledgeNext ==
    ASSUME TypeInv, TypeInv', ClaimInv, AcceptInv, [Next]_vars, "lateClose" \notin Faults, NEW s \in Slot
    PROVE  KnowledgeInv(s)'
<1>0. KnowledgeInv(s) /\ slot[s] \in Local /\ slot \in [Slot -> Local]
  BY DEF AcceptInv, TypeInv, TypeOK
<1> DEFINE e == slot[s].email
<1>1. CASE slot'[s] = slot[s]
  <2>1. ASSUME slot[s].pc \in ClaimedPc PROVE e \in Email /\ InClaim(slot[s], e)
    BY <2>1 DEF TypeInv, InClaim, ClaimedPc
  <2>2. ASSUME slot[s].pc \in ClaimedPc PROVE accepted'[e] = accepted[e]
    <3>1. ASSUME NEW t \in Slot, SendAccepted(t) PROVE slot[t].email # e
      <4>1. CASE t = s
        <5>1. slot[s].pc = "send"
          BY <3>1, <4>1 DEF SendAccepted
        <5>2. slot'[s].pc \in {"recordAccepted", "recordFailure"}
          <6>1. ASSUME Proceed(s, "recordAccepted") PROVE slot'[s].pc = "recordAccepted"
            BY <1>0, <6>1 DEF Proceed, Local
          <6>2. ASSUME NEW f, Classified(s, f) PROVE slot'[s].pc = "recordFailure"
            BY <1>0, <6>2 DEF Classified, Local
          <6> QED
            BY <3>1, <4>1, <6>1, <6>2 DEF SendAccepted
        <5> QED
          BY <1>1, <5>1, <5>2
      <4>2. CASE t # s
        BY <2>1, <2>2, <3>1, <4>2, AcceptanceStep DEF ClaimInv
      <4> QED
        BY <4>1, <4>2
    <3> QED
      BY <2>1, <2>2, <3>1, AcceptedStep, AcceptanceStep
  <2>3. slot[s].pc = "send" => row'[e].status \in Sending
    BY <1>0, SendingRow DEF KnowledgeInv
  <2> QED
    BY <1>0, <1>1, <2>2, <2>3 DEF KnowledgeInv, ClaimedPc
<1>2. CASE slot'[s] # slot[s]
  <2>1. CASE slot'[s].pc = "send"
    <3> DEFINE f == slot'[s].email
    <3>1. slot[s].pc = "claim" /\ f \in Email
      BY <1>2, <2>1, PcEntry DEF claimEmail, TypeInv
    <3>2. InClaim(slot'[s], f) /\ ~InClaim(slot[s], f)
      BY <2>1, <3>1 DEF InClaim, ClaimedPc
    <3>3. row[f].status \in Claimable /\ row'[f].status = "PROCESSING" /\ UNCHANGED accepted
      BY <3>1, <3>2, ClaimEntry
    <3>4. accepted[f] = 0
      BY <3>1, <3>3 DEF AcceptInv, OutcomeInv
    <3> QED
      BY <2>1, <3>3, <3>4 DEF KnowledgeInv, Sending
  <2>2. CASE slot'[s].pc = "recordAccepted"
    <3>1. SendAccepted(s)
      BY <1>2, <2>2, PcEntry
    <3>2. slot'[s].email = e
      <4>1. Proceed(s, "recordAccepted")
        <5>1. ASSUME NEW f, Classified(s, f) PROVE slot'[s].pc = "recordFailure"
          BY <1>0, <5>1 DEF Classified, Local
        <5> QED
          BY <2>2, <3>1, <5>1 DEF SendAccepted
      <4> QED
        BY <1>0, <4>1 DEF Proceed, Local
    <3> QED
      BY <2>2, <3>1, <3>2, AcceptanceStep DEF KnowledgeInv
  <2>3. CASE slot'[s].pc = "recordFailure"
    <3>1. CASE SendAccepted(s)
      <4>1. Classified(s, "unknown")
        <5>1. ASSUME Proceed(s, "recordAccepted") PROVE slot'[s].pc = "recordAccepted"
          BY <1>0, <5>1 DEF Proceed, Local
        <5> QED
          BY <2>3, <3>1, <5>1 DEF SendAccepted
      <4>2. slot'[s].failure = "unknown"
        BY <1>0, <4>1 DEF Classified, Local
      <4> QED
        BY <2>3, <4>2 DEF KnowledgeInv
    <3>2. CASE SendRefused(s)
      <4>1. slot'[s].email = e
        BY <1>0, <3>2 DEF SendRefused, Classified, Local
      <4>2. accepted[e] = 0 /\ UNCHANGED accepted
        BY <1>0, <3>2 DEF SendRefused, KnowledgeInv
      <4> QED
        BY <2>3, <4>1, <4>2 DEF KnowledgeInv
    <3>3. CASE slot'[s] = Thrown(s) /\ slot[s].pc \in QueryPc
      <4>1. slot'[s].failure = "unknown"
        BY <1>0, <2>3, <3>3 DEF Thrown, Local
      <4> QED
        BY <2>3, <4>1 DEF KnowledgeInv
    <3> QED
      BY <1>2, <2>3, <3>1, <3>2, <3>3, PcEntry
  <2>4. CASE slot'[s].pc \notin ClaimedPc
    BY <2>4 DEF KnowledgeInv, ClaimedPc
  <2> QED
    BY <2>1, <2>2, <2>3, <2>4 DEF ClaimedPc
<1> QED
  BY <1>1, <1>2

\* Nothing is accepted at the start.
LEMMA AcceptInit == Init => AcceptInv
<1> SUFFICES ASSUME Init PROVE AcceptInv
  OBVIOUS
<1>1. \A s \in Slot : slot[s].pc \in {"stopped", "idle"}
  BY DEF Init, FreshLocal
<1>2. \A e \in Email : OutcomeInv(e)
  BY DEF Init, OutcomeInv
<1>3. \A s \in Slot : KnowledgeInv(s)
  BY <1>1 DEF KnowledgeInv
<1> QED
  BY <1>2, <1>3 DEF AcceptInv

\* The acceptance invariant holds throughout.
LEMMA AcceptReachable ==
    ASSUME "lateClose" \notin Faults
    PROVE  Spec => []AcceptInv
<1>1. TypeInv /\ TypeInv' /\ ClaimInv /\ AcceptInv /\ [Next]_vars => AcceptInv'
  BY OutcomeNext, KnowledgeNext DEF AcceptInv
<1> QED
  BY <1>1, AcceptInit, TypeCorrect, ClaimReachable, PTL DEF Spec

\* When a transient error is always one from before the acceptance, no
\* interleaving of slots, crashes, lost answers, stalls and restarts makes the
\* server accept an email twice.
THEOREM AcceptCorrect ==
    ASSUME "lateClose" \notin Faults
    PROVE  Spec => []AcceptedAtMostOnce
<1>1. AcceptInv => AcceptedAtMostOnce
  BY DEF AcceptInv, OutcomeInv, AcceptedAtMostOnce
<1> QED
  BY <1>1, AcceptReachable, PTL

\* Under the same assumption SENT is said only of accepted emails; FAILED, and
\* that an email may be claimed again, only of those the server never accepted.
THEOREM OutcomeCorrect ==
    ASSUME "lateClose" \notin Faults
    PROVE  Spec => []OutcomeHonest
<1>1. AcceptInv => OutcomeHonest
  BY DEF AcceptInv, OutcomeInv, OutcomeHonest
<1> QED
  BY <1>1, AcceptReachable, PTL

-----------------------------------------------------------------------------
(***************************************************************************)
(* The batch.  The two counts of updateBatchCompletion are taken at two    *)
(* different times; they describe one state because terminal rows stay.    *)
(***************************************************************************)
AllTerminal(b) == \A e \in InBatch(b) : row[e].status \in terminalStatuses
SomeUnsuccessful(b) == \E e \in InBatch(b) : row[e].status \in Unsuccessful

CountInv(s) ==
    LET b == BatchOf[slot[s].email] IN
    /\ slot[s].pc = "countUnsuccessful" => AllTerminal(b)
    /\ slot[s].pc = "updateBatch" =>
         AllTerminal(b) /\ (slot[s].unsuccessful <=> SomeUnsuccessful(b))

VerdictInv == VerdictHonest /\ \A s \in Slot : CountInv(s)

\* Counts over a batch whose rows are terminal do not change.
LEMMA CountsStable ==
    ASSUME TypeInv, [Next]_vars, NEW b \in Batch, AllTerminal(b)
    PROVE  AllTerminal(b)' /\ (SomeUnsuccessful(b)' <=> SomeUnsuccessful(b))
<1>1. \A e \in InBatch(b) : row'[e].status = row[e].status
  BY TerminalStep DEF InBatch, AllTerminal
<1> QED
  BY <1>1 DEF AllTerminal, SomeUnsuccessful, InBatch

\* What a slot has counted stays true until it writes the verdict.
LEMMA CountNext ==
    ASSUME TypeInv, TypeInv', VerdictInv, [Next]_vars, NEW s \in Slot
    PROVE  CountInv(s)'
<1> DEFINE b == BatchOf[slot[s].email]
<1>0. CountInv(s) /\ slot[s] \in Local /\ slot \in [Slot -> Local]
  BY DEF VerdictInv, TypeInv, TypeOK
<1>1. ASSUME slot[s].pc \in CompletionPc PROVE b \in Batch
  BY <1>1 DEF TypeInv
<1>2. CASE slot'[s] = slot[s]
  BY <1>0, <1>1, <1>2, CountsStable DEF CountInv
<1>3. CASE slot'[s] # slot[s] /\ slot'[s].pc = "countUnsuccessful"
  <2>1. countRemaining(s)
    BY <1>3, PcEntry
  <2>2. slot[s].pc = "countRemaining"
    BY <2>1 DEF countRemaining
  <2>3. slot'[s].email = slot[s].email
    BY <1>0, <2>1 DEF countRemaining, Proceed, Local
  <2>4. ~\E e \in BatchRows(s) : row[e].status \in Claimable \cup {"PROCESSING"}
    <3>1. AfterCompletion(s) # "countUnsuccessful"
      BY DEF AfterCompletion
    <3>2. ASSUME Proceed(s, AfterCompletion(s)) PROVE slot'[s].pc = AfterCompletion(s)
      BY <1>0, <3>2 DEF Proceed, Local
    <3> QED
      BY <1>3, <2>1, <3>1, <3>2 DEF countRemaining
  <2>5. AllTerminal(b)
    <3>1. \A e \in InBatch(b) : row[e].status \in Status
      BY DEF InBatch, TypeInv, TypeOK, Row
    <3> QED
      BY <2>4, <3>1 DEF AllTerminal, BatchRows
  <2> QED
    BY <1>1, <1>3, <2>2, <2>3, <2>5, CountsStable DEF CountInv
<1>4. CASE slot'[s] # slot[s] /\ slot'[s].pc = "updateBatch"
  <2>1. countUnsuccessful(s)
    BY <1>4, PcEntry
  <2>2. slot[s].pc = "countUnsuccessful"
    BY <2>1 DEF countUnsuccessful
  <2> DEFINE u == \E e \in BatchRows(s) : row[e].status \in Unsuccessful
  <2>3. slot' = [slot EXCEPT ![s] = [slot[s] EXCEPT !.pc = "updateBatch", !.unsuccessful = u]]
    BY <1>0, <2>1 DEF countUnsuccessful
  <2>4. u <=> SomeUnsuccessful(b)
    BY DEF SomeUnsuccessful, BatchRows
  <2> HIDE DEF u
  <2>5. slot'[s].email = slot[s].email /\ slot'[s].unsuccessful = u
    BY <1>0, <2>3 DEF Local
  <2>6. AllTerminal(b)
    BY <1>0, <2>2 DEF CountInv
  <2> QED
    BY <1>1, <1>4, <2>2, <2>4, <2>5, <2>6, CountsStable DEF CountInv
<1>5. CASE slot'[s].pc \notin {"countUnsuccessful", "updateBatch"}
  BY <1>5 DEF CountInv
<1> QED
  BY <1>2, <1>3, <1>4, <1>5

\* Only updateBatch writes the status of a batch.
LEMMA BatchStep ==
    ASSUME TypeInv, [Next]_vars
    PROVE  UNCHANGED batch \/ \E s \in Slot : updateBatch(s)
  BY DEF Next, vars, Handler, Load, Admit, Deny, recordRateLimit, claimEmail, SendAccepted,
         SendRefused, recordAccepted, recordFailure, countRemaining, countUnsuccessful, Finish,
         Startup, Start, ReadPage, AddPage, QueryFails, Crash, Take, Stall, DropJob, BecomeDue,
         Post, ReadBatch, AddBatch, FailPost, Replay

\* The verdict updateBatch writes is the one the rows deserve.
LEMMA UpdateBatchStep ==
    ASSUME TypeInv, VerdictInv, NEW s \in Slot, updateBatch(s)
    PROVE  LET b == BatchOf[slot[s].email] IN
           /\ b \in Batch
           /\ AllTerminal(b)
           /\ \A c \in Batch \ {b} : batch'[c] = batch[c]
           /\ \/ batch'[b] = "COMPLETED" /\ \A e \in InBatch(b) : row[e].status = "SENT"
              \/ batch'[b] = "PARTIALLY_FAILED" /\ \E e \in InBatch(b) : row[e].status # "SENT"
           /\ UNCHANGED <<row, accepted>>
<1> DEFINE b == BatchOf[slot[s].email]
<1>1. slot[s].pc = "updateBatch" /\ b \in Batch
  BY DEF updateBatch, TypeInv
<1>2. AllTerminal(b) /\ (slot[s].unsuccessful <=> SomeUnsuccessful(b))
  BY <1>1 DEF VerdictInv, CountInv
<1>3. /\ batch'[b] = IF slot[s].unsuccessful THEN "PARTIALLY_FAILED" ELSE "COMPLETED"
      /\ \A c \in Batch \ {b} : batch'[c] = batch[c]
  BY <1>1 DEF updateBatch, TypeInv, TypeOK
<1>4. CASE slot[s].unsuccessful
  BY <1>1, <1>2, <1>3, <1>4 DEF updateBatch, SomeUnsuccessful
<1>5. CASE ~slot[s].unsuccessful
  <2>1. \A e \in InBatch(b) : row[e].status = "SENT"
    BY <1>2, <1>5 DEF AllTerminal, SomeUnsuccessful
  <2> QED
    BY <1>1, <1>2, <1>3, <1>5, <2>1 DEF updateBatch
<1> QED
  BY <1>4, <1>5

\* Every step keeps the verdicts, and the counts under way, right.
LEMMA VerdictNext == TypeInv /\ TypeInv' /\ VerdictInv /\ [Next]_vars => VerdictInv'
<1> SUFFICES ASSUME TypeInv, TypeInv', VerdictInv, [Next]_vars PROVE VerdictHonest'
  BY CountNext DEF VerdictInv
<1> SUFFICES ASSUME NEW b \in Batch
             PROVE  /\ batch'[b] = "COMPLETED" => \A e \in InBatch(b) : row'[e].status = "SENT"
                    /\ batch'[b] = "PARTIALLY_FAILED" =>
                         /\ \A e \in InBatch(b) : row'[e].status \in terminalStatuses
                         /\ \E e \in InBatch(b) : row'[e].status # "SENT"
  BY DEF VerdictHonest, InBatch
<1>1. CASE batch'[b] = batch[b]
  <2>1. batch[b] \in {"COMPLETED", "PARTIALLY_FAILED"} => AllTerminal(b)
    BY DEF VerdictInv, VerdictHonest, AllTerminal
  <2>2. batch[b] \in {"COMPLETED", "PARTIALLY_FAILED"} => \A e \in InBatch(b) : row'[e].status = row[e].status
    BY <2>1, TerminalStep DEF AllTerminal, InBatch
  <2> QED
    BY <1>1, <2>2 DEF VerdictInv, VerdictHonest
<1>2. CASE batch'[b] # batch[b]
  <2>1. PICK s \in Slot : updateBatch(s)
    BY <1>2, BatchStep
  <2>2. BatchOf[slot[s].email] = b
    BY <1>2, <2>1, UpdateBatchStep
  <2> QED
    BY <2>1, <2>2, UpdateBatchStep DEF AllTerminal
<1> QED
  BY <1>1, <1>2

\* Every batch is open at the start.
LEMMA VerdictInit == Init => VerdictInv
  BY DEF Init, VerdictInv, VerdictHonest, CountInv, FreshLocal

\* The verdict invariant holds throughout.
LEMMA VerdictReachable == Spec => []VerdictInv
  BY VerdictInit, VerdictNext, TypeCorrect, PTL DEF Spec

\* A batch is COMPLETED only when all its emails are SENT, and PARTIALLY_FAILED
\* only when all are terminal and some are not, although slots count and write
\* the verdict outside any transaction.
THEOREM VerdictCorrect == Spec => []VerdictHonest
<1>1. VerdictInv => VerdictHonest
  BY DEF VerdictInv
<1> QED
  BY <1>1, VerdictReachable, PTL

-----------------------------------------------------------------------------
(***************************************************************************)
(* The audit trail.  A slot in its claim holds the number of the last      *)
(* attempt, so nothing it writes reaches an earlier one.                   *)
(***************************************************************************)
Closed == {"RATE_LIMITED", "TRANSIENT_FAILURE"}

TrailInv(e) ==
    \A n \in 1..AttemptBound :
        \/ n < row[e].attemptCount
        \/ n = row[e].attemptCount /\ row[e].status \in Claimable
        => attempt[e][n] \in Closed

TokenInv == \A s \in Slot : InClaim(slot[s], slot[s].email) => slot[s].token = row[slot[s].email].attemptCount

AuditInv == TokenInv /\ \A e \in Email : TrailInv(e)

\* A new attempt, made while the row was claimable, follows closed ones only.
LEMMA NewAttemptTrail ==
    ASSUME TypeInv, TypeInv', AuditInv, NEW f \in Email, NEW outcome,
           row[f].status \in Claimable,
           row'[f].attemptCount = row[f].attemptCount + 1,
           row'[f].status \in Claimable => outcome \in Closed,
           \A g \in Email \ {f} : row'[g] = row[g],
           Wrote(f, row[f].attemptCount + 1, outcome),
           NEW e \in Email
    PROVE  TrailInv(e)'
<1>0. TrailInv(e) /\ row[e].attemptCount \in Nat
  BY DEF AuditInv, TypeInv, TypeOK, Row
<1>1. \A m \in 1..AttemptBound :
        attempt'[e][m] = IF e = f /\ m = row[f].attemptCount + 1 THEN outcome ELSE attempt[e][m]
  BY DEF Wrote
<1>2. CASE e # f
  BY <1>0, <1>1, <1>2 DEF TrailInv
<1>3. CASE e = f
  BY <1>0, <1>1, <1>3 DEF TrailInv
<1> QED
  BY <1>2, <1>3

\* Recording an outcome writes the last attempt of a row, and closes it when the
\* row becomes claimable.
LEMMA OutcomeTrail ==
    ASSUME TypeInv, ClaimInv, AuditInv, NEW s \in Slot,
           slot[s].pc \in {"recordAccepted", "recordFailure"},
           NEW status \in Status, NEW due \in BOOLEAN, NEW outcome \in Outcome,
           status \in Claimable => outcome \in Closed,
           Outcomes(s, status, due, outcome),
           NEW e \in Email
    PROVE  TrailInv(e)'
<1> DEFINE f == slot[s].email
<1>1. f \in Email /\ InClaim(slot[s], f)
  BY DEF TypeInv, InClaim, ClaimedPc
<1>2. slot[s].token = row[f].attemptCount
  BY <1>1 DEF AuditInv, TokenInv
<1>4. \A m \in 1..AttemptBound :
        attempt'[e][m] = IF e = f /\ m = row[f].attemptCount THEN outcome ELSE attempt[e][m]
  BY <1>1, <1>2, OutcomesRow DEF Wrote
<1>5. TrailInv(e) /\ row[e].attemptCount \in Nat
  BY DEF AuditInv, TypeInv, TypeOK, Row
<1>6. CASE e # f
  <2>1. row'[e].status = row[e].status /\ row'[e].attemptCount = row[e].attemptCount
    BY <1>1, <1>6, OutcomesRow
  <2> QED
    BY <1>4, <1>5, <1>6, <2>1 DEF TrailInv
<1>7. CASE e = f
  <2>1. /\ row'[e].attemptCount = row[e].attemptCount
        /\ row'[e].status = status \/ row'[e].status = row[e].status
    BY <1>1, <1>7, OutcomesRow
  <2>2. row[e].status \notin Claimable
    BY <1>1, <1>7 DEF ClaimInv
  <2>3. row'[e].status \in Claimable => outcome \in Closed
    BY <2>1, <2>2
  <2> QED
    BY <1>4, <1>5, <1>7, <2>1, <2>3 DEF TrailInv
<1> QED
  BY <1>6, <1>7

\* The number of attempts of a row grows only while the row is claimable.
LEMMA AttemptCountStep ==
    ASSUME TypeInv, [Next]_vars, NEW e \in Email, row[e].status \notin Claimable
    PROVE  row'[e].attemptCount = row[e].attemptCount
<1>1. ASSUME NEW s \in Slot, recordRateLimit(s) \/ claimEmail(s)
      PROVE  row'[e] = row[e]
  <2>1. \/ UNCHANGED row
        \/ /\ row[slot[s].email].status \in Claimable
           /\ \A f \in Email \ {slot[s].email} : row'[f] = row[f]
    BY <1>1, RateLimitRow, ClaimRow
  <2> QED
    BY <2>1
<1>2. ASSUME NEW s \in Slot, recordAccepted(s) \/ recordFailure(s)
      PROVE  row'[e].attemptCount = row[e].attemptCount
  <2>1. slot[s].email \in Email
    BY <1>2 DEF TypeInv, recordAccepted, recordFailure
  <2>2. \/ UNCHANGED row
        \/ \E status \in Status, due \in BOOLEAN, outcome \in Outcome : Outcomes(s, status, due, outcome)
    BY <1>2 DEF recordAccepted, recordFailure
  <2> QED
    BY <2>1, <2>2, OutcomesRow
<1>3. ASSUME NEW s \in Slot, Start(s) PROVE row'[e].attemptCount = row[e].attemptCount
  BY <1>3, StartRow
<1> QED
  BY <1>1, <1>2, <1>3, QuietSteps DEF SameRows

\* A step inside a claim keeps the token of the claim.
LEMMA TokenStep ==
    ASSUME TypeInv, [Next]_vars, NEW s \in Slot, NEW e \in Email,
           InClaim(slot[s], e), InClaim(slot'[s], e)
    PROVE  slot'[s].token = slot[s].token
<1>0. slot \in [Slot -> Local] /\ slot[s] \in Local
  BY DEF TypeInv, TypeOK
<1>1. CASE slot'[s] = slot[s]
  BY <1>1
<1>2. CASE slot'[s] # slot[s]
  <2>1. ASSUME NEW pc, slot'[s] = [slot[s] EXCEPT !.pc = pc] PROVE slot'[s].token = slot[s].token
    BY <1>0, <2>1 DEF Local
  <2>2. ASSUME NEW f, Classified(s, f) PROVE slot'[s].token = slot[s].token
    BY <1>0, <2>2 DEF Classified, Local
  <2>3. ASSUME slot'[s] = Thrown(s), slot[s].pc \in QueryPc PROVE slot'[s].token = slot[s].token
    BY <2>3, ThrownType
  <2>4. slot[s].pc \in ClaimedPc \cup CompletionPc
    BY DEF InClaim
  <2>5. ASSUME NEW t \in Slot, Handler(t) PROVE slot'[s].token = slot[s].token
    <3>1. CASE SendAccepted(t) \/ SendRefused(t)
      <4>1. Proceed(t, "recordAccepted") \/ \E f : Classified(t, f)
        BY <3>1 DEF SendAccepted, SendRefused
      <4>2. t = s
        BY <1>0, <1>2, <4>1 DEF Proceed, Classified
      <4>3. ASSUME Proceed(s, "recordAccepted") PROVE slot'[s] = [slot[s] EXCEPT !.pc = "recordAccepted"]
        BY <1>0, <4>3 DEF Proceed
      <4> QED
        BY <2>1, <2>2, <4>1, <4>2, <4>3
    <3>2. CASE recordAccepted(t) \/ recordFailure(t) \/ updateBatch(t)
      <4>1. t = s /\ slot[s].pc \in QueryPc
        BY <1>0, <1>2, <3>2 DEF recordAccepted, recordFailure, updateBatch, Committed, Proceed
      <4>2. slot'[s] = Thrown(s) \/ \E pc : slot'[s] = [slot[s] EXCEPT !.pc = pc]
        BY <1>0, <3>2, <4>1 DEF recordAccepted, recordFailure, updateBatch, Committed, Proceed
      <4> QED
        BY <2>1, <2>3, <4>1, <4>2
    <3>3. CASE countRemaining(t)
      BY <1>0, <1>2, <2>1, <3>3 DEF countRemaining, Proceed
    <3>4. CASE countUnsuccessful(t)
      <4>1. PICK u : slot' = [slot EXCEPT ![t] = [slot[t] EXCEPT !.pc = "updateBatch", !.unsuccessful = u]]
        BY <1>0, <3>4 DEF countUnsuccessful
      <4> QED
        BY <1>0, <1>2, <4>1 DEF Local
    <3>5. CASE Load(t) \/ Admit(t) \/ Deny(t) \/ recordRateLimit(t) \/ claimEmail(t) \/ Finish(t)
      <4>1. slot[t].pc \notin ClaimedPc \cup CompletionPc
        BY <3>5 DEF Load, Admit, Deny, recordRateLimit, claimEmail, Finish, ClaimedPc
      <4>2. t = s
        BY <1>0, <1>2, <3>5 DEF Load, Admit, Deny, recordRateLimit, claimEmail, Finish, Proceed, Committed
      <4> QED
        BY <2>4, <4>1, <4>2
    <3> QED
      BY <2>5, <3>1, <3>2, <3>3, <3>4, <3>5 DEF Handler
  <2>6. ASSUME NEW t \in Slot, Startup(t) PROVE FALSE
    <3>1. slot[t].pc \notin ClaimedPc \cup CompletionPc
      BY <2>6 DEF Startup, Start, ReadPage, AddPage, ClaimedPc
    <3>2. t = s
      BY <1>0, <1>2, <2>6 DEF Startup, Start, ReadPage, AddPage, Proceed
    <3> QED
      BY <2>4, <3>1, <3>2
  <2>7. ASSUME NEW t \in Slot, QueryFails(t) PROVE slot'[s].token = slot[s].token
    BY <1>0, <1>2, <2>3, <2>7 DEF QueryFails
  <2>8. ASSUME NEW t \in Slot, Crash(t) PROVE FALSE
    <3>1. slot'[s].pc = "stopped"
      BY <1>0, <1>2, <2>8 DEF Crash, FreshLocal
    <3> QED
      BY <3>1 DEF InClaim, ClaimedPc
  <2>9. ASSUME NEW t \in Slot, NEW f \in Email, Take(t, f) PROVE FALSE
    <3>1. slot[s].pc = "idle"
      BY <1>0, <1>2, <2>9 DEF Take
    <3> QED
      BY <2>4, <3>1 DEF ClaimedPc
  <2>10. ASSUME NEW f \in Email, Stall(f) \/ DropJob(f) \/ BecomeDue(f) PROVE FALSE
    BY <1>2, <2>10 DEF Stall, DropJob, BecomeDue
  <2>11. ASSUME NEW b \in Batch, Post(b) \/ FailPost(b) \/ Replay(b) PROVE FALSE
    BY <1>2, <2>11 DEF Post, ReadBatch, AddBatch, FailPost, Replay
  <2>12. ASSUME UNCHANGED vars PROVE FALSE
    BY <1>2, <2>12 DEF vars
  <2> QED
    BY <2>5, <2>6, <2>7, <2>8, <2>9, <2>10, <2>11, <2>12 DEF Next
<1> QED
  BY <1>1, <1>2

\* Every step leaves only unsent attempts behind the latest one.
LEMMA AuditNext == TypeInv /\ TypeInv' /\ ClaimInv /\ AuditInv /\ [Next]_vars => AuditInv'
<1> SUFFICES ASSUME TypeInv, TypeInv', ClaimInv, AuditInv, [Next]_vars
             PROVE  AuditInv'
  OBVIOUS
<1>1. ASSUME NEW s \in Slot, InClaim(slot'[s], slot'[s].email)
      PROVE  slot'[s].token = row'[slot'[s].email].attemptCount
  <2> DEFINE e == slot'[s].email
  <2>1. e \in Email
    BY <1>1 DEF TypeInv, InClaim, ClaimedPc
  <2>2. CASE InClaim(slot[s], e)
    <3>1. slot[s].email = e /\ row[e].status \notin Claimable
      BY <2>1, <2>2 DEF InClaim, ClaimInv
    <3>2. slot[s].token = row[e].attemptCount
      BY <2>2, <3>1 DEF AuditInv, TokenInv
    <3> QED
      BY <1>1, <2>1, <2>2, <3>1, <3>2, TokenStep, AttemptCountStep
  <2>3. CASE ~InClaim(slot[s], e)
    BY <1>1, <2>1, <2>3, ClaimEntry
  <2> QED
    BY <2>2, <2>3
<1>2. ASSUME NEW e \in Email PROVE TrailInv(e)'
  <2>0. TrailInv(e)
    BY DEF AuditInv
  <2>1. CASE SameRows /\ UNCHANGED attempt
    BY <2>0, <2>1 DEF SameRows, TrailInv
  <2>2. ASSUME NEW s \in Slot, recordRateLimit(s) PROVE TrailInv(e)'
    <3>1. slot[s].email \in Email
      BY <2>2 DEF TypeInv, recordRateLimit
    <3>2. CASE UNCHANGED <<row, attempt>>
      BY <2>0, <3>2 DEF TrailInv
    <3>3. CASE ~UNCHANGED <<row, attempt>>
      BY <2>2, <3>1, <3>3, RateLimitRow, NewAttemptTrail DEF Closed
    <3> QED
      BY <3>2, <3>3
  <2>3. ASSUME NEW s \in Slot, claimEmail(s) PROVE TrailInv(e)'
    <3>1. slot[s].email \in Email
      BY <2>3 DEF TypeInv, claimEmail
    <3>2. CASE UNCHANGED <<row, attempt>>
      BY <2>0, <3>2 DEF TrailInv
    <3>3. CASE ~UNCHANGED <<row, attempt>>
      <4>1. PICK f \in Email : f = slot[s].email
        BY <3>1
      <4>2. /\ row[f].status \in Claimable
            /\ row'[f].status \notin Claimable
            /\ row'[f].attemptCount = row[f].attemptCount + 1
            /\ Wrote(f, row[f].attemptCount + 1, "CLAIMED")
            /\ \A g \in Email \ {f} : row'[g] = row[g]
        BY <2>3, <3>3, <4>1, ClaimRow
      <4> QED
        BY <4>2, NewAttemptTrail
    <3> QED
      BY <3>2, <3>3
  <2>4. ASSUME NEW s \in Slot, recordAccepted(s) \/ recordFailure(s) PROVE TrailInv(e)'
    <3>1. slot[s].pc \in {"recordAccepted", "recordFailure"}
      BY <2>4 DEF recordAccepted, recordFailure
    <3>2. CASE UNCHANGED <<row, attempt>>
      BY <2>0, <3>2 DEF TrailInv
    <3>3. CASE \E status \in Status, due \in BOOLEAN, outcome \in Outcome :
                 /\ status \in Claimable => outcome \in Closed
                 /\ Outcomes(s, status, due, outcome)
      BY <3>1, <3>3, OutcomeTrail
    <3> QED
      BY <2>4, <3>2, <3>3 DEF recordAccepted, recordFailure, Closed
  <2>5. ASSUME NEW s \in Slot, Start(s) PROVE TrailInv(e)'
    <3>1. /\ UNCHANGED attempt
          /\ row'[e].attemptCount = row[e].attemptCount
          /\ row'[e].status \in Claimable => row[e].status \in Claimable
      BY <2>5, StartRow
    <3> QED
      BY <2>0, <3>1 DEF TrailInv
  <2> QED
    BY <2>1, <2>2, <2>3, <2>4, <2>5, QuietSteps
<1> QED
  BY <1>1, <1>2 DEF AuditInv, TokenInv

\* No attempt is made at the start.
LEMMA AuditInit == Init => AuditInv
  BY DEF Init, AuditInv, TokenInv, TrailInv, InClaim, ClaimedPc, FreshLocal

\* Every attempt but the last of an email is a rate deferral or a transient
\* failure: an ambiguous or open attempt is never followed by another.
THEOREM AuditCorrect == Spec => []AmbiguousNeverRetried
<1>1. AuditInv => AmbiguousNeverRetried
  BY DEF AuditInv, TrailInv, AmbiguousNeverRetried, Closed
<1> QED
  BY <1>1, AuditInit, AuditNext, TypeCorrect, ClaimReachable, PTL DEF Spec
=============================================================================

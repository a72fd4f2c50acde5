---------------------- MODULE EmailProcessor_refinement ----------------------
(***************************************************************************)
(* EmailProcessor implements DeliveryContract, for every value of the      *)
(* constants without "lateClose": its initial states map to the contract's *)
(* initial state, and every step to a step of the contract or a stutter.   *)
(***************************************************************************)
EXTENDS EmailProcessor_proofs

USE BatchAssumption
USE DEF Claimable, Unsuccessful, terminalStatuses, Status

Mapped(e) == Delivery(row[e].status)

\* The status of a row decides what the contract sees of it.
LEMMA DeliveryOf ==
    /\ \A status \in Claimable : Delivery(status) = "pending"
    /\ Delivery("PROCESSING") = "sending"
    /\ Delivery("SENT") = "sent"
    /\ Delivery("FAILED") = "failed"
    /\ Delivery("DELIVERY_UNKNOWN") = "unknown"
    /\ Delivery("CANCELLED") = "unknown"
  BY DEF Delivery

\* The initial states of the processor map to those of the contract.
LEMMA ContractInit == Init => Contract!Init
<1> SUFFICES ASSUME Init PROVE Contract!Init
  OBVIOUS
<1>1. \A e \in Email : row[e].status = "SCHEDULED"
  BY DEF Init
<1>2. \A e \in Email : Delivery(row[e].status) = "pending"
  BY <1>1, DeliveryOf
<1>3. \A b \in Batch : Verdict(batch[b]) = "open"
  BY DEF Init, Verdict
<1> QED
  BY <1>2, <1>3 DEF Init, Contract!Init

\* A step that moves no status, no batch and no count is a stutter.
LEMMA Stutter ==
    ASSUME SameRows, UNCHANGED <<batch, accepted>>
    PROVE  UNCHANGED Contract!vars
  BY DEF SameRows, Contract!vars

\* A step that changes the status of one row is a report of the contract.
LEMMA OneReport ==
    ASSUME NEW e \in Email, NEW from, NEW to,
           \A f \in Email \ {e} : row'[f].status = row[f].status,
           Mapped(e) = from, Mapped(e)' = to,
           UNCHANGED <<batch, accepted>>
    PROVE  Contract!Report(e, from, to)
<1> DEFINE D == [f \in Email |-> Delivery(row[f].status)]
<1>1. D' = [D EXCEPT ![e] = to]
  BY DEF Mapped
<1>2. D[e] = from
  BY DEF Mapped
<1> QED
  BY <1>1, <1>2 DEF Contract!Report

\* Rows that leave PROCESSING for DELIVERY_UNKNOWN together are given up.
LEMMA ManyGivenUp ==
    ASSUME \A e \in Email : \/ row'[e].status = row[e].status
                            \/ row[e].status = "PROCESSING" /\ row'[e].status = "DELIVERY_UNKNOWN",
           UNCHANGED <<batch, accepted>>
    PROVE  \E S \in SUBSET Email : Contract!GiveUp(S)
<1> DEFINE D == [f \in Email |-> Delivery(row[f].status)]
           S == {e \in Email : row'[e].status # row[e].status}
<1>1. \A e \in S : D[e] = "sending"
  BY DeliveryOf
<1>2. D' = [e \in Email |-> IF e \in S THEN "unknown" ELSE D[e]]
  BY DeliveryOf
<1>3. Contract!GiveUp(S)
  BY <1>1, <1>2 DEF Contract!GiveUp
<1> QED
  BY <1>3

\* The claim that wins begins the delivery.
LEMMA ClaimBegins ==
    ASSUME TypeInv, NEW s \in Slot, claimEmail(s)
    PROVE  UNCHANGED Contract!vars \/ \E e \in Email : Contract!Begin(e)
<1>1. UNCHANGED <<batch, accepted>> /\ slot[s].email \in Email
  BY DEF claimEmail, TypeInv, RunPc, QueryPc
<1>2. CASE UNCHANGED <<row, attempt>>
  BY <1>1, <1>2, Stutter DEF SameRows
<1>3. CASE ~UNCHANGED <<row, attempt>>
  <2>1. PICK e \in Email : e = slot[s].email
    BY <1>1
  <2>2. /\ row[e].status \in Claimable
        /\ row'[e].status = "PROCESSING"
        /\ \A f \in Email \ {e} : row'[f] = row[f]
    BY <1>3, <2>1, ClaimRow
  <2>3. Mapped(e) = "pending" /\ Mapped(e)' = "sending"
    BY <2>2, DeliveryOf DEF Mapped
  <2> QED
    BY <1>1, <2>2, <2>3, OneReport DEF Contract!Begin
<1> QED
  BY <1>2, <1>3

\* A deferral takes a row from one claimable status to another.
LEMMA DeferralStutters ==
    ASSUME TypeInv, NEW s \in Slot, recordRateLimit(s)
    PROVE  UNCHANGED Contract!vars
<1>1. UNCHANGED <<batch, accepted>> /\ slot[s].email \in Email
  BY DEF recordRateLimit, TypeInv, RunPc, QueryPc
<1>2. \A e \in Email : \/ row'[e].status = row[e].status
                       \/ row[e].status \in Claimable /\ row'[e].status \in Claimable
  BY <1>1, RateLimitRow
<1>3. \A e \in Email : Mapped(e)' = Mapped(e)
  BY <1>2, DeliveryOf DEF Mapped
<1> QED
  BY <1>1, <1>3 DEF Mapped, Contract!vars

\* The outcome a slot writes is a report about the email it claimed.
LEMMA OutcomeReports ==
    ASSUME TypeInv, NEW s \in Slot, slot[s].email \in Email,
           NEW status \in Status, NEW due \in BOOLEAN, NEW outcome \in Outcome,
           Outcomes(s, status, due, outcome), UNCHANGED <<batch, accepted>>
    PROVE  \/ UNCHANGED Contract!vars
           \/ /\ row[slot[s].email].status = "PROCESSING"
              /\ Contract!Report(slot[s].email, "sending", Delivery(status))
<1>1. PICK e \in Email : e = slot[s].email
  OBVIOUS
<1>2. \A f \in Email : IF f = e /\ OwnsClaim(s) THEN row'[f].status = status ELSE row'[f] = row[f]
  BY <1>1, OutcomesRow
<1>3. CASE OwnsClaim(s)
  <2>1. row[e].status = "PROCESSING"
    BY <1>1, <1>3 DEF OwnsClaim
  <2>2. Mapped(e) = "sending" /\ Mapped(e)' = Delivery(status)
    BY <1>2, <1>3, <2>1, DeliveryOf DEF Mapped
  <2>3. Contract!Report(e, "sending", Delivery(status))
    BY <1>2, <2>2, OneReport
  <2> QED
    BY <1>1, <2>1, <2>3
<1>4. CASE ~OwnsClaim(s)
  BY <1>2, <1>4, Stutter DEF SameRows
<1> QED
  BY <1>3, <1>4

\* recordAccepted confirms an acceptance that happened.
LEMMA AcceptanceConfirmed ==
    ASSUME TypeInv, AcceptInv, NEW s \in Slot, recordAccepted(s)
    PROVE  UNCHANGED Contract!vars \/ \E e \in Email : Contract!Confirm(e)
<1>1. UNCHANGED <<batch, accepted>> /\ slot[s].email \in Email /\ accepted[slot[s].email] = 1
  BY DEF recordAccepted, TypeInv, RunPc, QueryPc, AcceptInv, KnowledgeInv
<1>2. CASE UNCHANGED row
  BY <1>1, <1>2, Stutter DEF SameRows
<1>3. CASE ~UNCHANGED row
  <2>1. \E due \in BOOLEAN, outcome \in Outcome : Outcomes(s, "SENT", due, outcome)
    BY <1>3 DEF recordAccepted, Outcome
  <2>2. UNCHANGED Contract!vars \/ Contract!Report(slot[s].email, "sending", "sent")
    BY <1>1, <2>1, OutcomeReports, DeliveryOf
  <2> QED
    BY <1>1, <2>2 DEF Contract!Confirm
<1> QED
  BY <1>2, <1>3

\* recordFailure postpones or rejects what was not accepted, or gives it up.
LEMMA FailureReported ==
    ASSUME TypeInv, AcceptInv, NEW s \in Slot, recordFailure(s)
    PROVE  \/ UNCHANGED Contract!vars
           \/ \E e \in Email : Contract!Postpone(e) \/ Contract!Reject(e)
           \/ \E S \in SUBSET Email : Contract!GiveUp(S)
<1>1. UNCHANGED <<batch, accepted>> /\ slot[s].email \in Email
  BY DEF recordFailure, TypeInv, RunPc, QueryPc
<1>2. ASSUME NEW status \in {"RETRYABLE", "FAILED"}, NEW due \in BOOLEAN, NEW outcome \in Outcome,
             slot[s].failure \in {"transient", "permanent"}, Outcomes(s, status, due, outcome)
      PROVE  \/ UNCHANGED Contract!vars
             \/ \E e \in Email : Contract!Postpone(e) \/ Contract!Reject(e)
  <2>1. accepted[slot[s].email] = 0
    BY <1>2 DEF recordFailure, AcceptInv, KnowledgeInv
  <2>2. UNCHANGED Contract!vars \/ Contract!Report(slot[s].email, "sending", Delivery(status))
    BY <1>1, <1>2, OutcomeReports
  <2>3. Delivery(status) \in {"pending", "failed"}
    BY DeliveryOf
  <2> QED
    BY <1>1, <2>1, <2>2, <2>3 DEF Contract!Postpone, Contract!Reject
<1>3. ASSUME NEW due \in BOOLEAN, NEW outcome \in Outcome,
             Outcomes(s, "DELIVERY_UNKNOWN", due, outcome)
      PROVE  \E S \in SUBSET Email : Contract!GiveUp(S)
  <2>1. \A e \in Email : IF e = slot[s].email /\ OwnsClaim(s)
                         THEN row'[e].status = "DELIVERY_UNKNOWN" ELSE row'[e] = row[e]
    BY <1>1, <1>3, OutcomesRow
  <2>2. \A e \in Email : \/ row'[e].status = row[e].status
                         \/ row[e].status = "PROCESSING" /\ row'[e].status = "DELIVERY_UNKNOWN"
    BY <2>1 DEF OwnsClaim
  <2> QED
    BY <1>1, <2>2, ManyGivenUp
<1>4. \/ \E status \in {"RETRYABLE", "FAILED"}, due \in BOOLEAN, outcome \in Outcome :
           slot[s].failure \in {"transient", "permanent"} /\ Outcomes(s, status, due, outcome)
      \/ \E due \in BOOLEAN, outcome \in Outcome : Outcomes(s, "DELIVERY_UNKNOWN", due, outcome)
  BY DEF recordFailure, Outcome
<1> QED
  BY <1>2, <1>3, <1>4

\* The server's acceptance is the contract's.
LEMMA AcceptanceMapped ==
    ASSUME TypeInv, AcceptInv, NEW s \in Slot, SendAccepted(s)
    PROVE  \E e \in Email : Contract!Accept(e)
<1>1. PICK e \in Email : e = slot[s].email
  BY AcceptanceStep
<1>2. /\ row[e].status \in Sending
      /\ accepted[e] = 0
      /\ accepted' = [accepted EXCEPT ![e] = 1]
      /\ UNCHANGED <<row, batch>>
  BY <1>1, AcceptanceStep DEF SendAccepted
<1>3. Delivery(row[e].status) \in {"sending", "unknown"}
  BY <1>2, DeliveryOf DEF Sending
<1> QED
  BY <1>2, <1>3 DEF Contract!Accept

\* The verdict is the contract's when it is given, and a stutter when repeated.
LEMMA VerdictMapped ==
    ASSUME TypeInv, VerdictInv, NEW s \in Slot, updateBatch(s)
    PROVE  UNCHANGED Contract!vars \/ \E b \in Batch : Contract!Close(b)
<1>1. PICK b \in Batch : b = BatchOf[slot[s].email]
  BY UpdateBatchStep
<1>2. /\ AllTerminal(b)
      /\ \A c \in Batch \ {b} : batch'[c] = batch[c]
      /\ \/ batch'[b] = "COMPLETED" /\ \A e \in InBatch(b) : row[e].status = "SENT"
         \/ batch'[b] = "PARTIALLY_FAILED" /\ \E e \in InBatch(b) : row[e].status # "SENT"
      /\ UNCHANGED <<row, accepted>>
  BY <1>1, UpdateBatchStep
<1>3. batch[b] \in {"SCHEDULED", "COMPLETED", "PARTIALLY_FAILED"}
  BY DEF TypeInv, TypeOK
<1>4. CASE batch[b] = "SCHEDULED"
  <2> DEFINE D == [e \in Email |-> Delivery(row[e].status)]
             V == [c \in Batch |-> Verdict(batch[c])]
             deserved == IF \A e \in InBatch(b) : D[e] = "sent" THEN "completed" ELSE "partial"
  <2>1. \A e \in InBatch(b) : e \in Email /\ row[e].status \in terminalStatuses
    BY <1>2 DEF AllTerminal, InBatch
  <2>2. \A e \in InBatch(b) : D[e] \in Contract!Final /\ (D[e] = "sent" <=> row[e].status = "SENT")
    BY <2>1, DeliveryOf DEF Contract!Final
  <2>3. Verdict("SCHEDULED") = "open" /\ Verdict("COMPLETED") = "completed" /\ Verdict("PARTIALLY_FAILED") = "partial"
    BY DEF Verdict
  <2>4. Verdict(batch'[b]) = deserved
    BY <1>2, <2>2, <2>3
  <2>5. V[b] = "open" /\ V' = [V EXCEPT ![b] = deserved]
    BY <1>2, <1>4, <2>3, <2>4
  <2>6. Contract!InBatch(b) = InBatch(b)
    BY DEF Contract!InBatch, InBatch
  <2>7. \A e \in Contract!InBatch(b) : D[e] \in Contract!Final
    BY <2>2, <2>6
  <2>8. deserved = IF \A e \in Contract!InBatch(b) : D[e] = "sent" THEN "completed" ELSE "partial"
    BY <2>6
  <2>9. UNCHANGED <<D, accepted>>
    BY <1>2
  <2>10. Contract!Close(b)
    BY <2>5, <2>7, <2>8, <2>9 DEF Contract!Close
  <2> QED
    BY <2>10
<1>5. CASE batch[b] # "SCHEDULED"
  <2>1. batch'[b] = batch[b]
    BY <1>2, <1>3, <1>5 DEF VerdictInv, VerdictHonest
  <2>2. \A c \in Batch : batch'[c] = batch[c]
    BY <1>2, <2>1
  <2> QED
    BY <1>2, <2>2 DEF Contract!vars
<1> QED
  BY <1>4, <1>5

\* Every step of the processor is a step of the contract or a stutter.
LEMMA ContractNext ==
    TypeInv /\ AcceptInv /\ VerdictInv /\ [Next]_vars => [Contract!Next]_(Contract!vars)
<1> SUFFICES ASSUME TypeInv, AcceptInv, VerdictInv, [Next]_vars
             PROVE  Contract!Next \/ UNCHANGED Contract!vars
  OBVIOUS
<1>1. ASSUME NEW s \in Slot, claimEmail(s) PROVE Contract!Next \/ UNCHANGED Contract!vars
  BY <1>1, ClaimBegins DEF Contract!Next
<1>2. ASSUME NEW s \in Slot, recordRateLimit(s) PROVE UNCHANGED Contract!vars
  BY <1>2, DeferralStutters
<1>3. ASSUME NEW s \in Slot, recordAccepted(s) PROVE Contract!Next \/ UNCHANGED Contract!vars
  BY <1>3, AcceptanceConfirmed DEF Contract!Next
<1>4. ASSUME NEW s \in Slot, recordFailure(s) PROVE Contract!Next \/ UNCHANGED Contract!vars
  BY <1>4, FailureReported DEF Contract!Next
<1>5. ASSUME NEW s \in Slot, SendAccepted(s) PROVE Contract!Next
  BY <1>5, AcceptanceMapped DEF Contract!Next
<1>6. ASSUME NEW s \in Slot, updateBatch(s) PROVE Contract!Next \/ UNCHANGED Contract!vars
  BY <1>6, VerdictMapped DEF Contract!Next
<1>7. ASSUME NEW s \in Slot, Start(s) PROVE Contract!Next
  <2>1. UNCHANGED <<batch, accepted>>
    BY <1>7 DEF Start
  <2>2. \A e \in Email : \/ row'[e].status = row[e].status
                         \/ row[e].status = "PROCESSING" /\ row'[e].status = "DELIVERY_UNKNOWN"
    BY <1>7, StartRow
  <2> QED
    BY <2>1, <2>2, ManyGivenUp DEF Contract!Next
<1>8. CASE SameRows /\ UNCHANGED <<batch, accepted>>
  BY <1>8, Stutter
<1> QED
  BY <1>1, <1>2, <1>3, <1>4, <1>5, <1>6, <1>7, <1>8, QuietSteps, AcceptedStep, BatchStep

\* Unless the server hangs up late, what rows and batches report is exactly what
\* the contract allows, whatever slots, crashes, lost answers and restarts do.
THEOREM ContractImplemented ==
    ASSUME "lateClose" \notin Faults
    PROVE  Spec => ImplementsContract
<1> QED
  BY ContractInit, ContractNext, TypeCorrect, AcceptReachable, VerdictReachable, PTL
  DEF Spec, ImplementsContract, Contract!Spec
=============================================================================

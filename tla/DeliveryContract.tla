-------------------------- MODULE DeliveryContract --------------------------
(***************************************************************************)
(* What the scheduler promises about a recipient and about a batch, with   *)
(* no queue, worker, claim or database: an email is handed to the SMTP     *)
(* server at most once, an outcome once reported is final and true, and a  *)
(* batch is closed with the verdict its emails deserve.  EmailProcessor    *)
(* implements this module.                                                 *)
(***************************************************************************)
EXTENDS Naturals

CONSTANTS Email, Batch, BatchOf

VARIABLES
    delivery,   \* what the scheduler reports of an email
    accepted,   \* how often the SMTP server took responsibility for it
    verdict     \* what the scheduler reports of a batch

vars == <<delivery, accepted, verdict>>

Final == {"sent", "failed", "unknown"}
InBatch(b) == {e \in Email : BatchOf[e] = b}

Init ==
    /\ delivery = [e \in Email |-> "pending"]
    /\ accepted = [e \in Email |-> 0]
    /\ verdict = [b \in Batch |-> "open"]

Report(e, from, to) ==
    /\ delivery[e] = from
    /\ delivery' = [delivery EXCEPT ![e] = to]
    /\ UNCHANGED <<accepted, verdict>>

Begin(e) == Report(e, "pending", "sending")

\* The server accepts during a send, or after the scheduler stopped waiting.
Accept(e) ==
    /\ delivery[e] \in {"sending", "unknown"}
    /\ accepted[e] = 0
    /\ accepted' = [accepted EXCEPT ![e] = 1]
    /\ UNCHANGED <<delivery, verdict>>

Confirm(e)  == accepted[e] = 1 /\ Report(e, "sending", "sent")
Reject(e)   == accepted[e] = 0 /\ Report(e, "sending", "failed")
Postpone(e) == accepted[e] = 0 /\ Report(e, "sending", "pending")

\* Any number of sends may be given up together: nothing is claimed of them.
GiveUp(S) ==
    /\ \A e \in S : delivery[e] = "sending"
    /\ delivery' = [e \in Email |-> IF e \in S THEN "unknown" ELSE delivery[e]]
    /\ UNCHANGED <<accepted, verdict>>

Close(b) ==
    /\ verdict[b] = "open"
    /\ \A e \in InBatch(b) : delivery[e] \in Final
    /\ verdict' = [verdict EXCEPT ![b] =
           IF \A e \in InBatch(b) : delivery[e] = "sent" THEN "completed" ELSE "partial"]
    /\ UNCHANGED <<delivery, accepted>>

Next ==
    \/ \E e \in Email : \/ Begin(e)
                        \/ Accept(e)
                        \/ Confirm(e)
                        \/ Reject(e)
                        \/ Postpone(e)
    \/ \E S \in SUBSET Email : GiveUp(S)
    \/ \E b \in Batch : Close(b)

Spec == Init /\ [][Next]_vars
=============================================================================

---------------------------- MODULE BatchContract ----------------------------
(***************************************************************************)
(* What POST /email-batches promises to the compose dialogs, with no       *)
(* transaction, lock, snapshot or connection: a key gets one batch at      *)
(* most, at once with all its rows and from a form that was sent with it;  *)
(* the batch is never replaced or taken back; success is answered when a   *)
(* first page of its rows is queued, and as a creation to one request      *)
(* only; and a dialog that is told of success asks no more.  That the rows *)
(* beyond one page are queued is not promised, for the code does not do    *)
(* it.  BatchCreation implements this contract.                            *)
(***************************************************************************)
EXTENDS Naturals

CONSTANTS Key, Request, Content, PageSize, NoRequest, NoContent

VARIABLES
    asked,      \* of each request its key, its form and how it was answered
    batch,      \* by key, the request that created it, its rows, how many were queued
    told        \* the keys whose dialog was told of success

vars == <<asked, batch, told>>

NoBatch == [by |-> NoRequest, rows |-> 0, queued |-> 0]
Exists(k) == batch[k].by # NoRequest

FirstPage(rows) == IF rows < PageSize THEN rows ELSE PageSize
Queueing(k, n) == [batch EXCEPT ![k] = [batch[k] EXCEPT !.queued = n]]

Init ==
    /\ asked = [r \in Request |-> [key |-> NoRequest, content |-> NoContent, answer |-> "none"]]
    /\ batch = [k \in Key |-> NoBatch]
    /\ told = {}

Answer(r, answer) == [asked EXCEPT ![r] = [@ EXCEPT !.answer = answer]]

\* A dialog may ask again with its key, also with an edited form and before an
\* earlier request is answered, until it is told of success.
Ask(r, k, c) ==
    /\ asked[r].answer = "none"
    /\ k \notin told
    /\ asked' = [asked EXCEPT ![r] = [key |-> k, content |-> c, answer |-> "pending"]]
    /\ UNCHANGED <<batch, told>>

\* A creation may be followed by a failure, also by one at the same time.
Create(r) ==
    /\ asked[r].answer = "pending"
    /\ asked[r].content.leads # 0
    /\ ~Exists(asked[r].key)
    /\ batch' = [batch EXCEPT ![asked[r].key] =
                    [by |-> r, rows |-> asked[r].content.leads, queued |-> 0]]
    /\ asked' \in {asked, Answer(r, "failed")}
    /\ UNCHANGED told

\* Rows are queued while a request is pending, and no fewer than before.
Queue(r) ==
    LET b == batch[asked[r].key] IN
    /\ asked[r].answer = "pending"
    /\ Exists(asked[r].key)
    /\ \E n \in b.queued..b.rows : batch' = Queueing(asked[r].key, n)
    /\ UNCHANGED <<asked, told>>

Succeed(r) ==
    LET b == batch[asked[r].key] IN
    /\ asked[r].answer = "pending"
    /\ Exists(asked[r].key)
    /\ \E n \in b.queued..b.rows : n >= FirstPage(b.rows) /\ batch' = Queueing(asked[r].key, n)
    /\ asked' = Answer(r, IF b.by = r THEN "created" ELSE "replayed")
    /\ UNCHANGED told

\* A failure may leave any part of the rows queued.
Fail(r) ==
    LET b == batch[asked[r].key] IN
    /\ asked[r].answer = "pending"
    /\ \/ UNCHANGED batch
       \/ /\ Exists(asked[r].key)
          /\ \E n \in b.queued..b.rows : batch' = Queueing(asked[r].key, n)
    /\ asked' = Answer(r, "failed")
    /\ UNCHANGED told

Tell(r) ==
    /\ asked[r].answer \in {"created", "replayed"}
    /\ told' = told \cup {asked[r].key}
    /\ UNCHANGED <<asked, batch>>

Next ==
    \E r \in Request :
        \/ \E k \in Key, c \in Content : Ask(r, k, c)
        \/ Create(r)
        \/ Queue(r)
        \/ Succeed(r)
        \/ Fail(r)
        \/ Tell(r)

Spec == Init /\ [][Next]_vars
=============================================================================

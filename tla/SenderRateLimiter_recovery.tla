--------------------- MODULE SenderRateLimiter_recovery ---------------------
(***************************************************************************)
(* Proofs about SenderRateLimiter when Redis may lose its data.  While no   *)
(* worker runs, the seeding of the workers' start makes up for the loss: it *)
(* counts the emails that are recorded SENT, so those of one hour stay      *)
(* within the limit.  A loss under running workers starts the count anew.   *)
(* The seeding is that of a sender that stays active.                       *)
(***************************************************************************)
EXTENDS SenderRateLimiter_proofs

USE PolicyAssumption, TimeAssumption, EmailAssumption

\* The sender is never deactivated, so that every start of a worker seeds it.
StaysActive == \A p \in Policy : p.active

\* claimEmail, on a row that is claimable.
Claims(w) ==
    /\ worker[w].pc = "claim" /\ row[worker[w].email].status = "claimable"
    /\ row' = [row EXCEPT ![worker[w].email] = [row[worker[w].email] EXCEPT
                 !.status = "PROCESSING", !.processingStartedAt = worker[w].at]]
    /\ \A v \in Worker \ {w} : worker'[v] = worker[v]
    /\ UNCHANGED <<now, admitted>>

\* The ways on inside the handler.
Proceeds(w, pc) ==
    \/ pc = "defer"
    \/ pc = "claim" /\ Admits(w)
    \/ pc = "send" /\ Claims(w)

\* What a step may make of a worker: it is where it was, starts, takes a job or
\* goes on with it; or it has none.
GoesOn(v) ==
    \/ worker'[v] = worker[v]
    \/ worker'[v].pc = "stopped"
    \/ worker'[v].pc = "idle" /\ (seed(v) \/ worker[v].pc \in Busy \/ ~policy.active)
    \/ CountAccepted(v) /\ worker'[v].pc = "seed" /\ worker'[v].at = now
    \/ /\ worker[v].pc = "idle" /\ worker'[v].pc = "reserve"
       /\ worker'[v].at = now /\ worker'[v].limit = policy.limit
    \/ /\ worker[v].pc \in Busy /\ Proceeds(v, worker'[v].pc)
       /\ worker'[v].at = worker[v].at /\ worker'[v].email = worker[v].email

\* No other worker changes.
LEMMA OthersStay ==
    ASSUME TypeInv, NEW w \in Worker, NEW l, worker' = [worker EXCEPT ![w] = l],
           NEW v \in Worker, v # w
    PROVE  worker'[v] = worker[v]
  BY DEF TypeInv, TypeOK

\* The worker that changes has its new local state.
LEMMA SelfChanges ==
    ASSUME TypeInv, NEW w \in Worker, NEW l, worker' = [worker EXCEPT ![w] = l]
    PROVE  worker'[w] = l
  BY DEF TypeInv, TypeOK

\* Every step makes of every worker one of these.
LEMMA GoesOnNext == TypeInv /\ [Next]_vars => \A v \in Worker : GoesOn(v)
<1> SUFFICES ASSUME TypeInv, [Next]_vars, NEW v \in Worker PROVE GoesOn(v)
  OBVIOUS
<1>1. ASSUME NEW w \in Worker, NEW l, worker' = [worker EXCEPT ![w] = l], w = v => GoesOn(w)
      PROVE  GoesOn(v)
  BY <1>1, OthersStay DEF GoesOn
<1>2. ASSUME NEW w \in Worker, NEW pc \in {"stopped", "idle"},
             worker' = [worker EXCEPT ![w] = FreshLocal(pc)],
             pc = "stopped" \/ seed(w) \/ worker[w].pc \in Busy \/ ~policy.active
      PROVE  GoesOn(v)
  <2>1. worker'[w] = FreshLocal(pc)
    BY <1>2, SelfChanges
  <2>2. GoesOn(w)
    BY <1>2, <2>1, FreshLocalType DEF GoesOn
  <2> QED
    BY <1>1, <1>2, <2>2
<1>3. ASSUME NEW w \in Worker, worker[w].pc \in Busy, NEW pc \in Busy, Proceeds(w, pc), NEW retryAt \in Nat,
             \/ worker' = [worker EXCEPT ![w] = [worker[w] EXCEPT !.pc = pc]]
             \/ worker' = [worker EXCEPT ![w] = [worker[w] EXCEPT !.pc = pc, !.retryAt = retryAt]]
      PROVE  GoesOn(v)
  <2>1. worker[w] \in Local
    BY DEF TypeInv, TypeOK
  <2>2. PICK l : /\ l = [worker[w] EXCEPT !.pc = pc] \/ l = [worker[w] EXCEPT !.pc = pc, !.retryAt = retryAt]
                 /\ worker' = [worker EXCEPT ![w] = l]
    BY <1>3
  <2>3. l.pc = pc /\ l.at = worker[w].at /\ l.email = worker[w].email
    BY <2>1, <2>2 DEF Local
  <2>4. worker'[w] = l
    BY <2>2, SelfChanges
  <2>5. GoesOn(w)
    BY <1>3, <2>3, <2>4 DEF GoesOn
  <2> QED
    BY <1>1, <2>2, <2>5
<1>4. ASSUME NEW w \in Worker, CountAccepted(w) PROVE GoesOn(v)
  <2>1. CASE policy.active
    <3>1. PICK sent, last :
            worker' = [worker EXCEPT ![w] = [FreshLocal("seed") EXCEPT
                         !.at = now, !.delay = policy.delay, !.sent = sent, !.last = last]]
      BY <1>4, <2>1 DEF CountAccepted
    <3>2. PICK l : l = [FreshLocal("seed") EXCEPT !.at = now, !.delay = policy.delay, !.sent = sent, !.last = last]
      OBVIOUS
    <3>3. l.pc = "seed" /\ l.at = now
      BY <3>2 DEF FreshLocal
    <3>4. worker'[w] = l
      BY <3>1, <3>2, SelfChanges
    <3>5. GoesOn(w)
      BY <1>4, <3>3, <3>4 DEF GoesOn
    <3> QED
      BY <1>1, <3>1, <3>5
  <2>2. CASE ~policy.active
    <3>1. worker' = [worker EXCEPT ![w] = FreshLocal("idle")]
      BY <1>4, <2>2 DEF CountAccepted
    <3> QED
      BY <1>2, <2>2, <3>1
  <2> QED
    BY <2>1, <2>2
<1>5. ASSUME NEW w \in Worker, NEW e \in Email, Load(w, e) PROVE GoesOn(v)
  <2>1. PICK l : /\ l = [FreshLocal("reserve") EXCEPT
                           !.email = e, !.at = now, !.limit = policy.limit, !.delay = policy.delay]
                 /\ worker' = [worker EXCEPT ![w] = l]
    BY <1>5 DEF Load
  <2>2. l.pc = "reserve" /\ l.at = now /\ l.limit = policy.limit
    BY <2>1 DEF FreshLocal
  <2>3. worker'[w] = l
    BY <2>1, SelfChanges
  <2>4. GoesOn(w)
    BY <1>5, <2>2, <2>3 DEF GoesOn, Load
  <2> QED
    BY <1>1, <2>1, <2>4
<1>6. ASSUME NEW w \in Worker, reserve(w) PROVE GoesOn(v)
  <2>1. /\ worker[w].pc \in Busy /\ worker[w].at \in Nat /\ count \in [Hours -> Key] /\ next \in Key
        /\ worker \in [Worker -> Local]
    BY <1>6 DEF reserve, Busy, TypeInv, TypeOK, Local
  <2>2. Value(next) \in Nat /\ hourEnd(worker[w].at) \in Nat
    BY <2>1, HourWindow DEF Value, Key
  <2>3. CASE \E retryAt \in Nat : Refuse(w, retryAt)
    <3>0. Proceeds(w, "defer")
      BY DEF Proceeds
    <3>1. PICK retryAt \in Nat : Refuse(w, retryAt)
      BY <2>3
    <3>2. worker' = [worker EXCEPT ![w] = [worker[w] EXCEPT !.pc = "defer", !.retryAt = retryAt]]
      BY <2>1, <3>1 DEF Refuse
    <3> QED
      BY <1>3, <2>1, <3>0, <3>2 DEF Busy
  <2>4. CASE /\ worker' = [worker EXCEPT ![w] = [worker[w] EXCEPT !.pc = "claim"]]
             /\ ~Full(worker[w]) /\ ~TooSoon(worker[w])
    <3>1. Proceeds(w, "claim")
      BY <1>6, <2>4, ReserveStep DEF Proceeds
    <3> QED
      BY <1>3, <2>1, <2>4, <3>1 DEF Busy
  <2> QED
    BY <1>6, <2>2, <2>3, <2>4 DEF reserve
<1>7. ASSUME NEW w \in Worker, Claim(w) PROVE GoesOn(v)
  <2>1. CASE worker' = [worker EXCEPT ![w] = FreshLocal("idle")]
    BY <1>2, <1>7, <2>1 DEF Busy, Claim
  <2>2. CASE row[worker[w].email].status = "claimable"
    <3>1. worker' = [worker EXCEPT ![w] = [worker[w] EXCEPT !.pc = "send"]]
      BY <1>7, <2>2 DEF Claim, TypeInv, TypeOK
    <3>2. Claims(w)
      <4>1. row' = [row EXCEPT ![worker[w].email] = [row[worker[w].email] EXCEPT
                      !.status = "PROCESSING", !.processingStartedAt = worker[w].at]]
        BY <1>7, <2>2 DEF Claim, TypeInv, TypeOK
      <4> QED
        BY <1>7, <2>2, <3>1, <4>1, OthersStay DEF Claim, Claims
    <3>3. Proceeds(w, "send")
      BY <3>2 DEF Proceeds
    <3> QED
      BY <1>3, <1>7, <3>1, <3>3 DEF Busy, Claim
  <2> QED
    BY <1>7, <2>1, <2>2 DEF Claim
<1>8. ASSUME NEW w \in Worker, seed(w) \/ Defer(w) \/ Settle(w) PROVE GoesOn(v)
  <2>1. /\ worker' = [worker EXCEPT ![w] = FreshLocal("idle")]
        /\ seed(w) \/ worker[w].pc \in Busy
    BY <1>8 DEF seed, Defer, Settle, Busy
  <2> QED
    BY <1>2, <2>1
<1>9. ASSUME NEW w \in Worker, Crash(w) PROVE GoesOn(v)
  BY <1>2, <1>9 DEF Crash
<1>10. CASE Flush \/ Outage
  BY <1>10, LossStep DEF GoesOn
<1>11. CASE UNCHANGED worker
  BY <1>11 DEF GoesOn
<1> QED
  BY <1>4, <1>5, <1>6, <1>7, <1>8, <1>9, <1>10, <1>11 DEF Next, SetPolicy, Tick, vars

\* What reserveScript does to the reservations when it admits.
Reserves(w) ==
    reserved' = IF HasReservation(worker[w].email) THEN reserved
                ELSE [reserved EXCEPT ![worker[w].email] = now + ReservationTtl]

\* Redis changes by an admission, by a seeding, by its loss, or not at all.
LEMMA RedisStep ==
    ASSUME TypeInv, [Next]_vars
    PROVE  \/ \E w \in Worker : Admits(w) /\ Reserves(w) /\ UNCHANGED <<now, row>>
           \/ \E w \in Worker : seed(w)
           \/ Flush \/ Outage
           \/ UNCHANGED <<count, next, reserved, admitted>> /\ now' \in {now, now + 1}
<1>1. ASSUME NEW w \in Worker, reserve(w)
      PROVE  \/ Admits(w) /\ Reserves(w) /\ UNCHANGED <<now, row>>
             \/ UNCHANGED <<count, next, reserved, admitted, now>>
  <2>1. CASE ~Full(worker[w]) /\ ~TooSoon(worker[w])
    <3>1. Admits(w) /\ UNCHANGED now
      BY <1>1, <2>1, ReserveStep
    <3>2. Reserves(w)
      BY <1>1, <2>1 DEF reserve, Reserves
    <3> QED
      BY <1>1, <3>1, <3>2 DEF reserve
  <2>2. CASE Full(worker[w]) \/ TooSoon(worker[w])
    BY <1>1, <2>2 DEF reserve, Refuse
  <2> QED
    BY <2>1, <2>2
<1>2. ASSUME NEW w \in Worker, CountAccepted(w) \/ Defer(w) \/ Claim(w) \/ Settle(w) \/ Crash(w)
      PROVE  UNCHANGED <<count, next, reserved, admitted, now>>
  BY <1>2 DEF CountAccepted, Defer, Claim, Settle, Crash
<1>3. ASSUME NEW w \in Worker, NEW e \in Email, Load(w, e)
      PROVE  UNCHANGED <<count, next, reserved, admitted, now>>
  BY <1>3 DEF Load
<1>4. ASSUME NEW p \in Policy, SetPolicy(p) PROVE UNCHANGED <<count, next, reserved, admitted, now>>
  BY <1>4 DEF SetPolicy
<1>5. CASE Tick
  BY <1>5 DEF Tick
<1>6. CASE UNCHANGED vars
  BY <1>6 DEF vars
<1> QED
  BY <1>1, <1>2, <1>3, <1>4, <1>5, <1>6 DEF Next

-----------------------------------------------------------------------------
(***************************************************************************)
(* Order.  Since Redis last came back empty, admissions are in the order of *)
(* their clock readings; those from before are not later than any of them. *)
(***************************************************************************)
Remembered(b) ==
    \/ Exists(next) /\ b.at <= next.value /\ b.at + MaxLag <= next.until
    \/ b.at + MaxLag <= now

Past(a) ==
    /\ \A b \in admitted : b.kept => a.at <= b.at
    /\ \A w \in Worker : worker[w].pc \in Busy => a.at <= worker[w].at

HasKept(e) == \E b \in admitted : b.kept /\ b.fresh /\ b.email = e

OrderInv ==
    /\ \A a \in admitted : a.at <= now
    /\ \A a \in admitted : ~a.kept => Past(a)
    /\ \A b \in admitted : b.kept => Remembered(b)
    /\ \A e \in Email : reserved[e] > 0 => HasKept(e)

\* What a worker is admitted with is not earlier than what Redis remembers.
LEMMA AdmittedLast ==
    ASSUME TypeInv, OrderInv, NEW w \in Worker, Admits(w), NEW b \in admitted
    PROVE  b.at <= worker[w].at
<1>1. b.at \in Nat /\ b.kept \in BOOLEAN /\ next \in Key /\ now \in Nat /\ worker[w].at \in Nat
  BY DEF TypeInv, TypeOK, Local
<1>2. now <= worker[w].at + MaxLag /\ worker[w].pc \in Busy
  BY DEF TypeInv, WorkerInv, Admits, Asking, Busy
<1>3. Exists(next) => next.value <= worker[w].at
  BY <1>1 DEF Admits, TooSoon, Value, Key
<1>4. CASE b.kept
  BY <1>1, <1>2, <1>3, <1>4 DEF OrderInv, Remembered, Key
<1>5. CASE ~b.kept
  BY <1>2, <1>5 DEF OrderInv, Past
<1> QED
  BY <1>1, <1>4, <1>5

\* The order stays when nothing is admitted and Redis keeps its data.
LEMMA OrderStays ==
    ASSUME TypeInv, OrderInv, UNCHANGED <<reserved, admitted>>, now' \in {now, now + 1},
           Exists(next) => next' = next, \A v \in Worker : GoesOn(v)
    PROVE  OrderInv'
<1>0. /\ now \in Nat /\ next \in Key
      /\ \A a \in admitted : a.at \in Nat
  BY DEF TypeInv, TypeOK
<1>1. \A a \in admitted : a.at <= now'
  BY <1>0 DEF OrderInv
<1>2. \A b \in admitted : b.kept => Remembered(b)'
  BY <1>0 DEF OrderInv, Remembered, Exists, Key
<1>3. ASSUME NEW a \in admitted, ~a.kept, NEW v \in Worker, worker'[v].pc \in Busy
      PROVE  a.at <= worker'[v].at
  BY <1>3 DEF OrderInv, Past, GoesOn, Busy, Proceeds
<1>4. \A a \in admitted : ~a.kept => Past(a)'
  BY <1>3 DEF OrderInv, Past
<1> QED
  BY <1>1, <1>2, <1>4 DEF OrderInv, HasKept

\* Every step keeps the order.
LEMMA OrderNext ==
    ASSUME MaxLag <= ReservationTtl
    PROVE  TypeInv /\ OrderInv /\ [Next]_vars => OrderInv'
<1> SUFFICES ASSUME TypeInv, OrderInv, [Next]_vars PROVE OrderInv'
  OBVIOUS
<1>0. /\ now \in Nat /\ next \in Key /\ reserved \in [Email -> Nat]
      /\ admitted \subseteq Admission
      /\ \A a \in admitted : a.at \in Nat /\ a.email \in Email /\ a.kept \in BOOLEAN
      /\ \A v \in Worker : GoesOn(v)
  BY GoesOnNext DEF TypeInv, TypeOK, Admission
<1>1. ASSUME NEW w \in Worker, Admits(w), Reserves(w), UNCHANGED now PROVE OrderInv'
  <2>1. PICK n : n = Admitted(w)
    OBVIOUS
  <2>2. /\ n.email = worker[w].email /\ n.at = worker[w].at /\ n.kept
        /\ n.fresh <=> ~HasReservation(n.email)
        /\ admitted' = admitted \cup {n}
    BY <1>1, <2>1 DEF Admitted, Admits
  <2>3. n.email \in Email /\ n.at \in Nat /\ n.at <= now /\ worker[w].at \in Nat /\ worker[w].pc \in Busy
    BY <1>1, <2>2 DEF TypeInv, TypeOK, WorkerInv, Local, Admits, Busy
  <2>4. \A b \in admitted : b.at <= n.at
    BY <1>1, <2>2, AdmittedLast
  <2>5. \A a \in admitted' : a.at <= now'
    BY <1>1, <2>2, <2>3 DEF OrderInv
  <2>6. \A b \in admitted' : Remembered(b)'
    <3>1. next'.value = n.at + worker[w].delay /\ next'.until = now + ReservationTtl /\ worker[w].delay \in Nat
      BY <1>1, <2>2 DEF Admits, TypeInv, TypeOK, Local
    <3>2. Exists(next)'
      BY <1>0, <1>1, <3>1 DEF Exists
    <3>3. ASSUME NEW b \in admitted' PROVE Remembered(b)'
      <4>1. b.at \in Nat /\ b.at <= n.at /\ b.at <= now
        BY <1>0, <2>2, <2>3, <2>4 DEF OrderInv
      <4>2. b.at <= next'.value /\ b.at + MaxLag <= next'.until
        BY <1>0, <2>3, <3>1, <4>1
      <4> QED
        BY <3>2, <4>2 DEF Remembered
    <3> QED
      BY <3>3
  <2>7. ASSUME NEW a \in admitted', ~a.kept PROVE Past(a)'
    <3>1. a \in admitted /\ Past(a)
      BY <2>2, <2>7 DEF OrderInv
    <3>2. \A b \in admitted' : b.kept => a.at <= b.at
      BY <2>2, <2>4, <3>1 DEF Past
    <3>3. ASSUME NEW v \in Worker, worker'[v].pc \in Busy PROVE a.at <= worker'[v].at
      BY <1>0, <3>1, <3>3 DEF Past, GoesOn, Busy, OrderInv
    <3> QED
      BY <3>2, <3>3 DEF Past
  <2>8. ASSUME NEW e \in Email, reserved'[e] > 0 PROVE HasKept(e)'
    <3>1. CASE reserved[e] > 0
      BY <2>2, <3>1 DEF OrderInv, HasKept
    <3>2. CASE ~(reserved[e] > 0)
      <4>1. e = n.email /\ ~HasReservation(n.email)
        BY <1>0, <1>1, <2>2, <2>3, <2>8, <3>2 DEF Reserves
      <4> QED
        BY <2>2, <4>1 DEF HasKept
    <3> QED
      BY <3>1, <3>2
  <2> QED
    BY <2>5, <2>6, <2>7, <2>8 DEF OrderInv
<1>2. ASSUME NEW w \in Worker, seed(w) PROVE OrderInv'
  <2>1. UNCHANGED <<reserved, admitted, now>> /\ (Exists(next) => next' = next)
    BY <1>2 DEF seed, SeedKey
  <2> QED
    BY <1>0, <2>1, OrderStays
<1>3. CASE Flush
  <2>1. admitted' = {} /\ \A e \in Email : ~(reserved'[e] > 0)
    BY <1>3 DEF Flush, LoseKeys
  <2> QED
    BY <2>1 DEF OrderInv
<1>4. CASE Outage
  <2>1. admitted' = {[a EXCEPT !.kept = FALSE] : a \in admitted} /\ UNCHANGED <<now, worker>>
    BY <1>4 DEF Outage
  <2>2. \A b \in admitted' : ~b.kept /\ \E a \in admitted : b.at = a.at
    BY <1>0, <2>1 DEF Admission
  <2>3. \A v \in Worker : worker'[v].pc \notin Busy
    BY <1>4, <2>1 DEF Outage, Busy
  <2>4. \A e \in Email : ~(reserved'[e] > 0)
    BY <1>4 DEF Outage, LoseKeys
  <2> QED
    BY <2>1, <2>2, <2>3, <2>4 DEF OrderInv, Past
<1>5. ASSUME UNCHANGED <<count, next, reserved, admitted>>, now' \in {now, now + 1} PROVE OrderInv'
  BY <1>0, <1>5, OrderStays
<1> QED
  BY <1>1, <1>2, <1>3, <1>4, <1>5, RedisStep

\* Nothing is admitted yet.
LEMMA OrderInit == Init => OrderInv
  BY DEF Init, OrderInv

-----------------------------------------------------------------------------
(***************************************************************************)
(* The handler.  A row that is being sent belongs to one worker, which      *)
(* claimed it with the clock reading it was admitted with; and where that   *)
(* admission is counted in the ledger, Redis counts the email as well.      *)
(***************************************************************************)
Backed(w) ==
    \A a \in admitted : a.fresh /\ a.email = worker[w].email /\ a.at = worker[w].at =>
        \E b \in Kept(Hour(worker[w].at)) : b.email = worker[w].email

Sending(w) ==
    /\ row[worker[w].email].status = "PROCESSING"
    /\ row[worker[w].email].processingStartedAt = worker[w].at

HandlerInv ==
    /\ \A w \in Worker : worker[w].pc = "reserve" => \E p \in Policy : worker[w].limit = p.limit
    /\ \A w \in Worker : worker[w].pc \in {"claim", "send"} => Backed(w)
    /\ \A w \in Worker : worker[w].pc = "send" => Sending(w)
    /\ \A v, w \in Worker :
         worker[v].pc = "send" /\ worker[w].pc = "send" /\ worker[v].email = worker[w].email => v = w
    /\ \A e \in Email : row[e].status = "SENT" =>
         row[e].processingStartedAt <= row[e].sentAt /\ row[e].sentAt <= now

\* What a step may make of a row: it is claimed or its send ends, or its status
\* stays.
RowChanges(e) ==
    \/ row'[e] = row[e]
    \/ row[e].status = "claimable" /\ row'[e].status = "claimable"
    \/ \E w \in Worker : Claims(w) /\ worker[w].email = e /\ row'[e].status = "PROCESSING"
    \/ \E w \in Worker :
         /\ worker[w].pc = "send" /\ worker[w].email = e /\ worker'[w].pc = "idle"
         /\ row'[e].status = "SENT" => /\ row'[e].processingStartedAt = row[e].processingStartedAt
                                       /\ row'[e].sentAt = now
         /\ UNCHANGED <<admitted, now>>

\* Every step makes of every row one of these.
LEMMA RowStep == TypeInv /\ [Next]_vars => \A e \in Email : RowChanges(e)
<1> SUFFICES ASSUME TypeInv, [Next]_vars, NEW e \in Email PROVE RowChanges(e)
  OBVIOUS
<1>0. row \in [Email -> RowType] /\ now \in Nat
  BY DEF TypeInv, TypeOK, RowType
<1>1. ASSUME NEW w \in Worker, NEW r, row' = [row EXCEPT ![worker[w].email] = r], worker[w].email = e
      PROVE  row'[e] = r
  BY <1>0, <1>1
<1>2. ASSUME NEW w \in Worker, Defer(w) PROVE RowChanges(e)
  <2>1. CASE row' # row /\ e = worker[w].email
    <3>1. PICK r : r = [row[e] EXCEPT !.due = worker[w].retryAt]
      OBVIOUS
    <3>2. row[e].status = "claimable" /\ row' = [row EXCEPT ![e] = r]
      BY <1>0, <1>2, <2>1, <3>1 DEF Defer
    <3>3. r.status = "claimable" /\ row'[e] = r
      BY <1>0, <3>1, <3>2 DEF RowType
    <3> QED
      BY <3>2, <3>3 DEF RowChanges
  <2>2. CASE ~(row' # row /\ e = worker[w].email)
    BY <1>0, <1>2, <2>2 DEF Defer, RowChanges
  <2> QED
    BY <2>1, <2>2
<1>3. ASSUME NEW w \in Worker, Claim(w) PROVE RowChanges(e)
  <2>1. CASE row' # row /\ e = worker[w].email
    <3>1. PICK r : r = [row[e] EXCEPT !.status = "PROCESSING", !.processingStartedAt = worker[w].at]
      OBVIOUS
    <3>2. row[e].status = "claimable" /\ row' = [row EXCEPT ![e] = r]
      BY <1>0, <1>3, <2>1, <3>1 DEF Claim
    <3>3. r.status = "PROCESSING" /\ row'[e] = r
      BY <1>0, <3>1, <3>2 DEF RowType
    <3>4. Claims(w)
      <4>1. \A v \in Worker \ {w} : worker'[v] = worker[v]
        BY <1>3, OthersStay DEF Claim
      <4> QED
        BY <1>3, <2>1, <3>1, <3>2, <4>1 DEF Claim, Claims
    <3> QED
      BY <2>1, <3>3, <3>4 DEF RowChanges
  <2>2. CASE ~(row' # row /\ e = worker[w].email)
    BY <1>0, <1>3, <2>2 DEF Claim, RowChanges
  <2> QED
    BY <2>1, <2>2
<1>4. ASSUME NEW w \in Worker, Settle(w) PROVE RowChanges(e)
  <2>1. CASE e = worker[w].email
    <3>1. PICK r : /\ \/ r = [row[e] EXCEPT !.status = "SENT", !.due = now, !.sentAt = now, !.accepted = TRUE]
                      \/ r = [row[e] EXCEPT !.status = "claimable", !.due = now + Backoff,
                                            !.processingStartedAt = 0]
                      \/ r = [row[e] EXCEPT !.status = "over", !.due = now, !.accepted = TRUE]
                   /\ row' = [row EXCEPT ![e] = r]
      BY <1>4, <2>1 DEF Settle
    <3>2. r.status = "SENT" => r.processingStartedAt = row[e].processingStartedAt /\ r.sentAt = now
      BY <1>0, <3>1 DEF RowType
    <3>3. row'[e] = r
      BY <1>0, <3>1
    <3>4. worker'[w].pc = "idle"
      <4>1. worker'[w] = FreshLocal("idle")
        BY <1>4, SelfChanges DEF Settle
      <4> QED
        BY <4>1, FreshLocalType
    <3>5. worker[w].pc = "send" /\ UNCHANGED <<admitted, now>>
      BY <1>4 DEF Settle
    <3> QED
      BY <2>1, <3>2, <3>3, <3>4, <3>5 DEF RowChanges
  <2>2. CASE e # worker[w].email
    BY <1>0, <1>4, <2>2 DEF Settle, RowChanges
  <2> QED
    BY <2>1, <2>2
<1>5. CASE UNCHANGED row
  BY <1>5 DEF RowChanges
<1>6. ASSUME NEW w \in Worker, CountAccepted(w) \/ seed(w) \/ reserve(w) \/ Crash(w) PROVE UNCHANGED row
  BY <1>6 DEF CountAccepted, seed, reserve, Crash
<1>7. ASSUME NEW w \in Worker, NEW f \in Email, Load(w, f) PROVE UNCHANGED row
  BY <1>7 DEF Load
<1> QED
  BY <1>2, <1>3, <1>4, <1>5, <1>6, <1>7 DEF Next, SetPolicy, Flush, Outage, Tick, vars

\* An admission is backed: by itself when it is new, else by the reservation.
LEMMA AdmittedBacked ==
    ASSUME TypeInv, OrderInv, NEW w \in Worker, Admits(w),
           worker'[w].email = worker[w].email, worker'[w].at = worker[w].at
    PROVE  Backed(w)'
<1>1. PICK n : n = Admitted(w)
  OBVIOUS
<1>2. /\ n.email = worker[w].email /\ n.at = worker[w].at /\ n.kept
      /\ n.fresh <=> ~HasReservation(n.email)
      /\ admitted' = admitted \cup {n}
  BY <1>1 DEF Admitted, Admits
<1>3. /\ n.email \in Email /\ n.at \in Nat /\ now \in Nat /\ reserved \in [Email -> Nat]
      /\ \A a \in admitted : a.at \in Nat /\ a.kept \in BOOLEAN
  BY <1>2 DEF TypeInv, TypeOK, WorkerInv, Local, Admits, Busy
<1>4. SUFFICES ASSUME NEW a \in admitted', a.fresh, a.email = n.email, a.at = n.at
               PROVE  \E b \in Kept(Hour(n.at))' : b.email = n.email
  BY <1>2 DEF Backed, Hour
<1>5. CASE a.kept
  <2>1. a \in Kept(Hour(n.at))'
    BY <1>4, <1>5 DEF Kept, KeptIn, FreshIn, Hour
  <2> QED
    BY <1>4, <2>1
<1>6. CASE ~a.kept
  <2>1. a \in admitted
    BY <1>2, <1>6
  <2>2. CASE HasReservation(n.email)
    <3>1. reserved[n.email] > 0
      BY <1>3, <2>2 DEF HasReservation
    <3>2. PICK b \in admitted : b.kept /\ b.fresh /\ b.email = n.email
      BY <1>3, <3>1 DEF OrderInv, HasKept
    <3>3. b.at <= n.at
      BY <1>2, AdmittedLast
    <3>4. a.at <= b.at
      BY <1>6, <2>1, <3>2 DEF OrderInv, Past
    <3>5. b.at = n.at
      BY <1>3, <1>4, <2>1, <3>3, <3>4
    <3>6. b \in Kept(Hour(n.at))'
      BY <1>2, <3>2, <3>5 DEF Kept, KeptIn, FreshIn, Hour
    <3> QED
      BY <3>2, <3>6
  <2>3. CASE ~HasReservation(n.email)
    <3>1. n \in Kept(Hour(n.at))'
      BY <1>2, <2>3 DEF Kept, KeptIn, FreshIn, Hour
    <3> QED
      BY <3>1
  <2> QED
    BY <2>2, <2>3
<1> QED
  BY <1>3, <1>4, <1>5, <1>6

\* What backs a worker lasts as long as Redis keeps its data; a loss under it
\* starts the ledger anew, and any other loss finds no worker that has a job.
LEMMA BackedStays ==
    ASSUME TypeInv, [Next]_vars, NEW v \in Worker, worker[v].pc \in {"claim", "send"}, Backed(v),
           worker'[v].pc \in {"claim", "send"},
           worker'[v].email = worker[v].email, worker'[v].at = worker[v].at
    PROVE  Backed(v)'
<1>1. CASE UNCHANGED admitted
  BY <1>1 DEF Backed, Kept, KeptIn, FreshIn, Hour
<1>2. ASSUME NEW w \in Worker, Admits(w) PROVE Backed(v)'
  <2>1. PICK n : n = Admitted(w)
    OBVIOUS
  <2>2. n.kept /\ admitted' = admitted \cup {n}
    BY <1>2, <2>1 DEF Admitted, Admits
  <2>3. SUFFICES ASSUME NEW a \in admitted', a.fresh, a.email = worker[v].email, a.at = worker[v].at
                 PROVE  \E b \in Kept(Hour(a.at))' : b.email = worker[v].email
    BY DEF Backed, Hour
  <2>4. CASE a = n
    <3>1. a \in Kept(Hour(a.at))'
      BY <2>2, <2>3, <2>4 DEF Kept, KeptIn, FreshIn, Hour
    <3> QED
      BY <2>3, <3>1
  <2>5. CASE a \in admitted
    <3>1. PICK b \in Kept(Hour(a.at)) : b.email = worker[v].email
      BY <2>3, <2>5 DEF Backed
    <3>2. b \in Kept(Hour(a.at))'
      BY <2>2, <3>1 DEF Kept, KeptIn, FreshIn, Hour
    <3> QED
      BY <3>1, <3>2
  <2> QED
    BY <2>2, <2>4, <2>5
<1>3. CASE Flush
  BY <1>3 DEF Backed, Flush
<1>4. ~Outage
  BY DEF Outage
<1>5. ASSUME NEW w \in Worker, seed(w) PROVE UNCHANGED admitted
  BY <1>5 DEF seed
<1> QED
  BY <1>1, <1>2, <1>3, <1>4, <1>5, RedisStep

\* A worker that is sending keeps its row, and no other worker gets it.
LEMMA SendingNext ==
    ASSUME TypeInv, HandlerInv, [Next]_vars, NEW v \in Worker, worker'[v].pc = "send"
    PROVE  Sending(v)'
<1>0. GoesOn(v) /\ row \in [Email -> RowType] /\ worker[v] \in Local
  BY GoesOnNext DEF TypeInv, TypeOK, RowType
<1>1. CASE worker'[v] = worker[v]
  <2>1. worker[v].pc = "send" /\ Sending(v) /\ worker[v].email \in Email
    BY <1>1 DEF HandlerInv, TypeInv, WorkerInv, Busy
  <2>2. PICK e \in Email : e = worker[v].email
    BY <2>1
  <2>3. RowChanges(e)
    BY RowStep
  <2>4. ASSUME NEW w \in Worker, worker[w].pc = "send", worker[w].email = e PROVE worker'[w].pc # "idle"
    BY <1>1, <2>1, <2>2, <2>4 DEF HandlerInv
  <2>5. row'[e] = row[e]
    BY <2>1, <2>2, <2>3, <2>4 DEF RowChanges, Sending, Claims
  <2> QED
    BY <1>1, <2>1, <2>2, <2>5 DEF Sending
<1>2. CASE worker'[v] # worker[v]
  <2>1. /\ Claims(v) /\ worker'[v].at = worker[v].at /\ worker'[v].email = worker[v].email
        /\ worker[v].email \in Email
    BY <1>0, <1>2 DEF GoesOn, Proceeds, TypeInv, WorkerInv, Busy
  <2>2. PICK r : r = [row[worker[v].email] EXCEPT !.status = "PROCESSING", !.processingStartedAt = worker[v].at]
    OBVIOUS
  <2>3. r.status = "PROCESSING" /\ r.processingStartedAt = worker[v].at
    BY <1>0, <2>1, <2>2 DEF RowType
  <2>4. row'[worker[v].email] = r
    BY <1>0, <2>1, <2>2 DEF Claims
  <2> QED
    BY <2>1, <2>3, <2>4 DEF Sending
<1> QED
  BY <1>1, <1>2

\* Every step keeps the handler's invariant.
LEMMA HandlerNext == TypeInv /\ OrderInv /\ HandlerInv /\ [Next]_vars => HandlerInv'
<1> SUFFICES ASSUME TypeInv, OrderInv, HandlerInv, [Next]_vars PROVE HandlerInv'
  OBVIOUS
<1>0. /\ \A v \in Worker : GoesOn(v)
      /\ \A e \in Email : RowChanges(e)
      /\ now \in Nat /\ policy \in Policy /\ worker \in [Worker -> Local] /\ row \in [Email -> RowType]
  BY GoesOnNext, RowStep DEF TypeInv, TypeOK, RowType
<1>1. ASSUME NEW v \in Worker, worker'[v].pc = "reserve" PROVE \E p \in Policy : worker'[v].limit = p.limit
  BY <1>0, <1>1 DEF GoesOn, HandlerInv, Busy, Proceeds
<1>2. ASSUME NEW v \in Worker, worker'[v].pc \in {"claim", "send"} PROVE Backed(v)'
  <2>1. GoesOn(v)
    BY <1>0
  <2>2. CASE worker[v].pc \in {"claim", "send"} /\ (worker'[v] = worker[v] \/ worker'[v].pc = "send")
    <3>1. Backed(v) /\ worker'[v].at = worker[v].at /\ worker'[v].email = worker[v].email
      BY <1>2, <2>1, <2>2 DEF GoesOn, HandlerInv
    <3> QED
      BY <1>2, <2>2, <3>1, BackedStays
  <2>3. CASE ~(worker[v].pc \in {"claim", "send"} /\ (worker'[v] = worker[v] \/ worker'[v].pc = "send"))
    <3>1. Admits(v) /\ worker'[v].at = worker[v].at /\ worker'[v].email = worker[v].email
      BY <1>2, <2>1, <2>3 DEF GoesOn, Proceeds, Claims
    <3> QED
      BY <3>1, AdmittedBacked
  <2> QED
    BY <2>2, <2>3
<1>3. \A v \in Worker : worker'[v].pc = "send" => Sending(v)'
  BY SendingNext
<1>4. ASSUME NEW v \in Worker, NEW w \in Worker, worker'[v].pc = "send", worker'[w].pc = "send",
             worker'[v].email = worker'[w].email, v # w
      PROVE  FALSE
  <2>1. ASSUME NEW u \in Worker, worker'[u].pc = "send"
        PROVE  \/ worker'[u] = worker[u] /\ Sending(u)
               \/ Claims(u) /\ worker'[u].email = worker[u].email
    BY <1>0, <2>1 DEF GoesOn, Proceeds, HandlerInv
  <2>2. CASE worker'[v] = worker[v] /\ worker'[w] = worker[w]
    BY <1>4, <2>2 DEF HandlerInv
  <2>3. CASE worker'[v] # worker[v]
    <3>1. Claims(v) /\ worker'[w] = worker[w] /\ worker'[v].email = worker[v].email
      BY <1>4, <2>1, <2>3 DEF Claims
    <3>2. row[worker[w].email].status = "PROCESSING"
      BY <1>4, <3>1 DEF HandlerInv, Sending
    <3> QED
      BY <1>4, <3>1, <3>2 DEF Claims
  <2>4. CASE worker'[w] # worker[w]
    <3>1. Claims(w) /\ worker'[v] = worker[v] /\ worker'[w].email = worker[w].email
      BY <1>4, <2>1, <2>4 DEF Claims
    <3>2. row[worker[v].email].status = "PROCESSING"
      BY <1>4, <3>1 DEF HandlerInv, Sending
    <3> QED
      BY <1>4, <3>1, <3>2 DEF Claims
  <2> QED
    BY <2>2, <2>3, <2>4
<1>5. now <= now'
  <2>1. ASSUME NEW w \in Worker, seed(w) PROVE UNCHANGED now
    BY <2>1 DEF seed
  <2>2. Flush \/ Outage => UNCHANGED now
    BY LossStep
  <2> QED
    BY <1>0, <2>1, <2>2, RedisStep
<1>6. ASSUME NEW e \in Email, row'[e].status = "SENT"
      PROVE  row'[e].processingStartedAt <= row'[e].sentAt /\ row'[e].sentAt <= now'
  <2>1. RowChanges(e) /\ row[e] \in RowType
    BY <1>0
  <2>2. CASE row'[e] = row[e]
    <3>1. row[e].processingStartedAt <= row[e].sentAt /\ row[e].sentAt <= now
      BY <1>6, <2>2 DEF HandlerInv
    <3>2. row[e].sentAt \in Nat /\ now' \in Nat
      <4>1. TypeInv'
        BY TypeNext
      <4> QED
        BY <2>1, <4>1 DEF RowType, TypeInv, TypeOK
    <3> QED
      BY <1>0, <1>5, <2>2, <3>1, <3>2
  <2>3. CASE row'[e] # row[e]
    <3>1. PICK w \in Worker :
            /\ worker[w].pc = "send" /\ worker[w].email = e
            /\ row'[e].processingStartedAt = row[e].processingStartedAt
            /\ row'[e].sentAt = now /\ UNCHANGED now
      BY <1>6, <2>1, <2>3 DEF RowChanges
    <3>2. row[e].processingStartedAt = worker[w].at /\ worker[w].at <= now
      BY <3>1 DEF HandlerInv, Sending, TypeInv, WorkerInv
    <3> QED
      BY <1>0, <3>1, <3>2
  <2> QED
    BY <2>2, <2>3
<1> QED
  BY <1>1, <1>2, <1>3, <1>4, <1>6 DEF HandlerInv

\* No worker has a job yet, and nothing is sent.
LEMMA HandlerInit == Init => HandlerInv
<1> SUFFICES ASSUME Init PROVE HandlerInv
  OBVIOUS
<1>1. \A w \in Worker : worker[w].pc = "stopped"
  BY DEF Init, FreshLocal
<1>2. \A e \in Email : row[e].status = "claimable"
  BY DEF Init
<1> QED
  BY <1>1, <1>2 DEF HandlerInv

-----------------------------------------------------------------------------
(***************************************************************************)
(* The hours.  What is recorded SENT under new reservations of an hour, and *)
(* what Redis still has reserved in it, is what the hour has spent.  Either *)
(* the counter covers it, or no worker will ask in that hour any more, or   *)
(* Redis has lost the counter and every worker that could ask is yet to     *)
(* seed it with at least as much.                                           *)
(***************************************************************************)
Spent(h) == RecordedIn(h) \cup {a.email : a \in Kept(h)}

Covers(h) ==
    /\ Exists(count[h])
    /\ Cardinality(Spent(h)) <= count[h].value
    /\ Closing(h) <= count[h].until

Lost(h) ==
    /\ ~Exists(count[h])
    /\ Kept(h) = {}
    /\ \A w \in Worker :
         \/ worker[w].pc = "stopped"
         \/ /\ worker[w].pc = "seed"
            /\ Hour(worker[w].at) = h => Cardinality(RecordedIn(h)) <= worker[w].sent
            /\ Hour(worker[w].at) # h => h < Hour(now)
         \/ /\ worker[w].pc # "seed" /\ h < Hour(now)
            /\ worker[w].pc = "reserve" => Hour(worker[w].at) # h

Tracked(h) ==
    \/ Spent(h) = {}
    \/ Covers(h)
    \/ Closing(h) <= now
    \/ Lost(h)

WindowInv ==
    \A h \in Hours :
        /\ \E p \in Policy : Cardinality(Spent(h)) <= p.limit
        /\ Tracked(h)

\* What an hour has spent is finite, and counted by a number.
LEMMA SpentFinite ==
    ASSUME TypeInv, NEW h
    PROVE  /\ Spent(h) \subseteq Email /\ RecordedIn(h) \subseteq Spent(h)
           /\ IsFiniteSet(Spent(h)) /\ Cardinality(Spent(h)) \in Nat
           /\ IsFiniteSet(RecordedIn(h)) /\ Cardinality(RecordedIn(h)) \in Nat
<1>1. Spent(h) \subseteq Email /\ RecordedIn(h) \subseteq Email /\ RecordedIn(h) \subseteq Spent(h)
  BY DEF Spent, RecordedIn, Kept, KeptIn, FreshIn, TypeInv, TypeOK
<1> QED
  BY <1>1, FS_Subset, FS_CardinalityType

\* A part of what was spent is not more.
LEMMA SpentLess ==
    ASSUME TypeInv, NEW h, NEW S \in SUBSET Spent(h)
    PROVE  IsFiniteSet(S) /\ Cardinality(S) \in Nat /\ Cardinality(S) <= Cardinality(Spent(h))
  BY SpentFinite, FS_Subset, FS_CardinalityType

\* An email is recorded under a new reservation that was counted, whose worker
\* has sent it: what the step records was spent before, unless the step admits.
LEMMA RecordedStep ==
    ASSUME TypeInv, HandlerInv, [Next]_vars, NEW h,
           NEW e \in RecordedIn(h)', NEW a \in FreshIn(h),
           a.email = e, a.at = row'[e].processingStartedAt
    PROVE  e \in RecordedIn(h) \/ e \in {b.email : b \in Kept(h)}
<1>1. e \in Email /\ row'[e].status = "SENT" /\ RowChanges(e)
  BY RowStep DEF RecordedIn
<1>2. CASE row'[e] = row[e]
  BY <1>1, <1>2 DEF RecordedIn
<1>3. CASE row'[e] # row[e]
  <2>1. PICK w \in Worker :
          /\ worker[w].pc = "send" /\ worker[w].email = e
          /\ row'[e].processingStartedAt = row[e].processingStartedAt
    BY <1>1, <1>3 DEF RowChanges
  <2>2. Backed(w) /\ row[e].processingStartedAt = worker[w].at
    BY <2>1 DEF HandlerInv, Sending
  <2>3. a \in admitted /\ a.fresh /\ Hour(worker[w].at) = h /\ a.at = worker[w].at
    BY <2>1, <2>2 DEF FreshIn
  <2>4. \E b \in Kept(h) : b.email = e
    BY <2>1, <2>2, <2>3 DEF Backed
  <2> QED
    BY <2>4
<1> QED
  BY <1>2, <1>3

\* Nothing is spent by a step that grants no new reservation of the hour.
LEMMA SpentStays ==
    ASSUME TypeInv, HandlerInv, [Next]_vars, NEW h, FreshIn(h)' = FreshIn(h)
    PROVE  /\ Spent(h)' \subseteq Spent(h) /\ Kept(h)' = Kept(h)
           /\ Kept(h) = {} => RecordedIn(h)' \subseteq RecordedIn(h)
<1>1. Kept(h)' = Kept(h)
  <2>1. Kept(h) = {a \in FreshIn(h) : a.kept} /\ Kept(h)' = {a \in FreshIn(h)' : a.kept}
    BY DEF Kept, KeptIn, FreshIn, Hour
  <2> QED
    BY <2>1
<1>2. ASSUME NEW e \in RecordedIn(h)'
      PROVE  e \in RecordedIn(h) \/ e \in {b.email : b \in Kept(h)}
  <2>1. PICK a \in FreshIn(h) : a.email = e /\ a.at = row'[e].processingStartedAt
    BY <1>2 DEF RecordedIn
  <2> QED
    BY <1>2, <2>1, RecordedStep
<1> QED
  BY <1>1, <1>2 DEF Spent

\* A loss while no worker runs leaves of it what is recorded.
LEMMA SpentLost ==
    ASSUME TypeInv, Outage, NEW h
    PROVE  Kept(h)' = {} /\ RecordedIn(h)' \subseteq RecordedIn(h) /\ Spent(h)' = RecordedIn(h)'
<1>1. admitted' = {[a EXCEPT !.kept = FALSE] : a \in admitted} /\ UNCHANGED row
  BY DEF Outage
<1>2. admitted \subseteq Admission
  BY DEF TypeInv, TypeOK, Admission
<1>3. \A b \in admitted' : ~b.kept /\ \E a \in admitted : b.email = a.email /\ b.at = a.at /\ (b.fresh <=> a.fresh)
  BY <1>1, <1>2 DEF Admission
<1>4. Kept(h)' = {}
  BY <1>3 DEF Kept, KeptIn, FreshIn
<1>5. ASSUME NEW e \in RecordedIn(h)' PROVE e \in RecordedIn(h)
  <2>1. PICK b \in FreshIn(h)' : b.email = e /\ b.at = row[e].processingStartedAt
    BY <1>1, <1>5 DEF RecordedIn
  <2>2. b \in admitted' /\ b.fresh /\ Hour(b.at) = h
    BY <2>1 DEF FreshIn, Hour
  <2>3. PICK a \in admitted : b.email = a.email /\ b.at = a.at /\ (b.fresh <=> a.fresh)
    BY <1>3, <2>2
  <2>4. a \in FreshIn(h)
    BY <2>2, <2>3 DEF FreshIn
  <2> QED
    BY <1>1, <1>5, <2>1, <2>3, <2>4 DEF RecordedIn
<1> QED
  BY <1>4, <1>5 DEF Spent

\* A worker that starts finds what the current hour has recorded.
LEMMA StartCounts ==
    ASSUME TypeInv, HandlerInv, NEW w \in Worker, CountAccepted(w), policy.active
    PROVE  Cardinality(RecordedIn(Hour(now))) <= worker'[w].sent
<1> DEFINE S == SentIn(Hour(now) * HourLength, now)
<1>1. now \in Nat /\ row \in [Email -> RowType] /\ \A a \in admitted : a.at \in Nat
  BY DEF TypeInv, TypeOK, RowType
<1>2. PICK last :
        worker' = [worker EXCEPT ![w] = [FreshLocal("seed") EXCEPT
                     !.at = now, !.delay = policy.delay, !.sent = Cardinality(S), !.last = last]]
  BY DEF CountAccepted
<1>3. PICK l : l = [FreshLocal("seed") EXCEPT
                      !.at = now, !.delay = policy.delay, !.sent = Cardinality(S), !.last = last]
  OBVIOUS
<1>4. l.sent = Cardinality(S)
  BY <1>3 DEF FreshLocal
<1>5. worker'[w].sent = Cardinality(S)
  BY <1>2, <1>3, <1>4, SelfChanges
<1>6. ASSUME NEW e \in RecordedIn(Hour(now)) PROVE e \in S
  <2>1. PICK a \in FreshIn(Hour(now)) : a.email = e /\ a.at = row[e].processingStartedAt
    BY <1>6 DEF RecordedIn
  <2>2. Hour(a.at) = Hour(now) /\ a.at \in Nat
    BY <1>1, <2>1 DEF FreshIn
  <2>3. Hour(now) * HourLength <= a.at /\ Hour(now) \in Nat /\ Hour(now) * HourLength \in Nat
    BY <1>1, <2>2, HourWindow
  <2>4. /\ e \in Email /\ row[e].status = "SENT" /\ row[e].sentAt \in Nat
        /\ row[e].processingStartedAt <= row[e].sentAt /\ row[e].sentAt <= now
    BY <1>1, <1>6 DEF RecordedIn, HandlerInv, RowType
  <2> QED
    BY <1>1, <2>1, <2>2, <2>3, <2>4 DEF SentIn
<1>7. IsFiniteSet(S)
  BY FS_Subset DEF SentIn
<1>8. RecordedIn(Hour(now)) \subseteq S
  BY <1>6
<1> HIDE DEF S
<1>9. Cardinality(RecordedIn(Hour(now))) <= Cardinality(S)
  BY <1>7, <1>8, FS_Subset
<1> QED
  BY <1>5, <1>9

\* The seeding puts in the place of a lost counter what the worker has found.
LEMMA SeedCovers ==
    ASSUME TypeInv, MaxLag <= ReservationTtl, NEW w \in Worker, seed(w),
           NEW h \in Hours, h = Hour(worker[w].at), ~Exists(count[h])
    PROVE  /\ count'[h].value = worker[w].sent
           /\ now < count'[h].until
           /\ Closing(h) <= count'[h].until
<1>1. /\ worker[w] \in Local /\ worker[w].at \in Nat /\ now \in Nat /\ worker[w].at <= now
      /\ count \in [Hours -> Key]
  BY DEF TypeInv, TypeOK, WorkerInv, Local
<1>2. hourEnd(worker[w].at) \in Nat /\ worker[w].at < hourEnd(worker[w].at)
  BY <1>1, HourWindow
<1>3. /\ count'[h].value = worker[w].sent
      /\ count'[h].until = now + (hourEnd(worker[w].at) - worker[w].at) + ReservationTtl
  BY <1>1 DEF seed, SeedKey
<1>4. Closing(h) = hourEnd(worker[w].at) + MaxLag
  BY DEF Closing, hourEnd
<1> QED
  BY <1>1, <1>2, <1>3, <1>4

\* A worker that could ask in an hour whose counter is lost seeds it first.
LEMMA LostStays ==
    ASSUME StaysActive, TypeInv, OrderInv, HandlerInv, [Next]_vars, ~(Flush \/ Outage),
           MaxLag <= ReservationTtl, NEW h \in Hours, Lost(h), Spent(h) # {}, FreshIn(h)' = FreshIn(h)
    PROVE  Lost(h)' \/ Covers(h)'
<1>0. /\ now \in Nat /\ now' \in {now, now + 1} /\ h \in Nat
      /\ worker \in [Worker -> Local] /\ count \in [Hours -> Key]
      /\ \A v \in Worker : GoesOn(v)
      /\ policy.active
      /\ Kept(h)' = {} /\ Kept(h) = {} /\ RecordedIn(h)' \subseteq RecordedIn(h)
  <2>1. ASSUME NEW w \in Worker, seed(w) PROVE UNCHANGED now
    BY <2>1 DEF seed
  <2>2. now' \in {now, now + 1}
    BY <2>1, RedisStep
  <2>3. /\ now \in Nat /\ h \in Nat /\ worker \in [Worker -> Local] /\ count \in [Hours -> Key]
        /\ policy.active
    BY DEF TypeInv, TypeOK, Hours, StaysActive
  <2>4. Kept(h)' = {} /\ Kept(h) = {} /\ RecordedIn(h)' \subseteq RecordedIn(h)
    BY SpentStays DEF Lost
  <2> QED
    BY <2>2, <2>3, <2>4, GoesOnNext
<1>1. h \in Nat /\ Hour(now) \in Nat /\ Hour(now') \in Nat /\ Hour(now) <= Hour(now') /\ h <= Hour(now)
  <2>1. PICK e \in RecordedIn(h) : TRUE
    BY <1>0 DEF Spent
  <2>2. PICK a \in FreshIn(h) : TRUE
    BY <2>1 DEF RecordedIn
  <2>3. a.at \in Nat /\ a.at <= now /\ Hour(a.at) = h
    BY <2>2 DEF FreshIn, OrderInv, TypeInv, TypeOK
  <2> QED
    BY <1>0, <2>3, HourOrder, HourWindow
<1>2. /\ Cardinality(RecordedIn(h)') \in Nat /\ Cardinality(RecordedIn(h)) \in Nat
      /\ Cardinality(RecordedIn(h)') <= Cardinality(RecordedIn(h))
  <2>1. IsFiniteSet(RecordedIn(h)) /\ Cardinality(RecordedIn(h)) \in Nat
    BY SpentFinite
  <2> QED
    BY <1>0, <2>1, FS_Subset, FS_CardinalityType
<1>3. CASE \E w \in Worker : seed(w) /\ Hour(worker[w].at) = h
  <2>1. PICK w \in Worker : seed(w) /\ Hour(worker[w].at) = h
    BY <1>3
  <2>2. Cardinality(RecordedIn(h)) <= worker[w].sent /\ worker[w].sent \in Nat /\ UNCHANGED now
    BY <1>0, <2>1 DEF Lost, seed, Local
  <2>3. /\ count'[h].value = worker[w].sent /\ now < count'[h].until /\ Closing(h) <= count'[h].until
    BY <2>1, SeedCovers DEF Lost
  <2>4. Spent(h)' = RecordedIn(h)'
    BY <1>0 DEF Spent
  <2>5. Cardinality(Spent(h)') <= count'[h].value
    BY <1>2, <2>2, <2>3, <2>4
  <2> QED
    BY <2>2, <2>3, <2>5 DEF Covers, Exists, Closing
<1>4. CASE ~\E w \in Worker : seed(w) /\ Hour(worker[w].at) = h
  <2>1. count'[h] = count[h]
    <3>1. ASSUME NEW w \in Worker, Admits(w) PROVE count'[h] = count[h]
      BY <1>0, <3>1 DEF Admits, Lost
    <3>2. ASSUME NEW w \in Worker, seed(w) PROVE count'[h] = count[h]
      BY <1>0, <1>4, <3>2 DEF seed
    <3> QED
      BY <3>1, <3>2, RedisStep
  <2>2. ~Exists(count[h])'
    <3>1. count[h].until \in Nat
      BY <1>0 DEF Key
    <3> QED
      BY <1>0, <2>1, <3>1 DEF Lost, Exists
  <2>3. ASSUME NEW v \in Worker
        PROVE  \/ worker'[v].pc = "stopped"
               \/ /\ worker'[v].pc = "seed"
                  /\ Hour(worker'[v].at) = h => Cardinality(RecordedIn(h)') <= worker'[v].sent
                  /\ Hour(worker'[v].at) # h => h < Hour(now')
               \/ /\ worker'[v].pc # "seed" /\ h < Hour(now')
                  /\ worker'[v].pc = "reserve" => Hour(worker'[v].at) # h
    <3>1. GoesOn(v) /\ worker[v] \in Local
      BY <1>0
    <3>2. CASE worker'[v] = worker[v]
      BY <1>0, <1>1, <1>2, <3>1, <3>2 DEF Lost, Local
    <3>3. CASE worker'[v].pc = "idle" /\ (seed(v) \/ worker[v].pc \in Busy \/ ~policy.active)
      <4>1. h < Hour(now)
        BY <1>0, <1>1, <1>4, <3>3 DEF Lost, seed, Busy
      <4> QED
        BY <1>1, <3>3, <4>1
    <3>4. CASE CountAccepted(v) /\ worker'[v].pc = "seed" /\ worker'[v].at = now
      <4>1. Cardinality(RecordedIn(Hour(now))) <= worker'[v].sent
        BY <1>0, <3>4, StartCounts
      <4>2. worker'[v].sent \in Nat
        <5>1. TypeInv'
          BY TypeNext
        <5> QED
          BY <5>1 DEF TypeInv, TypeOK, Local
      <4>3. Hour(now) = h => Cardinality(RecordedIn(h)') <= worker'[v].sent
        BY <1>2, <4>1, <4>2
      <4> QED
        BY <1>1, <3>4, <4>3
    <3>5. CASE worker[v].pc = "idle" /\ worker'[v].pc = "reserve" /\ worker'[v].at = now
      BY <1>1, <3>5 DEF Lost
    <3>6. CASE worker[v].pc \in Busy /\ Proceeds(v, worker'[v].pc)
      BY <1>1, <3>6 DEF Lost, Busy, Proceeds
    <3> QED
      BY <3>1, <3>2, <3>3, <3>4, <3>5, <3>6 DEF GoesOn
  <2> QED
    BY <1>0, <2>2, <2>3 DEF Lost, Hour
<1> QED
  BY <1>3, <1>4

\* A new reservation finds a counter that covers what its hour has spent, and
\* leaves one that covers one email more.
LEMMA AdmissionCovers ==
    ASSUME TypeInv, HandlerInv, WindowInv, MaxLag <= ReservationTtl,
           NEW w \in Worker, Admits(w), UNCHANGED <<now, row>>,
           NEW h \in Hours, h = Hour(worker[w].at), ~HasReservation(worker[w].email)
    PROVE  Covers(h)' /\ \E p \in Policy : Cardinality(Spent(h)') <= p.limit
<1>1. /\ now < Closing(h) /\ worker[w].at \in Nat /\ now \in Nat /\ worker[w].at <= now
      /\ count \in [Hours -> Key] /\ worker[w].pc = "reserve"
  BY AskingHour DEF Admits, Asking, TypeInv, TypeOK, Local, WorkerInv
<1>2. PICK p \in Policy : worker[w].limit = p.limit
  BY <1>1 DEF HandlerInv
<1>3. /\ count'[h].value = Value(count[h]) + 1
      /\ count'[h].until = hourEnd(worker[w].at) + ReservationTtl
  BY <1>1 DEF Admits
<1>4. Value(count[h]) \in Nat /\ Value(count[h]) < p.limit
  BY <1>1, <1>2 DEF Admits, Full, Value, Key
<1>5. Spent(h)' \subseteq Spent(h) \cup {worker[w].email}
  <2>1. PICK n : n = Admitted(w)
    OBVIOUS
  <2>2. n.email = worker[w].email /\ admitted' = admitted \cup {n}
    BY <2>1 DEF Admits, Admitted
  <2>3. FreshIn(h)' \subseteq FreshIn(h) \cup {n} /\ Kept(h)' \subseteq Kept(h) \cup {n}
    BY <2>2 DEF Kept, KeptIn, FreshIn, Hour
  <2>4. ASSUME NEW e \in RecordedIn(h)' PROVE e \in RecordedIn(h) \/ e = worker[w].email
    BY <2>2, <2>3, <2>4 DEF RecordedIn
  <2> QED
    BY <2>2, <2>3, <2>4 DEF Spent
<1>6. /\ IsFiniteSet(Spent(h)) /\ Cardinality(Spent(h)) \in Nat
      /\ Cardinality(Spent(h)') \in Nat /\ Cardinality(Spent(h)') <= Cardinality(Spent(h)) + 1
  <2>1. IsFiniteSet(Spent(h)) /\ Cardinality(Spent(h)) \in Nat
    BY SpentFinite
  <2>2. PICK S : S = Spent(h)
    OBVIOUS
  <2>3. PICK T : T = S \cup {worker[w].email}
    OBVIOUS
  <2>4. IsFiniteSet(T) /\ (Cardinality(T) = Cardinality(S) \/ Cardinality(T) = Cardinality(S) + 1)
    BY <2>1, <2>2, <2>3, FS_AddElement
  <2>5. Cardinality(Spent(h)') \in Nat /\ Cardinality(Spent(h)') <= Cardinality(T)
    BY <1>5, <2>2, <2>3, <2>4, FS_Subset, FS_CardinalityType
  <2> QED
    BY <2>1, <2>2, <2>4, <2>5
<1>7. Cardinality(Spent(h)) <= Value(count[h])
  <2>1. CASE Spent(h) = {}
    <3>1. Cardinality(Spent(h)) = 0
      BY <2>1, FS_EmptySet
    <3> QED
      BY <1>4, <3>1
  <2>2. CASE Covers(h)
    BY <2>2 DEF Covers, Value
  <2>3. ~(Closing(h) <= now)
    <3>1. Closing(h) \in Nat
      BY DEF Hours, Closing
    <3> QED
      BY <1>1, <3>1
  <2>4. ~Lost(h)
    BY <1>1 DEF Lost
  <2> QED
    BY <2>1, <2>2, <2>3, <2>4 DEF WindowInv, Tracked
<1>8. hourEnd(worker[w].at) \in Nat /\ worker[w].at < hourEnd(worker[w].at)
      /\ Closing(h) = hourEnd(worker[w].at) + MaxLag
  BY <1>1, HourWindow DEF Closing, hourEnd
<1>9. now < count'[h].until /\ Closing(h) <= count'[h].until
  BY <1>1, <1>3, <1>8
<1>10. p.limit \in Nat
  OBVIOUS
<1>11. Cardinality(Spent(h)') <= p.limit /\ Cardinality(Spent(h)') <= count'[h].value
  BY <1>3, <1>4, <1>6, <1>7, <1>10
<1> QED
  BY <1>9, <1>11 DEF Covers, Exists, Closing

\* Every step keeps every hour within a limit, and tracked.
LEMMA WindowNext ==
    ASSUME MaxLag <= ReservationTtl, StaysActive
    PROVE  TypeInv /\ OrderInv /\ HandlerInv /\ WindowInv /\ [Next]_vars => WindowInv'
<1> SUFFICES ASSUME TypeInv, OrderInv, HandlerInv, WindowInv, [Next]_vars, NEW h \in Hours
             PROVE  (\E p \in Policy : Cardinality(Spent(h)') <= p.limit) /\ Tracked(h)'
  BY DEF WindowInv, Hours, Hour
<1>0. /\ now \in Nat /\ h \in Nat /\ count \in [Hours -> Key] /\ Closing(h) \in Nat
      /\ Tracked(h) /\ \E p \in Policy : Cardinality(Spent(h)) <= p.limit
  <2>1. h \in Nat
    BY DEF Hours
  <2>2. Closing(h) \in Nat
    BY <2>1 DEF Closing
  <2> QED
    BY <2>1, <2>2 DEF WindowInv, TypeInv, TypeOK
<1>1. /\ IsFiniteSet(Spent(h)) /\ Cardinality(Spent(h)) \in Nat
      /\ \A S \in SUBSET Spent(h) : Cardinality(S) \in Nat /\ Cardinality(S) <= Cardinality(Spent(h))
  BY SpentFinite, SpentLess
<1>2. ASSUME Spent(h)' \subseteq Spent(h) PROVE \E p \in Policy : Cardinality(Spent(h)') <= p.limit
  <2>1. PICK p \in Policy : Cardinality(Spent(h)) <= p.limit
    BY <1>0
  <2>2. Cardinality(Spent(h)') \in Nat /\ Cardinality(Spent(h)') <= Cardinality(Spent(h)) /\ p.limit \in Nat
    BY <1>1, <1>2
  <2> QED
    BY <1>1, <2>1, <2>2
<1>3. CASE Outage
  <2>1. /\ Kept(h)' = {} /\ RecordedIn(h)' \subseteq RecordedIn(h) /\ Spent(h)' = RecordedIn(h)'
        /\ Spent(h)' \subseteq Spent(h)
    BY <1>3, SpentLost, SpentFinite
  <2>2. \A v \in Worker : worker'[v].pc = "stopped"
    BY <1>3 DEF Outage
  <2>3. ~Exists(count[h])'
    BY <1>0, <1>3 DEF Outage, LoseKeys, NoKey, Exists
  <2>4. Lost(h)'
    BY <2>1, <2>2, <2>3 DEF Lost
  <2> QED
    BY <1>2, <2>1, <2>4 DEF Tracked
<1>4. CASE Flush
  <2>1. Spent(h)' = {}
    BY <1>4 DEF Flush, Spent, RecordedIn, Kept, KeptIn, FreshIn
  <2> QED
    BY <1>2, <2>1 DEF Tracked
<1>5. ASSUME ~(Flush \/ Outage), FreshIn(h)' = FreshIn(h), Exists(count[h]) => count'[h] = count[h], now' \in {now, now + 1}
      PROVE  (\E p \in Policy : Cardinality(Spent(h)') <= p.limit) /\ Tracked(h)'
  <2>1. Spent(h)' \subseteq Spent(h)
    BY <1>5, SpentStays
  <2> SUFFICES Tracked(h)'
    BY <1>2, <2>1
  <2>2. CASE Spent(h) = {}
    BY <2>1, <2>2 DEF Tracked
  <2>3. CASE Covers(h)
    <3>1. Cardinality(Spent(h)') \in Nat /\ Cardinality(Spent(h)') <= Cardinality(Spent(h))
      BY <1>1, <2>1
    <3>2. count[h] \in Key /\ count'[h] = count[h]
      BY <1>0, <1>5, <2>3 DEF Covers
    <3>3. Cardinality(Spent(h)') <= count'[h].value /\ Closing(h) <= count'[h].until
      BY <1>1, <2>3, <3>1, <3>2 DEF Covers, Key
    <3>4. count'[h].until > now' \/ Closing(h) <= now'
      BY <1>0, <1>5, <3>2, <3>3 DEF Key
    <3> QED
      BY <3>3, <3>4 DEF Tracked, Covers, Exists, Closing
  <2>4. CASE Closing(h) <= now
    BY <1>0, <1>5, <2>4 DEF Tracked, Closing
  <2>5. CASE Lost(h) /\ Spent(h) # {}
    BY <1>5, <2>5, LostStays DEF Tracked
  <2> QED
    BY <1>0, <2>2, <2>3, <2>4, <2>5 DEF Tracked
<1>6. ASSUME NEW w \in Worker, Admits(w), UNCHANGED <<now, row>>, ~(Flush \/ Outage)
      PROVE  (\E p \in Policy : Cardinality(Spent(h)') <= p.limit) /\ Tracked(h)'
  <2>1. CASE ~HasReservation(worker[w].email) /\ h = Hour(worker[w].at)
    BY <1>6, <2>1, AdmissionCovers DEF Tracked
  <2>2. CASE ~(~HasReservation(worker[w].email) /\ h = Hour(worker[w].at))
    <3>1. ~(Admitted(w).fresh /\ Hour(Admitted(w).at) = h)
      BY <2>2 DEF Admitted
    <3>2. FreshIn(h)' = FreshIn(h)
      BY <1>6, <3>1 DEF Admits, FreshIn, Hour
    <3>3. count'[h] = count[h]
      BY <1>0, <1>6, <2>2 DEF Admits
    <3> QED
      BY <1>5, <1>6, <3>2, <3>3
  <2> QED
    BY <2>1, <2>2
<1>7. ASSUME NEW w \in Worker, seed(w), ~(Flush \/ Outage)
      PROVE  (\E p \in Policy : Cardinality(Spent(h)') <= p.limit) /\ Tracked(h)'
  <2>1. FreshIn(h)' = FreshIn(h)
    BY <1>7 DEF seed, FreshIn, Hour
  <2>2. Exists(count[h]) => count'[h] = count[h]
    BY <1>0, <1>7 DEF seed, SeedKey
  <2>3. UNCHANGED now
    BY <1>7 DEF seed
  <2> QED
    BY <1>5, <1>7, <2>1, <2>2, <2>3
<1>8. ASSUME UNCHANGED <<count, next, reserved, admitted>>, now' \in {now, now + 1}, ~(Flush \/ Outage)
      PROVE  (\E p \in Policy : Cardinality(Spent(h)') <= p.limit) /\ Tracked(h)'
  <2>1. FreshIn(h)' = FreshIn(h)
    BY <1>8 DEF FreshIn, Hour
  <2> QED
    BY <1>5, <1>8, <2>1
<1> QED
  BY <1>3, <1>4, <1>6, <1>7, <1>8, RedisStep

\* No hour has spent anything yet.
LEMMA WindowInit == Init => WindowInv
<1> SUFFICES ASSUME Init, NEW h \in Hours
             PROVE  (\E p \in Policy : Cardinality(Spent(h)) <= p.limit) /\ Tracked(h)
  BY DEF WindowInv
<1>1. Spent(h) = {}
  BY DEF Init, Spent, RecordedIn, Kept, KeptIn, FreshIn
<1>2. policy \in Policy /\ policy.limit \in Nat /\ Cardinality(Spent(h)) = 0
  BY <1>1, FS_EmptySet DEF Init
<1> QED
  BY <1>1, <1>2 DEF Tracked

\* Of a sender that stays active, the emails that are recorded SENT under new
\* reservations of one hour are within the limit of a policy of the sender,
\* however often workers crash and Redis loses everything while none runs, as
\* long as no call is later than a key lives.  When Redis loses everything under
\* a running worker, the reservations are counted from there on.
THEOREM RecordedWithinCorrect ==
    ASSUME MaxLag <= ReservationTtl, StaysActive
    PROVE  Spec => []RecordedWithin
<1> DEFINE IInv == OrderInv /\ HandlerInv /\ WindowInv
<1>1. Init => IInv
  BY OrderInit, HandlerInit, WindowInit
<1>2. TypeInv /\ IInv /\ [Next]_vars => IInv'
  BY OrderNext, HandlerNext, WindowNext
<1>3. TypeInv /\ IInv => RecordedWithin
  <2> SUFFICES ASSUME TypeInv, WindowInv, NEW h \in Hours
               PROVE  \E p \in Policy : Cardinality(RecordedIn(h)) <= p.limit
    BY DEF RecordedWithin
  <2>1. PICK p \in Policy : Cardinality(Spent(h)) <= p.limit
    BY DEF WindowInv
  <2>2. /\ Cardinality(RecordedIn(h)) \in Nat /\ Cardinality(Spent(h)) \in Nat /\ p.limit \in Nat
        /\ Cardinality(RecordedIn(h)) <= Cardinality(Spent(h))
    BY SpentFinite, SpentLess
  <2> QED
    BY <2>1, <2>2
<1> QED
  BY <1>1, <1>2, <1>3, TypeCorrect, PTL DEF Spec
=============================================================================

---------------------- MODULE SenderRateLimiter_proofs ----------------------
(***************************************************************************)
(* Proofs about SenderRateLimiter: whatever Redis loses and whenever, the  *)
(* admissions since then are not too close, and no hour has more new       *)
(* reservations than the limit each of them was asked under.               *)
(***************************************************************************)
EXTENDS SenderRateLimiter, FiniteSetTheorems, TLAPS

USE PolicyAssumption, TimeAssumption, EmailAssumption

RowType == [status : {"claimable", "PROCESSING", "SENT", "over"}, due : Nat,
            processingStartedAt : Nat, sentAt : Nat, accepted : BOOLEAN]
Admission == [email : Email, at : Nat, given : Nat, limit : Nat, delay : Nat,
              fresh : BOOLEAN, kept : BOOLEAN]

\* An hour window contains the times that are mapped to it.
LEMMA HourWindow ==
    ASSUME NEW t \in Nat
    PROVE  /\ Hour(t) \in Nat
           /\ hourEnd(t) \in Nat
           /\ Hour(t) * HourLength <= t
           /\ t < hourEnd(t)
  BY DEF Hour, hourEnd

\* Earlier times are in earlier windows.
LEMMA HourOrder ==
    ASSUME NEW t \in Nat, NEW u \in Nat, t <= u
    PROVE  Hour(t) <= Hour(u)
  BY DEF Hour

-----------------------------------------------------------------------------
(* Types, and the age of the clock readings workers hold *)

Asking == {"seed", "reserve"}
Busy == {"reserve", "defer", "claim", "send"}

WorkerInv(w) ==
    /\ worker[w].pc \in Busy => worker[w].email \in Email
    /\ worker[w].at <= now
    /\ worker[w].pc \in Asking => now <= worker[w].at + MaxLag
    /\ \/ worker[w].delay = 0
       \/ \E p \in Policy : worker[w].delay = p.delay

TypeInv ==
    /\ TypeOK
    /\ now <= MaxTime
    /\ \A w \in Worker : WorkerInv(w)

\* Initially every variable has its type.
LEMMA TypeInit == Init => TypeInv
<1> SUFFICES ASSUME Init PROVE TypeInv
  OBVIOUS
<1>1. /\ now \in Nat /\ now <= MaxTime /\ policy \in Policy
      /\ reserved \in [Email -> Nat] /\ admitted \subseteq {}
      /\ next \in Key /\ count \in [Hours -> Key]
  BY DEF Init, NoKey, Key
<1>2. row \in [Email -> RowType]
  BY DEF Init, RowType
<1>3. worker \in [Worker -> Local] /\ \A w \in Worker : WorkerInv(w)
  BY <1>1 DEF Init, FreshLocal, Local, WorkerInv, Busy, Asking
<1> QED
  BY <1>1, <1>2, <1>3 DEF TypeInv, TypeOK, RowType

\* A worker that starts, gives up or waits holds nothing.
LEMMA FreshLocalType ==
    ASSUME NEW pc \in {"stopped", "seed", "idle", "reserve"}
    PROVE  /\ FreshLocal(pc) \in Local
           /\ FreshLocal(pc).pc = pc /\ FreshLocal(pc).at = 0 /\ FreshLocal(pc).delay = 0
  BY DEF FreshLocal, Local

\* One worker's local state changes and the clock stays.
LEMMA WorkerUpdate ==
    ASSUME TypeInv, NEW w \in Worker, NEW l \in Local, worker' = [worker EXCEPT ![w] = l],
           UNCHANGED now,
           l.pc \in Busy => l.email \in Email,
           l.at <= now, l.pc \in Asking => now <= l.at + MaxLag,
           l.delay = 0 \/ \E p \in Policy : l.delay = p.delay
    PROVE  worker' \in [Worker -> Local] /\ \A v \in Worker : WorkerInv(v)'
<1>1. worker' \in [Worker -> Local]
  BY DEF TypeInv, TypeOK
<1>2. ASSUME NEW v \in Worker PROVE WorkerInv(v)'
  <2>1. CASE v = w
    BY <2>1 DEF WorkerInv, TypeInv, TypeOK
  <2>2. CASE v # w
    BY <2>2 DEF WorkerInv, TypeInv, TypeOK
  <2> QED
    BY <2>1, <2>2
<1> QED
  BY <1>1, <1>2

\* A worker that goes back to "idle" or dies.
LEMMA WorkerReset ==
    ASSUME TypeInv, NEW w \in Worker, NEW pc \in {"stopped", "idle"},
           worker' = [worker EXCEPT ![w] = FreshLocal(pc)], UNCHANGED now
    PROVE  worker' \in [Worker -> Local] /\ \A v \in Worker : WorkerInv(v)'
<1>1. 0 <= now
  BY DEF TypeInv, TypeOK
<1> QED
  BY <1>1, FreshLocalType, WorkerUpdate DEF Busy, Asking

\* The local state a worker goes on with inside the handler.
LEMMA WorkerMoves ==
    ASSUME TypeInv, NEW w \in Worker, worker[w].pc \in Busy, UNCHANGED now,
           NEW pc \in {"defer", "claim", "send"}, NEW retryAt \in Nat,
           worker' = [worker EXCEPT ![w] = [worker[w] EXCEPT !.pc = pc, !.retryAt = retryAt]]
    PROVE  worker' \in [Worker -> Local] /\ \A v \in Worker : WorkerInv(v)'
<1> DEFINE l == [worker[w] EXCEPT !.pc = pc, !.retryAt = retryAt]
<1>1. worker[w] \in Local /\ WorkerInv(w)
  BY DEF TypeInv, TypeOK
<1>2. l \in Local /\ l.pc = pc /\ l.email = worker[w].email /\ l.at = worker[w].at /\ l.delay = worker[w].delay
  BY <1>1 DEF Local
<1>3. /\ l.pc \in Busy => l.email \in Email
      /\ l.at <= now
      /\ l.pc \notin Asking
      /\ l.delay = 0 \/ \E p \in Policy : l.delay = p.delay
  BY <1>1, <1>2 DEF WorkerInv, Busy, Asking
<1> HIDE DEF l
<1>4. worker' = [worker EXCEPT ![w] = l]
  BY DEF l
<1> QED
  BY <1>2, <1>3, <1>4, WorkerUpdate

\* The same, when nothing but the place in the handler changes.
LEMMA WorkerProceeds ==
    ASSUME TypeInv, NEW w \in Worker, worker[w].pc \in Busy, UNCHANGED now,
           NEW pc \in {"claim", "send"},
           worker' = [worker EXCEPT ![w] = [worker[w] EXCEPT !.pc = pc]]
    PROVE  worker' \in [Worker -> Local] /\ \A v \in Worker : WorkerInv(v)'
<1> DEFINE l == [worker[w] EXCEPT !.pc = pc]
<1>1. worker[w] \in Local /\ WorkerInv(w)
  BY DEF TypeInv, TypeOK
<1>2. l \in Local /\ l.pc = pc /\ l.email = worker[w].email /\ l.at = worker[w].at /\ l.delay = worker[w].delay
  BY <1>1 DEF Local
<1>3. /\ l.pc \in Busy => l.email \in Email
      /\ l.at <= now
      /\ l.pc \notin Asking
      /\ l.delay = 0 \/ \E p \in Policy : l.delay = p.delay
  BY <1>1, <1>2 DEF WorkerInv, Busy, Asking
<1> HIDE DEF l
<1>4. worker' = [worker EXCEPT ![w] = l]
  BY DEF l
<1> QED
  BY <1>2, <1>3, <1>4, WorkerUpdate

\* What the aggregate of the seeding finds is well typed.
LEMMA AggregateType ==
    ASSUME TypeInv, NEW from, NEW to
    PROVE  Cardinality(SentIn(from, to)) \in Nat /\ Latest(SentIn(from, to)) \subseteq Nat
<1>1. IsFiniteSet(SentIn(from, to))
  BY FS_Subset DEF SentIn
<1>2. \A e \in Email : row[e].sentAt \in Nat
  BY DEF TypeInv, TypeOK
<1> QED
  BY <1>1, <1>2, FS_CardinalityType DEF Latest, SentIn

\* The steps of the startup seeding keep the types.
LEMMA SeedingType ==
    ASSUME TypeInv, NEW w \in Worker, CountAccepted(w) \/ seed(w)
    PROVE  TypeInv'
<1>1. CASE CountAccepted(w) /\ policy.active
  <2> DEFINE S == SentIn(Hour(now) * HourLength, now)
  <2>1. PICK last \in Latest(S) :
          worker' = [worker EXCEPT ![w] = [FreshLocal("seed") EXCEPT
                       !.at = now, !.delay = policy.delay, !.sent = Cardinality(S), !.last = last]]
    BY <1>1 DEF CountAccepted
  <2> DEFINE l == [FreshLocal("seed") EXCEPT
                     !.at = now, !.delay = policy.delay, !.sent = Cardinality(S), !.last = last]
  <2>2. last \in Nat /\ Cardinality(S) \in Nat
    BY <2>1, AggregateType
  <2>3. policy \in Policy /\ policy.delay \in Nat /\ now \in Nat
    BY DEF TypeInv, TypeOK
  <2>4. l \in Local /\ l.pc = "seed" /\ l.at = now /\ l.delay = policy.delay
    BY <2>2, <2>3, FreshLocalType DEF Local
  <2> HIDE DEF l
  <2>5. worker' = [worker EXCEPT ![w] = l]
    BY <2>1 DEF l
  <2>6. UNCHANGED <<now, policy, count, next, reserved, row, admitted>>
    BY <1>1 DEF CountAccepted
  <2>7. l.pc \notin Busy /\ l.at <= now /\ now <= l.at + MaxLag
    BY <2>3, <2>4 DEF Busy
  <2>8. worker' \in [Worker -> Local] /\ \A v \in Worker : WorkerInv(v)'
    BY <2>3, <2>4, <2>5, <2>6, <2>7, WorkerUpdate
  <2> QED
    BY <2>6, <2>8 DEF TypeInv, TypeOK
<1>2. CASE CountAccepted(w) /\ ~policy.active
  <2>1. /\ UNCHANGED <<now, policy, count, next, reserved, row, admitted>>
        /\ worker' = [worker EXCEPT ![w] = FreshLocal("idle")]
    BY <1>2 DEF CountAccepted
  <2>2. worker' \in [Worker -> Local] /\ \A v \in Worker : WorkerInv(v)'
    BY <2>1, WorkerReset
  <2> QED
    BY <2>1, <2>2 DEF TypeInv, TypeOK
<1>3. CASE seed(w)
  <2> DEFINE l == worker[w]
             until == now + (hourEnd(l.at) - l.at) + ReservationTtl
  <2>1. l \in Local /\ now \in Nat
    BY DEF TypeInv, TypeOK
  <2>2. l.at \in Nat /\ l.sent \in Nat /\ l.last \in Nat /\ l.delay \in Nat
    BY <2>1 DEF Local
  <2>3. until \in Nat
    BY <2>1, <2>2, HourWindow
  <2>4. [value |-> l.sent, until |-> until] \in Key /\ [value |-> l.last + l.delay, until |-> until] \in Key
    BY <2>2, <2>3 DEF Key
  <2>5. count' \in [Hours -> Key] /\ next' \in Key
    BY <1>3, <2>4 DEF seed, SeedKey, TypeInv, TypeOK
  <2>6. worker' \in [Worker -> Local] /\ \A v \in Worker : WorkerInv(v)'
    BY <1>3, WorkerReset DEF seed
  <2> QED
    BY <1>3, <2>5, <2>6 DEF seed, TypeInv, TypeOK
<1> QED
  BY <1>1, <1>2, <1>3

\* Taking a job is well typed.
LEMMA LoadType ==
    ASSUME TypeInv, NEW w \in Worker, NEW e \in Email, Load(w, e)
    PROVE  TypeInv'
<1> DEFINE l == [FreshLocal("reserve") EXCEPT
                   !.email = e, !.at = now, !.limit = policy.limit, !.delay = policy.delay]
<1>1. policy \in Policy /\ policy.delay \in Nat /\ policy.limit \in Nat /\ now \in Nat
  BY DEF TypeInv, TypeOK
<1>2. l \in Local /\ l.email = e /\ l.at = now /\ l.delay = policy.delay
  BY <1>1, FreshLocalType DEF Local
<1>3. UNCHANGED now /\ l.at <= now /\ now <= l.at + MaxLag
  BY <1>1, <1>2 DEF Load
<1>4. worker' = [worker EXCEPT ![w] = l]
  BY DEF Load
<1> HIDE DEF l
<1>5. worker' \in [Worker -> Local] /\ \A v \in Worker : WorkerInv(v)'
  BY <1>1, <1>2, <1>3, <1>4, WorkerUpdate
<1> QED
  BY <1>5 DEF Load, TypeInv, TypeOK

\* reserveScript, on an admission: the fresh reservation, and the keys it sets.
Admitted(w) ==
    [email |-> worker[w].email, at |-> worker[w].at, given |-> now,
     limit |-> worker[w].limit, delay |-> worker[w].delay,
     fresh |-> ~HasReservation(worker[w].email), kept |-> TRUE]

Admits(w) ==
    /\ worker[w].pc = "reserve"
    /\ ~Full(worker[w]) /\ ~TooSoon(worker[w])
    /\ admitted' = admitted \cup {Admitted(w)}
    /\ next' = [value |-> worker[w].at + worker[w].delay, until |-> now + ReservationTtl]
    /\ count' = IF HasReservation(worker[w].email) THEN count
                ELSE [count EXCEPT ![Hour(worker[w].at)] =
                        [value |-> Value(count[Hour(worker[w].at)]) + 1,
                         until |-> hourEnd(worker[w].at) + ReservationTtl]]

\* The script admits, or changes no key.
LEMMA ReserveStep ==
    ASSUME TypeInv, NEW w \in Worker, reserve(w)
    PROVE  /\ UNCHANGED now
           /\ Admits(w) \/ UNCHANGED <<count, next, admitted>>
           /\ ~Full(worker[w]) /\ ~TooSoon(worker[w]) => Admits(w)
<1>1. UNCHANGED now /\ worker[w].pc = "reserve"
  BY DEF reserve
<1>2. CASE ~Full(worker[w]) /\ ~TooSoon(worker[w])
  <2> DEFINE h == Hour(worker[w].at)
             key == [value |-> Value(count[h]) + 1, until |-> hourEnd(worker[w].at) + ReservationTtl]
  <2>1. h \in Nat
    BY HourWindow DEF TypeInv, TypeOK, Local
  <2>2. HasReservation(worker[w].email) => UNCHANGED count
    BY <1>2 DEF reserve
  <2>3. ~HasReservation(worker[w].email) =>
          count' = [count EXCEPT ![h] = [value |-> Value(@) + 1, until |-> hourEnd(worker[w].at) + ReservationTtl]]
    BY <1>2 DEF reserve
  <2>4. [count EXCEPT ![h] = [value |-> Value(@) + 1, until |-> hourEnd(worker[w].at) + ReservationTtl]]
          = [count EXCEPT ![h] = key]
    BY DEF TypeInv, TypeOK, Value, Exists
  <2> QED
    BY <1>1, <1>2, <2>2, <2>3, <2>4 DEF reserve, Admits, Admitted
<1>3. CASE ~(~Full(worker[w]) /\ ~TooSoon(worker[w]))
  BY <1>1, <1>3 DEF reserve, Refuse
<1> QED
  BY <1>1, <1>2, <1>3

\* A verdict of the script is well typed.
LEMMA ReserveType ==
    ASSUME TypeInv, NEW w \in Worker, reserve(w)
    PROVE  TypeInv'
<1> DEFINE l == worker[w]
<1>1. /\ l \in Local /\ now \in Nat /\ l.email \in Email /\ l.pc \in Busy
      /\ l.at \in Nat /\ l.limit \in Nat /\ l.delay \in Nat
  BY DEF reserve, TypeInv, TypeOK, Local, WorkerInv, Busy
<1>2. hourEnd(l.at) \in Nat /\ \A key \in Key : Value(key) \in Nat
  BY <1>1, HourWindow DEF Value, Key
<1>3. UNCHANGED <<now, policy, row>>
  BY DEF reserve
<1>4. CASE \E retryAt \in Nat : Refuse(w, retryAt)
  <2>1. PICK retryAt \in Nat : Refuse(w, retryAt)
    BY <1>4
  <2>2. UNCHANGED <<count, next, reserved, admitted>>
    BY <2>1 DEF Refuse
  <2>3. worker' = [worker EXCEPT ![w] = [worker[w] EXCEPT !.pc = "defer", !.retryAt = retryAt]]
    BY <2>1 DEF Refuse, TypeInv, TypeOK
  <2>4. worker' \in [Worker -> Local] /\ \A v \in Worker : WorkerInv(v)'
    BY <1>1, <1>3, <2>3, WorkerMoves
  <2> QED
    BY <1>3, <2>2, <2>4 DEF TypeInv, TypeOK
<1>5. CASE ~\E retryAt \in Nat : Refuse(w, retryAt)
  <2>1. Value(next) \in Nat
    BY <1>2 DEF TypeInv, TypeOK
  <2>2. ~Full(l) /\ ~TooSoon(l)
    BY <1>2, <1>5, <2>1 DEF reserve
  <2>3. Admits(w)
    BY <1>5, <2>2, ReserveStep DEF reserve, Admits, Admitted
  <2>4. reserved' \in [Email -> Nat]
    BY <1>1, <2>2 DEF reserve, TypeInv, TypeOK
  <2>5. next' \in Key
    BY <1>1, <2>3 DEF Admits, Key
  <2>6. count' \in [Hours -> Key]
    <3> DEFINE h == Hour(l.at)
               key == [value |-> Value(count[h]) + 1, until |-> hourEnd(l.at) + ReservationTtl]
    <3>1. count \in [Hours -> Key]
      BY DEF TypeInv, TypeOK
    <3>2. h \in Hours => key \in Key
      BY <1>2, <3>1 DEF Key
    <3>3. count' = count \/ count' = [count EXCEPT ![h] = key]
      BY <2>3 DEF Admits
    <3> QED
      BY <3>1, <3>2, <3>3
  <2>7. admitted' \subseteq Admission
    <3>1. Admitted(w) \in Admission
      BY <1>1 DEF Admitted, HasReservation, Admission
    <3> QED
      BY <2>3, <3>1 DEF Admits, TypeInv, TypeOK, Admission
  <2>8. worker' = [worker EXCEPT ![w] = [worker[w] EXCEPT !.pc = "claim"]]
    BY <2>2 DEF reserve
  <2>9. worker' \in [Worker -> Local] /\ \A v \in Worker : WorkerInv(v)'
    BY <1>1, <1>3, <2>8, WorkerProceeds
  <2> QED
    BY <1>3, <2>4, <2>5, <2>6, <2>7, <2>9 DEF TypeInv, TypeOK, Admission
<1> QED
  BY <1>4, <1>5

\* The rest of the handler is well typed.
LEMMA HandlerType ==
    ASSUME TypeInv, NEW w \in Worker, Defer(w) \/ Claim(w) \/ Settle(w)
    PROVE  TypeInv'
<1> DEFINE e == worker[w].email
<1>1. /\ e \in Email /\ worker[w].pc \in Busy /\ row[e] \in RowType
      /\ worker[w].at \in Nat /\ worker[w].retryAt \in Nat /\ now \in Nat
  BY DEF Defer, Claim, Settle, TypeInv, TypeOK, Local, WorkerInv, Busy, RowType
<1>2. UNCHANGED <<now, policy, count, next, reserved, admitted>>
  BY DEF Defer, Claim, Settle
<1>3. row' \in [Email -> RowType]
  <2>1. row \in [Email -> RowType]
    BY DEF TypeInv, TypeOK, RowType
  <2>2. CASE Defer(w)
    <3> DEFINE r == [row[e] EXCEPT !.due = worker[w].retryAt]
    <3>1. r \in RowType
      BY <1>1 DEF RowType
    <3>2. row' = row \/ row' = [row EXCEPT ![e] = r]
      BY <2>2 DEF Defer
    <3> QED
      BY <2>1, <3>1, <3>2
  <2>3. CASE Claim(w)
    <3> DEFINE r == [row[e] EXCEPT !.status = "PROCESSING", !.processingStartedAt = worker[w].at]
    <3>1. r \in RowType
      BY <1>1 DEF RowType
    <3>2. row' = row \/ row' = [row EXCEPT ![e] = r]
      BY <2>3 DEF Claim
    <3> QED
      BY <2>1, <3>1, <3>2
  <2>4. CASE Settle(w)
    <3> DEFINE sent == [row[e] EXCEPT !.status = "SENT", !.due = now, !.sentAt = now, !.accepted = TRUE]
               retry == [row[e] EXCEPT !.status = "claimable", !.due = now + Backoff,
                                       !.processingStartedAt = 0]
               over == [row[e] EXCEPT !.status = "over", !.due = now, !.accepted = TRUE]
    <3>1. sent \in RowType
      BY <1>1 DEF RowType
    <3>2. retry \in RowType
      <4> DEFINE due == now + Backoff
      <4>1. due \in Nat
        BY <1>1
      <4> HIDE DEF due
      <4>2. [row[e] EXCEPT !.status = "claimable", !.due = due, !.processingStartedAt = 0] \in RowType
        BY <1>1, <4>1 DEF RowType
      <4> QED
        BY <4>2 DEF due
    <3>3. over \in RowType
      BY <1>1 DEF RowType
    <3>4. PICK r \in {sent, retry, over} : row' = [row EXCEPT ![e] = r]
      BY <2>4 DEF Settle
    <3> HIDE DEF sent, retry, over
    <3> QED
      BY <2>1, <3>1, <3>2, <3>3, <3>4
  <2> QED
    BY <2>2, <2>3, <2>4
<1>4. worker' \in [Worker -> Local] /\ \A v \in Worker : WorkerInv(v)'
  <2>1. CASE worker' = [worker EXCEPT ![w] = FreshLocal("idle")]
    BY <1>2, <2>1, WorkerReset
  <2>2. CASE worker' = [worker EXCEPT ![w] = [worker[w] EXCEPT !.pc = "send"]]
    BY <1>1, <1>2, <2>2, WorkerProceeds
  <2> QED
    BY <2>1, <2>2 DEF Defer, Claim, Settle
<1> QED
  BY <1>2, <1>3, <1>4 DEF TypeInv, TypeOK, RowType

\* A loss empties Redis, and no earlier admission counts as kept.
LEMMA LossStep ==
    ASSUME TypeInv, Flush \/ Outage
    PROVE  /\ LoseKeys /\ UNCHANGED <<now, policy, row, worker>>
           /\ admitted' \subseteq Admission
           /\ \A a \in admitted' : ~a.kept
<1>1. \A a \in admitted : [a EXCEPT !.kept = FALSE] \in Admission /\ ~[a EXCEPT !.kept = FALSE].kept
  BY DEF TypeInv, TypeOK, Admission
<1>2. CASE Flush
  BY <1>2 DEF Flush
<1>3. CASE Outage
  BY <1>1, <1>3 DEF Outage
<1> QED
  BY <1>2, <1>3

\* Every step keeps the types.
LEMMA TypeNext == TypeInv /\ [Next]_vars => TypeInv'
<1> SUFFICES ASSUME TypeInv, [Next]_vars PROVE TypeInv'
  OBVIOUS
<1>1. ASSUME NEW w \in Worker, CountAccepted(w) \/ seed(w) PROVE TypeInv'
  BY <1>1, SeedingType
<1>2. ASSUME NEW w \in Worker, NEW e \in Email, Load(w, e) PROVE TypeInv'
  BY <1>2, LoadType
<1>3. ASSUME NEW w \in Worker, reserve(w) PROVE TypeInv'
  BY <1>3, ReserveType
<1>4. ASSUME NEW w \in Worker, Defer(w) \/ Claim(w) \/ Settle(w) PROVE TypeInv'
  BY <1>4, HandlerType
<1>5. ASSUME NEW w \in Worker, Crash(w) PROVE TypeInv'
  <2>1. worker' = [worker EXCEPT ![w] = FreshLocal("stopped")]
        /\ UNCHANGED <<now, policy, count, next, reserved, row, admitted>>
    BY <1>5 DEF Crash
  <2>2. worker' \in [Worker -> Local] /\ \A v \in Worker : WorkerInv(v)'
    BY <2>1, WorkerReset
  <2> QED
    BY <2>1, <2>2 DEF TypeInv, TypeOK
<1>6. ASSUME NEW p \in Policy, SetPolicy(p) PROVE TypeInv'
  BY <1>6 DEF SetPolicy, TypeInv, TypeOK, WorkerInv
<1>7. CASE Flush \/ Outage
  <2>1. /\ count' \in [Hours -> Key] /\ next' \in Key /\ reserved' \in [Email -> Nat]
        /\ UNCHANGED <<now, policy, row, worker>> /\ admitted' \subseteq Admission
    BY <1>7, LossStep DEF LoseKeys, NoKey, Key
  <2> QED
    BY <2>1 DEF TypeInv, TypeOK, WorkerInv, Admission
<1>8. CASE Tick
  <2>1. now' = now + 1 /\ now' <= MaxTime /\ UNCHANGED <<policy, count, next, reserved, row, worker, admitted>>
    BY <1>8 DEF Tick, TypeInv, TypeOK
  <2>2. ASSUME NEW v \in Worker PROVE WorkerInv(v)'
    <3>1. WorkerInv(v) /\ worker[v].at \in Nat /\ now \in Nat
      BY DEF TypeInv, TypeOK, Local
    <3>2. worker[v].pc \in Asking => now < worker[v].at + MaxLag
      BY <1>8 DEF Tick, Asking
    <3> QED
      BY <2>1, <3>1, <3>2 DEF WorkerInv
  <2> QED
    BY <2>1, <2>2 DEF TypeInv, TypeOK
<1>9. CASE UNCHANGED vars
  BY <1>9 DEF vars, TypeInv, TypeOK, WorkerInv
<1> QED
  BY <1>1, <1>2, <1>3, <1>4, <1>5, <1>6, <1>7, <1>8, <1>9 DEF Next

\* Every reachable state of the gate and its workers is well typed, and no
\* worker asks with a clock reading older than MaxLag.
THEOREM TypeCorrect == Spec => []TypeInv
  BY TypeInit, TypeNext, PTL DEF Spec

\* In particular every variable keeps its type.
THEOREM TypeOKCorrect == Spec => []TypeOK
<1>1. TypeInv => TypeOK
  BY DEF TypeInv
<1> QED
  BY <1>1, TypeCorrect, PTL

-----------------------------------------------------------------------------
(***************************************************************************)
(* Spacing.  The "next" key covers every admission until it expires, and   *)
(* by then every clock reading a worker can still ask with is late enough. *)
(***************************************************************************)

\* The keys change in two ways only, or expire, or are lost.
Loses ==
    /\ LoseKeys /\ UNCHANGED now
    /\ \A a \in admitted' : ~a.kept

LEMMA KeyStep ==
    ASSUME TypeInv, [Next]_vars
    PROVE  \/ \E w \in Worker : (Admits(w) \/ seed(w)) /\ UNCHANGED now
           \/ Loses
           \/ UNCHANGED <<count, next, admitted>> /\ now' \in {now, now + 1}
<1>1. ASSUME NEW w \in Worker, reserve(w)
      PROVE  \/ Admits(w) /\ UNCHANGED now
             \/ UNCHANGED <<count, next, admitted>> /\ now' \in {now, now + 1}
  BY <1>1, ReserveStep
<1>2. ASSUME NEW w \in Worker, seed(w) PROVE UNCHANGED now
  BY <1>2 DEF seed
<1>3. ASSUME NEW w \in Worker, CountAccepted(w) \/ Defer(w) \/ Claim(w) \/ Settle(w) \/ Crash(w)
      PROVE  UNCHANGED <<count, next, admitted, now>>
  BY <1>3 DEF CountAccepted, Defer, Claim, Settle, Crash
<1>4. ASSUME NEW w \in Worker, NEW e \in Email, Load(w, e) PROVE UNCHANGED <<count, next, admitted, now>>
  BY <1>4 DEF Load
<1>5. ASSUME NEW p \in Policy, SetPolicy(p) PROVE UNCHANGED <<count, next, admitted, now>>
  BY <1>5 DEF SetPolicy
<1>6. CASE Tick
  BY <1>6 DEF Tick
<1>7. CASE UNCHANGED vars
  BY <1>7 DEF vars
<1>8. CASE Flush \/ Outage
  BY <1>8, LossStep DEF Loses
<1> QED
  BY <1>1, <1>2, <1>3, <1>4, <1>5, <1>6, <1>7, <1>8 DEF Next

\* The key still holds the time the admission asks for, or the admission is so
\* long ago that no worker can ask with a clock reading that is too early.
Covered(a) ==
    \/ /\ Exists(next)
       /\ a.at + Gap(a) <= next.value
       /\ a.at + ReservationTtl <= next.until
    \/ a.at + ReservationTtl <= now

SpacingInv ==
    MaxLag <= ReservationTtl =>
      /\ Spaced
      /\ \A a \in admitted : a.kept => a.at <= now /\ Covered(a)

\* What is guaranteed is not more than the delay, nor than the life of the key
\* as the latest call sees it.
LEMMA GapBound ==
    ASSUME MaxLag <= ReservationTtl, NEW a, a.delay \in Nat
    PROVE  Gap(a) \in Nat /\ Gap(a) <= a.delay /\ Gap(a) + MaxLag <= ReservationTtl
  BY DEF Gap, KeyLife

\* A worker that is admitted asks late enough after every earlier admission.
LEMMA LateEnough ==
    ASSUME TypeInv, SpacingInv, MaxLag <= ReservationTtl,
           NEW w \in Worker, Admits(w), NEW a \in admitted, a.kept
    PROVE  a.at + Gap(a) <= worker[w].at
<1>1. a.at \in Nat /\ a.delay \in Nat /\ next \in Key /\ now \in Nat /\ worker[w].at \in Nat
  BY DEF TypeInv, TypeOK, Local
<1>2. now <= worker[w].at + MaxLag
  BY DEF TypeInv, WorkerInv, Admits, Asking
<1>3. Exists(next) => next.value <= worker[w].at
  BY <1>1 DEF Admits, TooSoon, Value, Key
<1>4. Gap(a) \in Nat /\ Gap(a) + MaxLag <= ReservationTtl
  BY <1>1, GapBound
<1> QED
  BY <1>1, <1>2, <1>3, <1>4 DEF SpacingInv, Covered, Key

\* Admissions stay apart, and covered.
LEMMA SpacingNext == TypeInv /\ SpacingInv /\ [Next]_vars => SpacingInv'
<1> SUFFICES ASSUME TypeInv, SpacingInv, [Next]_vars, MaxLag <= ReservationTtl PROVE SpacingInv'
  BY DEF SpacingInv
<1>0. /\ now \in Nat /\ next \in Key
      /\ \A a \in admitted : a.at \in Nat /\ a.delay \in Nat /\ Gap(a) \in Nat
  BY GapBound DEF TypeInv, TypeOK
<1>1. ASSUME NEW w \in Worker, Admits(w), UNCHANGED now PROVE SpacingInv'
  <2>0. PICK n : n = Admitted(w)
    OBVIOUS
  <2>1. n.at = worker[w].at /\ n.delay = worker[w].delay /\ admitted' = admitted \cup {n}
    BY <1>1, <2>0 DEF Admits, Admitted
  <2>2. n.at \in Nat /\ n.delay \in Nat /\ n.at <= now
    BY <2>1 DEF TypeInv, TypeOK, Local, WorkerInv
  <2>3. Gap(n) \in Nat /\ Gap(n) <= n.delay
    BY <2>2, GapBound
  <2>4. next'.value = n.at + n.delay /\ next'.until = now + ReservationTtl
    BY <1>1, <2>1 DEF Admits
  <2>5. \A a \in admitted : a.kept => a.at + Gap(a) <= n.at
    BY <1>1, <2>1, LateEnough
  <2>6. \A a \in admitted' : a.kept => a.at <= now'
    BY <1>1, <2>1, <2>2 DEF SpacingInv
  <2>7. \A a \in admitted' : a.kept => a.at + Gap(a) <= next'.value
    BY <1>0, <2>1, <2>2, <2>3, <2>4, <2>5
  <2>8. \A a \in admitted' : a.kept => a.at + ReservationTtl <= next'.until
    BY <1>0, <1>1, <2>1, <2>2, <2>4, <2>6
  <2>9. next'.until > now'
    BY <1>0, <1>1, <2>4
  <2>10. \A a \in admitted' : a.kept => Covered(a)'
    BY <2>7, <2>8, <2>9 DEF Covered, Exists, Gap, KeyLife
  <2>11. Spaced'
    BY <2>1, <2>5 DEF SpacingInv, Spaced, Gap, KeyLife
  <2> QED
    BY <2>6, <2>10, <2>11 DEF SpacingInv
<1>2. ASSUME NEW w \in Worker, seed(w), UNCHANGED now PROVE SpacingInv'
  <2>1. admitted' = admitted
    BY <1>2 DEF seed
  <2>2. Exists(next) => next' = next
    BY <1>2 DEF seed, SeedKey
  <2>3. \A a \in admitted : a.kept => Covered(a)'
    BY <1>2, <2>1, <2>2 DEF SpacingInv, Covered, Exists, Gap, KeyLife
  <2>4. Spaced'
    BY <2>1 DEF SpacingInv, Spaced, Gap, KeyLife
  <2> QED
    BY <1>2, <2>1, <2>3, <2>4 DEF SpacingInv
<1>3. ASSUME UNCHANGED <<count, next, admitted>>, now' \in {now, now + 1} PROVE SpacingInv'
  <2>1. \A a \in admitted : a.kept => a.at <= now' /\ Covered(a)'
    BY <1>0, <1>3 DEF SpacingInv, Covered, Exists, Key, Gap, KeyLife
  <2>2. Spaced'
    BY <1>3 DEF SpacingInv, Spaced, Gap, KeyLife
  <2> QED
    BY <1>3, <2>1, <2>2 DEF SpacingInv
<1>4. CASE Loses
  BY <1>4 DEF Loses, SpacingInv, Spaced
<1> QED
  BY <1>1, <1>2, <1>3, <1>4, KeyStep

\* Nothing is admitted yet.
LEMMA SpacingInit == Init => SpacingInv
  BY DEF Init, SpacingInv, Spaced

\* Two admissions since Redis last lost its data are apart by the earlier one's
\* delay, or by what the life of its key leaves of it, whatever delays, losses,
\* workers, late calls, retries, restarts with seeding and policy changes occur.
THEOREM SpacedCorrect == Spec => []Spaced
<1>1. TypeInv /\ SpacingInv => Spaced
  <2> SUFFICES ASSUME TypeInv, SpacingInv, ~(MaxLag <= ReservationTtl) PROVE Spaced
    BY DEF SpacingInv
  <2>1. \A a \in admitted : a.at \in Nat /\ Gap(a) = 0
    BY DEF TypeInv, TypeOK, Gap, KeyLife
  <2> QED
    BY <2>1 DEF Spaced
<1> QED
  BY <1>1, SpacingInit, SpacingNext, TypeCorrect, PTL DEF Spec

-----------------------------------------------------------------------------
(***************************************************************************)
(* Quota.  The counter of an hour counts its reservations until the key    *)
(* expires, and by then no worker asks with a clock reading of that hour.  *)
(***************************************************************************)
Closing(h) == (h + 1) * HourLength + MaxLag

Kept(h) == KeptIn(admitted, h)

Counted(h) ==
    \/ Kept(h) = {}
    \/ /\ Exists(count[h])
       /\ Cardinality(Kept(h)) <= count[h].value
       /\ Closing(h) <= count[h].until
    \/ Closing(h) <= now

QuotaInv == \A h \in Hours : IsFiniteSet(Kept(h)) /\ Counted(h)

\* A worker asks in an hour that is not closed.
LEMMA AskingHour ==
    ASSUME TypeInv, NEW w \in Worker, worker[w].pc \in Asking
    PROVE  /\ Hour(worker[w].at) \in Hours
           /\ now < Closing(Hour(worker[w].at))
<1>1. /\ worker[w].at \in Nat /\ now \in Nat /\ worker[w].at <= now /\ now <= MaxTime
      /\ now <= worker[w].at + MaxLag
  BY DEF TypeInv, TypeOK, Local, WorkerInv
<1>2. Hour(worker[w].at) \in Nat /\ worker[w].at < hourEnd(worker[w].at)
  BY <1>1, HourWindow
<1>3. Hour(worker[w].at) <= Hour(MaxTime) /\ Hour(MaxTime) \in Nat
  BY <1>1, HourOrder, HourWindow
<1>4. now < hourEnd(worker[w].at) + MaxLag
  BY <1>1, <1>2, HourWindow
<1> QED
  BY <1>2, <1>3, <1>4 DEF Hours, Closing, hourEnd

\* A reservation more, under a counter that was below the limit.
LEMMA OneMore ==
    ASSUME TypeInv, QuotaInv, MaxLag <= ReservationTtl, NEW w \in Worker, Admits(w), UNCHANGED now,
           NEW h \in Hours, h = Hour(worker[w].at), ~HasReservation(worker[w].email)
    PROVE  /\ Kept(h)' = Kept(h) \cup {Admitted(w)}
           /\ IsFiniteSet(Kept(h)')
           /\ Cardinality(Kept(h)') <= worker[w].limit
           /\ Cardinality(Kept(h)') <= count'[h].value
           /\ now < count'[h].until
           /\ Closing(h) <= count'[h].until
<1>1. /\ now < Closing(h)
      /\ worker[w].at \in Nat /\ worker[w].limit \in Nat /\ now \in Nat /\ worker[w].at <= now
  BY AskingHour DEF Admits, Asking, TypeInv, TypeOK, Local, WorkerInv
<1>2. count \in [Hours -> Key] /\ count[h] \in Key
  BY DEF TypeInv, TypeOK
<1>3. /\ count'[h].value = Value(count[h]) + 1
      /\ count'[h].until = hourEnd(worker[w].at) + ReservationTtl
  BY <1>2 DEF Admits
<1>4. Value(count[h]) \in Nat /\ Value(count[h]) < worker[w].limit
  BY <1>1, <1>2 DEF Admits, Full, Value, Key
<1>5. PICK n : n = Admitted(w)
  OBVIOUS
<1>6. n.fresh /\ n.at = worker[w].at /\ admitted' = admitted \cup {n}
  BY <1>5 DEF Admits, Admitted
<1>7. Kept(h)' = Kept(h) \cup {n}
  BY <1>5, <1>6 DEF Kept, KeptIn, Hour, Admitted
<1>8. IsFiniteSet(Kept(h)) /\ Cardinality(Kept(h)) \in Nat /\ Counted(h)
  BY FS_CardinalityType DEF QuotaInv
<1>9. IsFiniteSet(Kept(h)') /\ Cardinality(Kept(h)') <= Cardinality(Kept(h)) + 1
  <2>1. PICK S : S = Kept(h)
    OBVIOUS
  <2>2. /\ IsFiniteSet(S \cup {n})
        /\ Cardinality(S \cup {n}) = IF n \in S THEN Cardinality(S) ELSE Cardinality(S) + 1
    BY <1>8, <2>1, FS_AddElement
  <2>3. Kept(h)' = S \cup {n}
    BY <1>7, <2>1
  <2> QED
    BY <1>8, <2>1, <2>2, <2>3
<1>10. Cardinality(Kept(h)) <= Value(count[h])
  <2>1. CASE Kept(h) = {}
    <3>1. Cardinality(Kept(h)) = 0
      BY <2>1, FS_EmptySet
    <3> QED
      BY <1>4, <3>1
  <2>2. CASE Kept(h) # {}
    <3>1. Closing(h) \in Nat
      BY DEF Hours, Closing
    <3>2. ~(Closing(h) <= now)
      BY <1>1, <3>1
    <3> QED
      BY <1>8, <2>2, <3>2 DEF Counted, Value
  <2> QED
    BY <2>1, <2>2
<1>11. Cardinality(Kept(h)') \in Nat
  BY <1>9, FS_CardinalityType
<1>12. hourEnd(worker[w].at) \in Nat /\ worker[w].at < hourEnd(worker[w].at)
       /\ Closing(h) = hourEnd(worker[w].at) + MaxLag
  BY <1>1, HourWindow DEF Closing, hourEnd
<1>13. Closing(h) <= count'[h].until
  BY <1>3, <1>12
<1>14. now < count'[h].until
  BY <1>1, <1>3, <1>12
<1>15. Cardinality(Kept(h)') <= worker[w].limit /\ Cardinality(Kept(h)') <= count'[h].value
  BY <1>1, <1>3, <1>4, <1>8, <1>9, <1>10, <1>11
<1> QED
  BY <1>5, <1>7, <1>9, <1>13, <1>14, <1>15

\* Every hour stays counted, and every new reservation within its limit.
LEMMA QuotaNext ==
    ASSUME MaxLag <= ReservationTtl
    PROVE  TypeInv /\ QuotaInv /\ [Next]_vars =>
             QuotaInv' /\ \A a \in admitted' \ admitted : WithinLimit(a)
<1> SUFFICES ASSUME TypeInv, QuotaInv, [Next]_vars
             PROVE  QuotaInv' /\ \A a \in admitted' \ admitted : WithinLimit(a)
  OBVIOUS
<1> DEFINE CountedFine(h) == IsFiniteSet(Kept(h))' /\ Counted(h)'
<1>0. ASSUME NEW h \in Hours
      PROVE  /\ IsFiniteSet(Kept(h)) /\ Counted(h) /\ now \in Nat /\ h \in Nat
             /\ count \in [Hours -> Key] /\ Closing(h) \in Nat
  <2>1. h \in Nat
    BY DEF Hours
  <2>2. Closing(h) \in Nat
    BY <2>1 DEF Closing
  <2> QED
    BY <2>1, <2>2 DEF QuotaInv, TypeInv, TypeOK
<1>1. ASSUME NEW h \in Hours, Kept(h)' = Kept(h), Exists(count[h]) => count'[h] = count[h],
             now' \in {now, now + 1}
      PROVE  CountedFine(h)
  <2>1. Counted(h)'
    BY <1>0, <1>1 DEF Counted, Exists, Key, Closing
  <2> QED
    BY <1>0, <1>1, <2>1
<1>2. ASSUME NEW w \in Worker, Admits(w), UNCHANGED now
      PROVE  (\A h \in Hours : CountedFine(h)) /\ \A a \in admitted' \ admitted : WithinLimit(a)
  <2>0. PICK g \in Hours : g = Hour(worker[w].at)
    BY <1>2, AskingHour DEF Admits, Asking
  <2>1. PICK n : n = Admitted(w)
    OBVIOUS
  <2>2. /\ n.at = worker[w].at /\ n.limit = worker[w].limit
        /\ n.fresh <=> ~HasReservation(worker[w].email)
        /\ admitted' = admitted \cup {n}
    BY <1>2, <2>1 DEF Admits, Admitted
  <2>3. ASSUME NEW h \in Hours, n.fresh, h = g PROVE CountedFine(h)
    <3>1. /\ IsFiniteSet(Kept(h)')
          /\ Cardinality(Kept(h)') <= count'[h].value
          /\ now < count'[h].until /\ Closing(h) <= count'[h].until
      BY <1>2, <2>0, <2>2, <2>3, OneMore
    <3>2. Counted(h)'
      BY <1>2, <3>1 DEF Counted, Closing, Exists
    <3> QED
      BY <3>1, <3>2
  <2>4. ASSUME NEW h \in Hours, ~(n.fresh /\ h = g) PROVE CountedFine(h)
    <3>1. Kept(h)' = Kept(h)
      BY <2>0, <2>2, <2>4 DEF Kept, KeptIn, Hour
    <3>2. count'[h] = count[h]
      BY <1>0, <1>2, <2>0, <2>2, <2>4 DEF Admits
    <3> QED
      BY <1>1, <1>2, <3>1, <3>2
  <2>5. n.fresh => Cardinality(Kept(g)') <= n.limit
    BY <1>2, <2>0, <2>2, OneMore
  <2>6. ASSUME NEW a \in admitted' \ admitted PROVE WithinLimit(a)
    <3>1. a = n
      BY <2>2, <2>6
    <3>2. Hour(a.at) = g /\ Kept(g)' = KeptIn(admitted', g)
      BY <2>0, <2>2, <3>1 DEF Kept, KeptIn, Hour
    <3> QED
      BY <2>5, <3>1, <3>2 DEF WithinLimit
  <2> QED
    BY <2>3, <2>4, <2>6
<1>3. ASSUME NEW w \in Worker, seed(w), UNCHANGED now, NEW h \in Hours
      PROVE  CountedFine(h)
  <2>1. Kept(h)' = Kept(h)
    BY <1>3 DEF seed, Kept, KeptIn, Hour
  <2>2. Exists(count[h]) => count'[h] = count[h]
    BY <1>0, <1>3 DEF seed, SeedKey
  <2> QED
    BY <1>1, <1>3, <2>1, <2>2
<1>4. ASSUME UNCHANGED <<count, next, admitted>>, now' \in {now, now + 1}, NEW h \in Hours
      PROVE  CountedFine(h)
  <2>1. Kept(h)' = Kept(h)
    BY <1>4 DEF Kept, KeptIn, Hour
  <2> QED
    BY <1>1, <1>4, <2>1
<1>5. ASSUME Loses, NEW h \in Hours PROVE CountedFine(h)
  <2>1. Kept(h)' = {}
    BY <1>5 DEF Loses, Kept, KeptIn
  <2> QED
    BY <2>1, FS_EmptySet DEF Counted
<1>6. CASE \E w \in Worker : seed(w) /\ UNCHANGED now
  BY <1>3, <1>6 DEF QuotaInv, seed, Hours, Hour
<1>7. CASE Loses
  BY <1>5, <1>7 DEF QuotaInv, Loses, WithinLimit, Hours, Hour
<1>8. CASE UNCHANGED <<count, next, admitted>> /\ now' \in {now, now + 1}
  BY <1>4, <1>8 DEF QuotaInv, Hours, Hour
<1>9. CASE \E w \in Worker : Admits(w) /\ UNCHANGED now
  BY <1>2, <1>9 DEF QuotaInv, Hours, Hour
<1> QED
  BY <1>6, <1>7, <1>8, <1>9, KeyStep

\* No hour has a reservation yet.
LEMMA QuotaInit == Init => QuotaInv
<1> SUFFICES ASSUME Init, NEW h \in Hours PROVE Kept(h) = {}
  BY FS_EmptySet DEF QuotaInv, Counted
<1> QED
  BY DEF Init, Kept, KeptIn

\* If no call is later than a key lives, every new reservation leaves the hour's
\* reservations within the limit it was asked under, counted from the last loss
\* of Redis, for any losses, any number of workers, any policies and restarts.
THEOREM QuotaCorrect ==
    ASSUME MaxLag <= ReservationTtl
    PROVE  Spec => QuotaKept
<1>1. TypeInv /\ QuotaInv /\ [Next]_vars => [\A a \in admitted' \ admitted : WithinLimit(a)]_vars
  BY QuotaNext
<1>2. TypeInv /\ QuotaInv /\ [Next]_vars => QuotaInv'
  BY QuotaNext
<1> QED
  BY <1>1, <1>2, QuotaInit, TypeCorrect, PTL DEF Spec, QuotaKept

-----------------------------------------------------------------------------
(***************************************************************************)
(* Reservations.  The key of an email outlives every new reservation that  *)
(* was given to it by the reservation's life.                              *)
(***************************************************************************)
ReservedInv ==
    /\ ReservedOnce
    /\ \A a \in admitted : a.kept /\ a.fresh =>
         a.given <= now /\ a.given + ReservationTtl <= reserved[a.email]

\* A reservation and the admission that made it come about together, and neither
\* changes otherwise, or both are lost.
LEMMA ReservationStep ==
    ASSUME TypeInv, [Next]_vars
    PROVE  \/ \E w \in Worker :
                /\ Admits(w) /\ UNCHANGED now
                /\ reserved' = IF HasReservation(worker[w].email) THEN reserved
                               ELSE [reserved EXCEPT ![worker[w].email] = now + ReservationTtl]
           \/ Loses
           \/ UNCHANGED <<reserved, admitted>> /\ now' \in {now, now + 1}
<1>1. ASSUME NEW w \in Worker, reserve(w)
      PROVE  \/ /\ Admits(w) /\ UNCHANGED now
                /\ reserved' = IF HasReservation(worker[w].email) THEN reserved
                               ELSE [reserved EXCEPT ![worker[w].email] = now + ReservationTtl]
             \/ UNCHANGED <<reserved, admitted>> /\ now' \in {now, now + 1}
  <2>1. CASE ~Full(worker[w]) /\ ~TooSoon(worker[w])
    <3>1. Admits(w)
      BY <1>1, <2>1, ReserveStep
    <3>2. reserved' = IF HasReservation(worker[w].email) THEN reserved
                      ELSE [reserved EXCEPT ![worker[w].email] = now + ReservationTtl]
      BY <1>1, <2>1 DEF reserve
    <3> QED
      BY <1>1, <3>1, <3>2, ReserveStep
  <2>2. CASE Full(worker[w]) \/ TooSoon(worker[w])
    BY <1>1, <2>2 DEF reserve, Refuse
  <2> QED
    BY <2>1, <2>2
<1>2. ASSUME NEW w \in Worker, CountAccepted(w) \/ seed(w) \/ Defer(w) \/ Claim(w) \/ Settle(w) \/ Crash(w)
      PROVE  UNCHANGED <<reserved, admitted, now>>
  BY <1>2 DEF CountAccepted, seed, Defer, Claim, Settle, Crash
<1>3. ASSUME NEW w \in Worker, NEW e \in Email, Load(w, e) PROVE UNCHANGED <<reserved, admitted, now>>
  BY <1>3 DEF Load
<1>4. ASSUME NEW p \in Policy, SetPolicy(p) PROVE UNCHANGED <<reserved, admitted, now>>
  BY <1>4 DEF SetPolicy
<1>5. CASE Tick
  BY <1>5 DEF Tick
<1>6. CASE UNCHANGED vars
  BY <1>6 DEF vars
<1>7. CASE Flush \/ Outage
  BY <1>7, LossStep DEF Loses
<1> QED
  BY <1>1, <1>2, <1>3, <1>4, <1>5, <1>6, <1>7 DEF Next

\* A new reservation is given when every earlier one of the email has expired.
LEMMA ReservedNext == TypeInv /\ ReservedInv /\ [Next]_vars => ReservedInv'
<1> SUFFICES ASSUME TypeInv, ReservedInv, [Next]_vars PROVE ReservedInv'
  OBVIOUS
<1>0. /\ now \in Nat /\ reserved \in [Email -> Nat]
      /\ \A a \in admitted : a.given \in Nat /\ a.email \in Email
  BY DEF TypeInv, TypeOK
<1>1. ASSUME NEW w \in Worker, Admits(w), UNCHANGED now,
             reserved' = IF HasReservation(worker[w].email) THEN reserved
                         ELSE [reserved EXCEPT ![worker[w].email] = now + ReservationTtl]
      PROVE  ReservedInv'
  <2>1. PICK n : n = Admitted(w)
    OBVIOUS
  <2>2. /\ n.email = worker[w].email /\ n.given = now
        /\ n.fresh <=> ~HasReservation(n.email)
        /\ admitted' = admitted \cup {n}
    BY <1>1, <2>1 DEF Admitted, Admits
  <2>3. n.email \in Email
    BY <1>1, <2>2 DEF TypeInv, WorkerInv, Admits, Busy
  <2>4. \A e \in Email : reserved[e] <= reserved'[e]
    BY <1>0, <1>1, <2>2, <2>3 DEF HasReservation
  <2>5. \A a \in admitted' : a.kept /\ a.fresh => a.given <= now' /\ a.given + ReservationTtl <= reserved'[a.email]
    <3>1. \A a \in admitted : a.kept /\ a.fresh => a.given <= now' /\ a.given + ReservationTtl <= reserved'[a.email]
      BY <1>0, <1>1, <2>4 DEF ReservedInv
    <3>2. n.fresh => n.given <= now' /\ n.given + ReservationTtl <= reserved'[n.email]
      BY <1>0, <1>1, <2>2, <2>3
    <3> QED
      BY <2>2, <3>1, <3>2
  <2>6. ASSUME NEW a \in admitted, a.kept, a.fresh, n.fresh, a.email = n.email
        PROVE  a.given + ReservationTtl <= n.given
    BY <1>0, <2>2, <2>3, <2>6 DEF ReservedInv, HasReservation
  <2>7. ReservedOnce'
    BY <2>2, <2>6 DEF ReservedInv, ReservedOnce
  <2> QED
    BY <2>5, <2>7 DEF ReservedInv
<1>2. ASSUME UNCHANGED <<reserved, admitted>>, now' \in {now, now + 1} PROVE ReservedInv'
  BY <1>0, <1>2 DEF ReservedInv, ReservedOnce
<1>3. CASE Loses
  BY <1>3 DEF Loses, ReservedInv, ReservedOnce
<1> QED
  BY <1>1, <1>2, <1>3, ReservationStep

\* An email gets no second reservation while its first one lives and Redis keeps
\* it, however often it is retried or redelivered and to which worker.
THEOREM ReservedCorrect == Spec => []ReservedOnce
<1>1. Init => ReservedInv
  BY DEF Init, ReservedInv, ReservedOnce
<1>2. ReservedInv => ReservedOnce
  BY DEF ReservedInv
<1> QED
  BY <1>1, <1>2, ReservedNext, TypeCorrect, PTL DEF Spec
=============================================================================

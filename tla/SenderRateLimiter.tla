-------------------------- MODULE SenderRateLimiter --------------------------
(***************************************************************************)
(* The Redis admission gate of one sender: the Lua scripts of              *)
(* rate-limit/sender-rate-limiter.ts with the expiry of their keys, the    *)
(* workers that call them with a clock reading and a policy taken earlier, *)
(* the seeding of worker/rate-seed.ts, and changes of the sender's policy. *)
(* The claim and its outcome (EmailProcessor) are reduced to what the gate *)
(* depends on.  Time 0 is long before any run, as the epoch is.            *)
(***************************************************************************)
EXTENDS Naturals, FiniteSets

CONSTANTS
    Email, Worker, NoEmail,
    HourLength,         \* hourMilliseconds
    ReservationTtl,     \* RATE_LIMIT_RESERVATION_TTL_MS, at least an hour
    Policy, PolicyChange, \* the sender's policies, and which may follow which
    Backoff,            \* SMTP_BACKOFF_MS
    MaxLag,             \* bound: from a worker's clock reading to its script call
    MaxTime,            \* model bound on the clock
    Faults              \* subset of {"crash", "flush", "outage"}

ASSUME PolicyAssumption ==
    /\ Policy \subseteq [limit : Nat \ {0}, delay : Nat, active : BOOLEAN]
    /\ PolicyChange \subseteq Policy \X Policy
ASSUME TimeAssumption ==
    /\ HourLength \in Nat \ {0} /\ ReservationTtl \in Nat /\ Backoff \in Nat \ {0}
    /\ MaxLag \in Nat /\ MaxTime \in Nat /\ MaxTime >= HourLength
    /\ ReservationTtl >= HourLength
ASSUME EmailAssumption == IsFiniteSet(Email) /\ NoEmail \notin Email

VARIABLES
    now,        \* the clock, the same for workers and Redis
    policy,     \* the sender's row in email_senders, with its isActive
    count,      \* Redis: the hourly counters, per hour window
    next,       \* Redis: the time from which the next send may start
    reserved,   \* Redis: per email, when its reservation expires
    row,        \* scheduled_emails of the sender
    worker,     \* local state of each worker
    admitted    \* ghost: the admissions the script granted since Redis last lost
                \* its data under a worker, and whether it has kept them since

vars == <<now, policy, count, next, reserved, row, worker, admitted>>

Hour(t) == t \div HourLength
hourEnd(t) == (Hour(t) + 1) * HourLength
Hours == 0..Hour(MaxTime)

Key == [value : Nat, until : Nat]
Local == [ pc : {"stopped", "seed", "idle", "reserve", "defer", "claim", "send"},
           email : Email \cup {NoEmail}, at : Nat, limit : Nat, delay : Nat,
           retryAt : Nat, sent : Nat, last : Nat ]

TypeOK ==
    /\ now \in Nat
    /\ policy \in Policy
    /\ count \in [Hours -> Key]
    /\ next \in Key
    /\ reserved \in [Email -> Nat]
    /\ row \in [Email -> [status : {"claimable", "PROCESSING", "SENT", "over"}, due : Nat,
                          processingStartedAt : Nat, sentAt : Nat, accepted : BOOLEAN]]
    /\ worker \in [Worker -> Local]
    /\ admitted \subseteq [email : Email, at : Nat, given : Nat, limit : Nat, delay : Nat,
                         fresh : BOOLEAN, kept : BOOLEAN]

\* Redis drops a key when its PX or PEXPIREAT time has come.
Exists(key) == key.until > now
Value(key) == IF Exists(key) THEN key.value ELSE 0
NoKey == [value |-> 0, until |-> 0]
FreshLocal(pc) == [ pc |-> pc, email |-> NoEmail, at |-> 0, limit |-> 0, delay |-> 0,
                    retryAt |-> 0, sent |-> 0, last |-> 0 ]

Init ==
    /\ now = HourLength
    /\ policy \in Policy
    /\ count = [h \in Hours |-> NoKey]
    /\ next = NoKey
    /\ reserved = [e \in Email |-> 0]
    /\ row = [e \in Email |-> [status |-> "claimable", due |-> HourLength,
                               processingStartedAt |-> 0, sentAt |-> 0, accepted |-> FALSE]]
    /\ worker = [w \in Worker |-> FreshLocal("stopped")]
    /\ admitted = {}

-----------------------------------------------------------------------------
(* Worker startup: seedSenderRateLimits, for this sender *)

\* Mutants: what was sent at the very instant is missed; no accepted email
\* leaves null in the place of 0.
SentBefore(from, to) == {e \in Email : row[e].status = "SENT" /\ from <= row[e].sentAt /\ row[e].sentAt < to}
LatestOrNull(S) ==
    IF S = {} THEN {NoEmail}
    ELSE {t \in {row[e].sentAt : e \in S} : \A e \in S : row[e].sentAt <= t}

SentIn(from, to) == {e \in Email : row[e].status = "SENT" /\ row[e].sentAt \in from..to}
\* The set that holds the maximum, 0 if nothing was sent.
Latest(S) == {t \in {row[e].sentAt : e \in S} \cup {0} : \A e \in S : row[e].sentAt <= t}

\* findMany of the active senders, and the aggregate over the accepted emails of
\* the current hour.  The worker starts on a deactivated sender's emails unseeded.
CountAccepted(w) ==
    /\ worker[w].pc = "stopped"
    /\ \/ /\ policy.active
          /\ LET S == SentIn(Hour(now) * HourLength, now) IN
               \E last \in Latest(S) :
                  worker' = [worker EXCEPT ![w] = [FreshLocal("seed") EXCEPT
                               !.at = now, !.delay = policy.delay, !.sent = Cardinality(S), !.last = last]]
       \/ /\ ~policy.active
          /\ worker' = [worker EXCEPT ![w] = FreshLocal("idle")]
    /\ UNCHANGED <<now, policy, count, next, reserved, row, admitted>>

\* Mutant: a key that running workers have set is set again.
SeedKeyAlways(key, value, until) == [value |-> value, until |-> until]

\* seedScript: only keys that are missing are set.
SeedKey(key, value, until) == IF Exists(key) THEN key ELSE [value |-> value, until |-> until]

seed(w) ==
    /\ worker[w].pc = "seed"
    /\ LET l == worker[w]
           until == now + (hourEnd(l.at) - l.at) + ReservationTtl IN
         /\ count' = [count EXCEPT ![Hour(l.at)] = SeedKey(count[Hour(l.at)], l.sent, until)]
         /\ next' = IF l.last = 0 THEN next ELSE SeedKey(next, l.last + l.delay, until)
    /\ worker' = [worker EXCEPT ![w] = FreshLocal("idle")]
    /\ UNCHANGED <<now, policy, reserved, row, admitted>>

-----------------------------------------------------------------------------
(* The handler around the gate *)

\* The row and the sender's policy are read, then the clock; a deactivated
\* sender's emails are sent like any other's.
Load(w, e) ==
    /\ worker[w].pc = "idle"
    /\ row[e].status = "claimable" /\ row[e].due <= now
    /\ worker' = [worker EXCEPT ![w] = [FreshLocal("reserve") EXCEPT
                    !.email = e, !.at = now, !.limit = policy.limit, !.delay = policy.delay]]
    /\ UNCHANGED <<now, policy, count, next, reserved, row, admitted>>

\* Mutant: the reservation is keyed by something a retry does not repeat.
ReservationForgotten(e) == e \notin Email

HasReservation(e) == reserved[e] > now

\* reserveScript, which Redis runs as one step: the quota, then the spacing.
Refuse(w, retryAt) ==
    /\ worker' = [worker EXCEPT ![w] = [@ EXCEPT !.pc = "defer", !.retryAt = retryAt]]
    /\ UNCHANGED <<count, next, reserved, admitted>>

\* Mutants: one more than the limit; a reservation exempts from the spacing.
FullLate(l) == ~HasReservation(l.email) /\ Value(count[Hour(l.at)]) > l.limit
TooSoonUnreserved(l) == ~HasReservation(l.email) /\ Value(next) > l.at

Full(l) == ~HasReservation(l.email) /\ Value(count[Hour(l.at)]) >= l.limit
TooSoon(l) == Value(next) > l.at

reserve(w) ==
    /\ worker[w].pc = "reserve"
    /\ LET l == worker[w]
           fresh == ~HasReservation(l.email) IN
         \/ /\ Full(l)
            /\ Refuse(w, IF Value(next) > hourEnd(l.at) THEN Value(next) ELSE hourEnd(l.at))
         \/ ~Full(l) /\ TooSoon(l) /\ Refuse(w, Value(next))
         \/ /\ ~Full(l) /\ ~TooSoon(l)
            /\ reserved' = IF fresh THEN [reserved EXCEPT ![l.email] = now + ReservationTtl] ELSE reserved
            /\ count' = IF fresh
                        THEN [count EXCEPT ![Hour(l.at)] =
                                [value |-> Value(@) + 1, until |-> hourEnd(l.at) + ReservationTtl]]
                        ELSE count
            /\ next' = [value |-> l.at + l.delay, until |-> now + ReservationTtl]
            /\ admitted' = admitted \cup {[email |-> l.email, at |-> l.at, given |-> now,
                                           limit |-> l.limit, delay |-> l.delay,
                                           fresh |-> fresh, kept |-> TRUE]}
            /\ worker' = [worker EXCEPT ![w] = [l EXCEPT !.pc = "claim"]]
    /\ UNCHANGED <<now, policy, row>>

\* recordRateLimit and moveToDelayed.
Defer(w) ==
    /\ worker[w].pc = "defer"
    /\ LET e == worker[w].email IN
         row' = IF row[e].status = "claimable"
                THEN [row EXCEPT ![e] = [@ EXCEPT !.due = worker[w].retryAt]] ELSE row
    /\ worker' = [worker EXCEPT ![w] = FreshLocal("idle")]
    /\ UNCHANGED <<now, policy, count, next, reserved, admitted>>

\* claimEmail.
Claim(w) ==
    /\ worker[w].pc = "claim"
    /\ LET e == worker[w].email IN
         IF row[e].status = "claimable"
         THEN /\ row' = [row EXCEPT ![e] = [@ EXCEPT !.status = "PROCESSING",
                                                 !.processingStartedAt = worker[w].at]]
              /\ worker' = [worker EXCEPT ![w] = [@ EXCEPT !.pc = "send"]]
         ELSE /\ worker' = [worker EXCEPT ![w] = FreshLocal("idle")]
              /\ UNCHANGED row
    /\ UNCHANGED <<now, policy, count, next, reserved, admitted>>

\* The send and its recorded outcome; the SMTP server may have accepted an
\* email whose delivery ends up unknown.  The time of the claim, which the code
\* clears, stays as a ghost of a row that is not claimed again.
Settle(w) ==
    /\ worker[w].pc = "send"
    /\ \E r \in { [row[worker[w].email] EXCEPT !.status = "SENT", !.due = now, !.sentAt = now, !.accepted = TRUE],
                  [row[worker[w].email] EXCEPT !.status = "claimable", !.due = now + Backoff,
                                               !.processingStartedAt = 0],
                  [row[worker[w].email] EXCEPT !.status = "over", !.due = now, !.accepted = TRUE] } :
         row' = [row EXCEPT ![worker[w].email] = r]
    /\ worker' = [worker EXCEPT ![w] = FreshLocal("idle")]
    /\ UNCHANGED <<now, policy, count, next, reserved, admitted>>

-----------------------------------------------------------------------------
(* The surroundings *)

\* PATCH /senders, or a new batch of this sender.
SetPolicy(p) ==
    /\ <<policy, p>> \in PolicyChange
    /\ policy' = p
    /\ UNCHANGED <<now, count, next, reserved, row, worker, admitted>>

Crash(w) ==
    /\ "crash" \in Faults
    /\ worker[w].pc # "stopped"
    /\ worker' = [worker EXCEPT ![w] = FreshLocal("stopped")]
    /\ UNCHANGED <<now, policy, count, next, reserved, row, admitted>>

LoseKeys ==
    /\ count' = [h \in Hours |-> NoKey]
    /\ next' = NoKey
    /\ reserved' = [e \in Email |-> 0]

\* Redis comes back empty.  The clients reconnect (maxRetriesPerRequest: null), so
\* the workers go on: sends in flight are recorded, and nothing is seeded again.
\* The ghost starts anew, as the keys do.
Flush ==
    /\ "flush" \in Faults
    /\ LoseKeys
    /\ admitted' = {}
    /\ UNCHANGED <<now, policy, row, worker>>

\* Redis loses its data while no worker runs, as when the whole host goes down.
Outage ==
    /\ "outage" \in Faults
    /\ \A w \in Worker : worker[w].pc = "stopped"
    /\ LoseKeys
    /\ admitted' = {[a EXCEPT !.kept = FALSE] : a \in admitted}
    /\ UNCHANGED <<now, policy, row, worker>>

\* Bound: no script call is later than MaxLag after the clock reading it uses.
Tick ==
    /\ now < MaxTime
    /\ \A w \in Worker : worker[w].pc \in {"seed", "reserve"} => now < worker[w].at + MaxLag
    /\ now' = now + 1
    /\ UNCHANGED <<policy, count, next, reserved, row, worker, admitted>>

Next ==
    \/ \E w \in Worker : \/ CountAccepted(w)
                         \/ seed(w)
                         \/ \E e \in Email : Load(w, e)
                         \/ reserve(w)
                         \/ Defer(w)
                         \/ Claim(w)
                         \/ Settle(w)
                         \/ Crash(w)
    \/ \E p \in Policy : SetPolicy(p)
    \/ Flush
    \/ Outage
    \/ Tick

Spec == Init /\ [][Next]_vars

-----------------------------------------------------------------------------
(* Properties *)

\* The spacing that the life of the key "next" lets a delay have: a call that
\* comes MaxLag after its clock reading still finds the key of an admission
\* ReservationTtl - MaxLag before that reading.
KeyLife == IF MaxLag <= ReservationTtl THEN ReservationTtl - MaxLag ELSE 0
Gap(a) == IF a.delay <= KeyLife THEN a.delay ELSE KeyLife

\* Two admissions of the sender since Redis last lost its data are apart by the
\* delay of the earlier one, or by the life of its key when the delay is longer
\* (config/env.ts lets it be), also with several workers, late clock readings,
\* retries, restarts with seeding and policy changes.
Spaced ==
    \A a, b \in {c \in admitted : c.kept} :
        a # b => a.at + Gap(a) <= b.at \/ b.at + Gap(b) <= a.at

FreshIn(h) == {a \in admitted : a.fresh /\ Hour(a.at) = h}
KeptIn(S, h) == {a \in S : a.fresh /\ a.kept /\ Hour(a.at) = h}

WithinLimit(a) ==
    a.fresh /\ a.kept => Cardinality(KeptIn(admitted', Hour(a.at))) <= a.limit

\* Whenever the script gives a new reservation, the reservations of that hour,
\* this one included, are within the limit the asking worker read: whatever
\* policies the earlier ones were given under, and counting from the last time
\* Redis lost its data, be it under running workers.
QuotaKept == [][\A a \in admitted' \ admitted : WithinLimit(a)]_vars

\* A retried or redelivered email consumes no second reservation while its first
\* one lives and Redis keeps it: the lives of its reservations do not overlap.
ReservedOnce ==
    \A a, b \in {c \in admitted : c.kept /\ c.fresh} :
        a # b /\ a.email = b.email =>
            a.given + ReservationTtl <= b.given \/ b.given + ReservationTtl <= a.given

\* The emails recorded SENT whose attempt began with a new reservation of the hour.
RecordedIn(h) ==
    { e \in Email : /\ row[e].status = "SENT"
                   /\ \E a \in FreshIn(h) : a.email = e /\ a.at = row[e].processingStartedAt }

\* Meant for a sender that stays active: when Redis loses its data while no worker
\* runs, the seeding from the SENT rows keeps the emails recorded SENT, under a new
\* reservation of that hour, within the largest limit in force.  A loss under a
\* running worker starts the count anew, for nothing is seeded then.
RecordedWithin == \A h \in Hours : \E p \in Policy : Cardinality(RecordedIn(h)) <= p.limit

\* Meant for the sender's policy: what the SMTP server accepts under admissions
\* of one hour stays within the largest limit that was in force.
AcceptedWithin ==
    \A h \in Hours : \E p \in Policy :
        Cardinality({ e \in Email : row[e].accepted /\ Hour(row[e].processingStartedAt) = h }) <= p.limit
=============================================================================

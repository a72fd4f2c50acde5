--------------------------- MODULE SenderDefaults ---------------------------
(***************************************************************************)
(* The senders of one user: POST and PATCH /senders of email/router.ts and *)
(* the upserts of auth/google-user.ts, as transactions that interleave at  *)
(* PostgreSQL's default isolation, READ COMMITTED: a statement sees what   *)
(* is committed when it begins, locks the rows it updates one by one and   *)
(* writes to the newest version of each.  Names and policies are left out. *)
(***************************************************************************)
EXTENDS FiniteSets

CONSTANTS
    Sender,         \* ids a row of email_senders may get
    Address,        \* normalised addresses
    Identity,       \* the addresses Google reports for this user over time
    Body,           \* the bodies of PATCH requests
    Request,        \* requests that may run at once
    NoRow, NoSender

Choice == {"yes", "no", "omitted"}

ASSUME AddressAssumption == Identity \subseteq Address
ASSUME BodyAssumption ==
    Body \subseteq [isDefault : Choice, isActive : Choice, address : Address \cup {"omitted"}]

ASSUME NullAssumption ==
    /\ NoSender \notin Sender
    /\ NoRow \notin [address : Address, isDefault : BOOLEAN, isActive : BOOLEAN]

VARIABLES
    row,        \* email_senders, as committed
    request,    \* running transactions, each with the rows it has written and locked
    inserted    \* ghost: the rows inserted as the default one, or during another request

vars == <<row, request, inserted>>

Row == [address : Address, isDefault : BOOLEAN, isActive : BOOLEAN]
Blank == [isDefault |-> "omitted", isActive |-> "omitted", address |-> "omitted"]
Idle == [ pc |-> "idle", kind |-> "none", sender |-> NoSender, body |-> Blank, sawDefault |-> FALSE,
          alone |-> FALSE, todo |-> {}, own |-> [s \in Sender |-> NoRow] ]

TypeOK ==
    /\ row \in [Sender -> Row \cup {NoRow}]
    /\ request \in [Request ->
          [ pc : {"idle", "find", "reset", "write", "commit"}, kind : {"none", "post", "patch", "signIn"},
            sender : Sender \cup {NoSender},
            body : [isDefault : Choice, isActive : Choice, address : Address \cup {"omitted"}],
            sawDefault : BOOLEAN, alone : BOOLEAN, todo : SUBSET Sender,
            own : [Sender -> Row \cup {NoRow}] ]]
    /\ inserted \subseteq Sender
    \* A row is locked by one transaction at most, and by none that has ended.
    /\ \A r \in Request, s \in Sender : request[r].own[s] # NoRow =>
          /\ request[r].pc # "idle"
          /\ \A q \in Request \ {r} : request[q].own[s] = NoRow

Init ==
    /\ row = [s \in Sender |-> NoRow]
    /\ request = [r \in Request |-> Idle]
    /\ inserted = {}

-----------------------------------------------------------------------------
(* PostgreSQL *)

Rows == {s \in Sender : row[s] # NoRow}
Locked(s, r) == \E q \in Request \ {r} : request[q].own[s] # NoRow

\* What transaction r updates when it has the lock: its own or the committed row.
Newest(r, s) == IF request[r].own[s] # NoRow THEN request[r].own[s] ELSE row[s]

\* An insert, or an update, to an address another row has is refused; it waits
\* while an open transaction decides whether that row has it.
Conflicts(r, s, a) == \E t \in Rows \ {s} : row[t].address = a /\ ~Locked(t, r)
Waits(r, s, a) ==
    \E q \in Request \ {r}, t \in Sender \ {s} :
        /\ request[q].own[t] # NoRow
        /\ a \in {request[q].own[t].address} \cup (IF t \in Rows THEN {row[t].address} ELSE {})

Write(r, s, new) == request' = [request EXCEPT ![r] = [@ EXCEPT !.pc = "commit", !.own[s] = new]]

\* Mutant: an ended transaction keeps its rows.
EndKeeping(r) ==
    request' = [request EXCEPT ![r] = [Idle EXCEPT !.own = request[r].own]]

\* The transaction is over, whatever is answered.
End(r) == request' = [request EXCEPT ![r] = Idle]

\* A handler answers an error, a query fails, a deadlock is broken.
Rollback(r) ==
    /\ request[r].pc # "idle"
    /\ End(r)
    /\ UNCHANGED <<row, inserted>>

Commit(r) ==
    /\ request[r].pc = "commit"
    /\ row' = [s \in Sender |-> Newest(r, s)]
    /\ inserted' = inserted \cup
         {s \in Sender \ Rows : /\ row'[s] # NoRow
                                /\ row'[s].isDefault \/ \E q \in Request \ {r} : request[q].pc # "idle"}
    /\ End(r)

\* A new request: it is not alone if another one runs, and neither is that one.
Begin(r, pc, kind, s, body) ==
    /\ request[r].pc = "idle"
    /\ LET others == {q \in Request : request[q].pc # "idle"} IN
         request' = [q \in Request |->
            IF q = r THEN [Idle EXCEPT !.pc = pc, !.kind = kind, !.sender = s, !.body = body,
                                       !.alone = (others = {})]
            ELSE [request[q] EXCEPT !.alone = FALSE]]
    /\ UNCHANGED <<row, inserted>>

Fresh == {s \in Sender \ Rows : \A q \in Request : request[q].own[s] = NoRow}

-----------------------------------------------------------------------------
(* The handlers *)

\* POST /senders of a user who has signed in.
post(r) ==
    /\ Rows # {}
    /\ \E a \in Address, d \in {"yes", "no"} :
         Begin(r, IF d = "yes" THEN "reset" ELSE "write", "post", NoSender,
               [Blank EXCEPT !.isDefault = d, !.address = a])

\* PATCH /senders/:senderId; an unknown sender is answered 404 without effect.
patch(r) == \E s \in Rows, body \in Body : Begin(r, "find", "patch", s, body)

\* The callback of Google; the update of the users row makes sign-ins wait for
\* each other.
signIn(r) ==
    /\ \A q \in Request : request[q].kind # "signIn"
    /\ \E a \in Identity :
         Begin(r, "write", "signIn", NoSender, [Blank EXCEPT !.isDefault = "yes", !.address = a])

\* Mutant: the last default may be given up.
RefusedUnlessInactive(current, body) ==
    \/ current.isDefault /\ body.isActive = "no"
    \/ body.isDefault = "yes" /\ body.isActive = "no"

\* The answers 409 and 400 of PATCH.
Refused(current, body) ==
    \/ current.isDefault /\ body.isActive = "no"
    \/ current.isDefault /\ body.isDefault = "no"
    \/ body.isDefault = "yes" /\ body.isActive = "no"

find(r) ==
    /\ request[r].pc = "find"
    /\ LET current == row[request[r].sender]
           body == request[r].body IN
         IF Refused(current, body) THEN End(r)
         ELSE request' = [request EXCEPT ![r] =
                [@ EXCEPT !.pc = IF body.isDefault = "yes" THEN "reset" ELSE "write",
                          !.sawDefault = current.isDefault]]
    /\ UNCHANGED <<row, inserted>>

\* Mutant: only the senders that are the default one are reset.
DefaultsOnly(r) == {s \in Rows \ {request[r].sender} : row[s].isDefault}

\* The rows an updateMany that begins now will reset.
Others(r) == Rows \ {request[r].sender}

updateMany(r) ==
    /\ request[r].pc = "reset"
    /\ request' = [request EXCEPT ![r] = [@ EXCEPT !.pc = "write", !.todo = Others(r)]]
    /\ UNCHANGED <<row, inserted>>

resetRow(r, s) ==
    /\ request[r].pc = "write" /\ s \in request[r].todo
    /\ ~Locked(s, r)
    /\ request' = [request EXCEPT ![r] = [@ EXCEPT !.todo = request[r].todo \ {s},
                     !.own[s] = [Newest(r, s) EXCEPT !.isDefault = FALSE]]]
    /\ UNCHANGED <<row, inserted>>

\* emailSender.create, of POST and of the sign-in's upsert.
create(r) ==
    /\ request[r].pc = "write" /\ request[r].kind \in {"post", "signIn"} /\ request[r].todo = {}
    /\ LET a == request[r].body.address IN
         /\ ~Waits(r, NoSender, a) /\ ~Conflicts(r, NoSender, a)
         /\ \E s \in Fresh : Write(r, s, [address |-> a, isActive |-> TRUE,
                                          isDefault |-> request[r].body.isDefault = "yes"])
    /\ UNCHANGED <<row, inserted>>

\* The address is taken: POST is answered 409, the upsert updates the name.
exists(r) ==
    /\ request[r].pc = "write" /\ request[r].kind \in {"post", "signIn"} /\ request[r].todo = {}
    /\ LET a == request[r].body.address IN
         /\ ~Waits(r, NoSender, a)
         /\ \E s \in Rows : /\ row[s].address = a /\ ~Locked(s, r)
                            /\ IF request[r].kind = "post" THEN End(r) ELSE Write(r, s, row[s])
    /\ UNCHANGED <<row, inserted>>

\* Mutant: a new default sender stays inactive if it was.
ChangedKeepingInactive(old, body) ==
    [ address |-> IF body.address = "omitted" THEN old.address ELSE body.address,
      isActive |-> IF body.isActive = "omitted" THEN old.isActive ELSE body.isActive = "yes",
      isDefault |-> IF body.isDefault = "omitted" THEN old.isDefault ELSE body.isDefault = "yes" ]

\* The columns that PATCH sets: a sender that becomes the default one is active.
Changed(old, body) ==
    [ address |-> IF body.address = "omitted" THEN old.address ELSE body.address,
      isActive |-> body.isDefault = "yes" \/ body.isActive = "yes"
                       \/ (body.isActive = "omitted" /\ old.isActive),
      isDefault |-> body.isDefault = "yes" \/ (body.isDefault = "omitted" /\ old.isDefault) ]

\* The update of PATCH, or its P2002.
update(r) ==
    /\ request[r].pc = "write" /\ request[r].kind = "patch" /\ request[r].todo = {}
    /\ LET s == request[r].sender
           new == Changed(Newest(r, s), request[r].body) IN
         /\ ~Locked(s, r) /\ ~Waits(r, s, new.address)
         /\ IF Conflicts(r, s, new.address) THEN End(r) ELSE Write(r, s, new)
    /\ UNCHANGED <<row, inserted>>

Next ==
    \E r \in Request :
        \/ post(r) \/ patch(r) \/ signIn(r)
        \/ find(r) \/ updateMany(r) \/ (\E s \in Sender : resetRow(r, s))
        \/ create(r) \/ exists(r) \/ update(r)
        \/ Commit(r) \/ Rollback(r)

Spec == Init /\ [][Next]_vars

-----------------------------------------------------------------------------
(* Properties *)

Defaults(rows) == {s \in Sender : rows[s] # NoRow /\ rows[s].isDefault}
Sound(rows) == \E s \in Sender : Defaults(rows) = {s} /\ rows[s].isActive

\* Requests that choose a default sender may overlap as they like: as the
\* updateMany locks every other row, and not only the default ones it sees, two
\* default senders can only come about when one of them was inserted as such, or
\* while another request ran, whose updateMany may have begun without it.
ChoicesSerialize ==
    \A s, t \in Defaults(row) : s = t \/ s \in inserted \/ t \in inserted

\* A POST or PATCH that overlaps no other request leaves exactly one default
\* sender, which is active, if there was one before, and also if there was not
\* when it chooses one.  (A sign-in with a new address adds a second default.)
SerialProtects ==
    [][\A r \in Request :
         /\ Commit(r) /\ request[r].alone /\ request[r].kind # "signIn"
         /\ Sound(row) \/ request[r].body.isDefault = "yes"
         => Sound(row')]_vars

\* The checks of PATCH protect the default sender from everything but the race
\* they leave: a commit that takes the last active default sender away was
\* asked to, by a request that had read its row before it became the default.
DefaultProtected ==
    [][\A r \in Request :
         /\ Commit(r)
         /\ \E s \in Defaults(row) : row[s].isActive
         /\ \A s \in Defaults(row') : ~row'[s].isActive
         => /\ request[r].kind = "patch" /\ ~request[r].sawDefault
            /\ "no" \in {request[r].body.isDefault, request[r].body.isActive}]_vars
=============================================================================

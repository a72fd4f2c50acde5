------------------------ MODULE SenderDefaults_proofs ------------------------
(***************************************************************************)
(* Proofs about a user's senders, for any number of overlapping requests,  *)
(* senders and addresses.                                                  *)
(***************************************************************************)
EXTENDS SenderDefaults, TLAPS

Body0 == [isDefault : Choice, isActive : Choice, address : Address \cup {"omitted"}]
RequestType ==
    [ pc : {"idle", "find", "reset", "write", "commit"}, kind : {"none", "post", "patch", "signIn"},
      sender : Sender \cup {NoSender}, body : Body0,
      sawDefault : BOOLEAN, alone : BOOLEAN, todo : SUBSET Sender,
      own : [Sender -> Row \cup {NoRow}] ]

\* A request that runs updateMany before it writes the new default sender.
Chooses(q) == q.kind \in {"post", "patch"} /\ q.body.isDefault = "yes"

\* What a running request q is about, and what its updateMany has left to do.
FormInv(q) ==
    /\ q.kind \in {"post", "patch", "signIn"}
    /\ q.kind = "patch" => q.sender \in Sender /\ row[q.sender] # NoRow
    /\ q.kind # "patch" =>
         q.sender \notin Sender /\ q.body.address \in Address /\ q.body.isDefault \in {"yes", "no"}
    /\ q.kind = "signIn" => q.body.isDefault = "yes"
    /\ q.pc = "find" => q.kind = "patch"
    /\ q.pc = "reset" => Chooses(q)
    /\ q.todo \subseteq Rows \ {q.sender}
    /\ q.pc # "write" \/ ~Chooses(q) => q.todo = {}

\* What q has locked: before its last write only rows it has reset.
LockedInv(q) ==
    \A s \in Sender : q.own[s] # NoRow =>
        /\ q.pc \in {"write", "commit"}
        /\ q.pc = "write" => Chooses(q) /\ s # q.sender /\ row[s] # NoRow /\ ~q.own[s].isDefault
        /\ q.kind = "signIn" => row[s] = NoRow \/ q.own[s] = row[s]
        /\ q.kind = "post" /\ ~Chooses(q) => row[s] = NoRow /\ ~q.own[s].isDefault
        /\ q.kind = "patch" /\ ~Chooses(q) => s = q.sender /\ q.own[s] = Changed(row[s], q.body)

\* The new default sender, before the commit.
ChosenInv(q) ==
    q.pc = "commit" /\ Chooses(q) =>
        \E c \in Sender :
            /\ q.own[c] # NoRow /\ q.own[c].isDefault /\ q.own[c].isActive
            /\ \A s \in Sender \ {c} : q.own[s] # NoRow => ~q.own[s].isDefault
            /\ q.kind = "patch" => c = q.sender
            /\ q.kind = "post" => row[c] = NoRow

\* updateMany reaches every other sender, but those inserted while q runs.
CoverInv(q) ==
    q.pc \in {"write", "commit"} /\ Chooses(q) =>
        \A t \in Rows \ {q.sender} :
            q.alone \/ t \notin inserted => t \in q.todo \/ (q.own[t] # NoRow /\ ~q.own[t].isDefault)

\* What the checks of PATCH have excluded.
SawInv(q) ==
    q.kind = "patch" /\ q.pc \in {"reset", "write", "commit"} =>
        /\ q.sawDefault => q.body.isDefault # "no" /\ q.body.isActive # "no"
        /\ q.alone => q.sawDefault = row[q.sender].isDefault

RequestInv(q) ==
    q.pc # "idle" => FormInv(q) /\ LockedInv(q) /\ ChosenInv(q) /\ CoverInv(q) /\ SawInv(q)

AloneInv ==
    \A r \in Request : request[r].pc # "idle" /\ request[r].alone =>
        \A q \in Request \ {r} : request[q].pc = "idle"

IInv == TypeOK /\ ChoicesSerialize /\ AloneInv /\ \A r \in Request : RequestInv(request[r])

USE AddressAssumption, BodyAssumption, NullAssumption

\* Initially there are no senders and no requests.
LEMMA InitInv == Init => IInv
<1> SUFFICES ASSUME Init PROVE IInv
  OBVIOUS
<1>1. Idle \in RequestType /\ Idle.pc = "idle" /\ \A s \in Sender : Idle.own[s] = NoRow
  BY DEF Idle, RequestType, Body0, Blank, Choice
<1>2. TypeOK
  BY <1>1 DEF Init, TypeOK, RequestType, Body0
<1>3. ChoicesSerialize
  BY DEF Init, ChoicesSerialize, Defaults
<1> QED
  BY <1>1, <1>2, <1>3 DEF Init, IInv, AloneInv, RequestInv

\* A step of one request that commits nothing.
LEMMA StepInv ==
    ASSUME IInv, NEW r \in Request, NEW new \in RequestType, request' = [request EXCEPT ![r] = new],
           UNCHANGED <<row, inserted>>, RequestInv(new),
           new.pc # "idle" => request[r].pc # "idle" /\ (new.alone => request[r].alone),
           \A s \in Sender : new.own[s] # NoRow => new.pc # "idle" /\ ~Locked(s, r)
    PROVE  IInv'
<1>1. request \in [Request -> RequestType]
  BY DEF IInv, TypeOK, RequestType, Body0
<1>2. request' \in [Request -> RequestType]
  BY <1>1
<1>3. request'[r] = new /\ \A q \in Request \ {r} : request'[q] = request[q]
  BY <1>1
<1>4. TypeOK'
  <2>1. ASSUME NEW p \in Request, NEW s \in Sender, request'[p].own[s] # NoRow
        PROVE  /\ request'[p].pc # "idle"
               /\ \A q \in Request \ {p} : request'[q].own[s] = NoRow
    <3>1. CASE p = r
      BY <1>3, <2>1, <3>1 DEF Locked
    <3>2. CASE p # r
      <4>1. /\ request[p].own[s] # NoRow /\ request[p].pc # "idle"
            /\ \A q \in Request \ {p} : request[q].own[s] = NoRow
        BY <1>3, <2>1, <3>2 DEF IInv, TypeOK
      <4>2. new.own[s] = NoRow
        BY <3>2, <4>1 DEF Locked
      <4> QED
        BY <1>3, <3>2, <4>1, <4>2
    <3> QED
      BY <3>1, <3>2
  <2> QED
    BY <1>2, <2>1 DEF IInv, TypeOK, RequestType, Body0
<1>5. ChoicesSerialize'
  BY DEF IInv, ChoicesSerialize, Defaults
<1>6. AloneInv'
  BY <1>3 DEF IInv, AloneInv
<1>7. ASSUME NEW q \in Request PROVE RequestInv(request[q])'
  <2>1. RequestInv(request'[q])
    BY <1>3 DEF IInv
  <2> QED
    BY <2>1 DEF RequestInv, FormInv, LockedInv, ChosenInv, CoverInv, SawInv, Rows
<1> QED
  BY <1>4, <1>5, <1>6, <1>7 DEF IInv

\* A request that ends, whatever it is answered.
LEMMA EndInv ==
    ASSUME IInv, NEW r \in Request, End(r), UNCHANGED <<row, inserted>>
    PROVE  IInv'
<1>1. Idle \in RequestType /\ Idle.pc = "idle" /\ \A s \in Sender : Idle.own[s] = NoRow
  BY DEF Idle, RequestType, Body0, Blank, Choice
<1>2. RequestInv(Idle)
  BY <1>1 DEF RequestInv
<1>3. request' = [request EXCEPT ![r] = Idle]
  BY DEF End
<1> HIDE DEF Idle
<1> QED
  BY <1>1, <1>2, <1>3, StepInv

\* PATCH has read its sender and checked the body.
LEMMA FindInv ==
    ASSUME IInv, NEW r \in Request, find(r)
    PROVE  IInv'
<1> DEFINE q == request[r]
           current == row[q.sender]
<1>1. q \in RequestType /\ q.pc = "find" /\ RequestInv(q) /\ UNCHANGED <<row, inserted>>
  BY DEF IInv, TypeOK, RequestType, Body0, find
<1>2. current \in Row /\ current.isDefault \in BOOLEAN
  BY <1>1 DEF RequestInv, FormInv, IInv, TypeOK, Row
<1>3. CASE End(r)
  BY <1>1, <1>3, EndInv
<1>4. ASSUME ~Refused(current, q.body), NEW pc \in {"reset", "write"},
             pc = "reset" <=> q.body.isDefault = "yes",
             request' = [request EXCEPT ![r] = [q EXCEPT !.pc = pc, !.sawDefault = current.isDefault]]
      PROVE  IInv'
  <2>1. PICK new : new = [q EXCEPT !.pc = pc, !.sawDefault = current.isDefault]
    OBVIOUS
  <2>2. /\ new \in RequestType /\ new.pc = pc /\ new.sawDefault = current.isDefault
        /\ new.kind = q.kind /\ new.sender = q.sender /\ new.body = q.body /\ new.alone = q.alone
        /\ new.todo = q.todo /\ new.own = q.own
    BY <1>1, <1>2, <2>1 DEF RequestType
  <2>3. \A s \in Sender : q.own[s] = NoRow
    BY <1>1 DEF RequestInv, LockedInv
  <2>4. FormInv(new) /\ LockedInv(new) /\ ChosenInv(new) /\ CoverInv(new)
    BY <1>1, <1>4, <2>2, <2>3 DEF RequestInv, FormInv, LockedInv, ChosenInv, CoverInv, Chooses
  <2>5. SawInv(new)
    BY <1>4, <2>2 DEF SawInv, Refused
  <2>6. RequestInv(new) /\ \A s \in Sender : new.own[s] = NoRow
    BY <2>2, <2>3, <2>4, <2>5 DEF RequestInv
  <2>7. request' = [request EXCEPT ![r] = new]
    BY <1>4, <2>1
  <2> QED
    BY <1>1, <2>2, <2>6, <2>7, StepInv
<1>5. \/ End(r)
      \/ /\ ~Refused(current, q.body)
         /\ request' = [request EXCEPT ![r] =
              [q EXCEPT !.pc = IF q.body.isDefault = "yes" THEN "reset" ELSE "write",
                        !.sawDefault = current.isDefault]]
  BY DEF find
<1> HIDE DEF q, current
<1> QED
  BY <1>3, <1>4, <1>5

\* updateMany begins: all other rows are still to be reset.
LEMMA UpdateManyInv ==
    ASSUME IInv, NEW r \in Request, updateMany(r)
    PROVE  IInv'
<1> DEFINE q == request[r]
<1>1. q \in RequestType /\ q.pc = "reset" /\ RequestInv(q) /\ UNCHANGED <<row, inserted>>
  BY DEF IInv, TypeOK, RequestType, Body0, updateMany
<1>2. PICK new : new = [q EXCEPT !.pc = "write", !.todo = Rows \ {q.sender}]
  OBVIOUS
<1>3. /\ new \in RequestType /\ new.pc = "write" /\ new.todo = Rows \ {q.sender}
      /\ new.kind = q.kind /\ new.sender = q.sender /\ new.body = q.body /\ new.alone = q.alone
      /\ new.sawDefault = q.sawDefault /\ new.own = q.own
  BY <1>1, <1>2 DEF RequestType, Rows
<1>4. \A s \in Sender : q.own[s] = NoRow
  BY <1>1 DEF RequestInv, LockedInv
<1>5. FormInv(new) /\ LockedInv(new) /\ ChosenInv(new) /\ CoverInv(new) /\ SawInv(new)
  BY <1>1, <1>3, <1>4 DEF RequestInv, FormInv, LockedInv, ChosenInv, CoverInv, SawInv, Chooses
<1>6. request' = [request EXCEPT ![r] = new]
  BY <1>2 DEF updateMany, Others
<1> QED
  BY <1>1, <1>3, <1>4, <1>5, <1>6, StepInv DEF RequestInv

\* updateMany resets one row and keeps it locked.
LEMMA ResetRowInv ==
    ASSUME IInv, NEW r \in Request, NEW s \in Sender, resetRow(r, s)
    PROVE  IInv'
<1> DEFINE q == request[r]
<1>1. /\ q \in RequestType /\ q.pc = "write" /\ RequestInv(q) /\ UNCHANGED <<row, inserted>>
      /\ s \in q.todo /\ ~Locked(s, r)
  BY DEF IInv, TypeOK, RequestType, Body0, resetRow
<1>2. PICK mine : mine = [Newest(r, s) EXCEPT !.isDefault = FALSE]
  OBVIOUS
<1>3. mine \in Row /\ ~mine.isDefault
  <2>1. Newest(r, s) \in Row
    BY <1>1 DEF Newest, RequestInv, FormInv, Rows, IInv, TypeOK, RequestType
  <2> QED
    BY <1>2, <2>1 DEF Row
<1>4. PICK new : new = [q EXCEPT !.todo = q.todo \ {s}, !.own[s] = mine]
  OBVIOUS
<1>5. /\ new \in RequestType /\ new.pc = "write" /\ new.todo = q.todo \ {s}
      /\ new.kind = q.kind /\ new.sender = q.sender /\ new.body = q.body /\ new.alone = q.alone
      /\ new.sawDefault = q.sawDefault
      /\ new.own[s] = mine /\ \A t \in Sender \ {s} : new.own[t] = q.own[t]
  BY <1>1, <1>3, <1>4 DEF RequestType
<1>6. Chooses(q) /\ s # q.sender /\ row[s] # NoRow /\ mine # NoRow
  BY <1>1, <1>3 DEF RequestInv, FormInv, Rows, Row
<1>7. FormInv(new) /\ ChosenInv(new) /\ SawInv(new)
  BY <1>1, <1>5, <1>6 DEF RequestInv, FormInv, ChosenInv, SawInv, Chooses
<1>8. LockedInv(new)
  BY <1>1, <1>3, <1>5, <1>6 DEF RequestInv, LockedInv, Chooses
<1>9. CoverInv(new)
  BY <1>1, <1>3, <1>5, <1>6 DEF RequestInv, CoverInv, Chooses, Rows
<1>10. request' = [request EXCEPT ![r] = new]
  BY <1>2, <1>4 DEF resetRow
<1>11. \A t \in Sender : new.own[t] # NoRow => ~Locked(t, r)
  BY <1>1, <1>5 DEF Locked, IInv, TypeOK
<1> QED
  BY <1>1, <1>5, <1>7, <1>8, <1>9, <1>10, <1>11, StepInv DEF RequestInv

\* The last write of a transaction.
LEMMA WriteInv ==
    ASSUME IInv, NEW r \in Request, NEW s \in Sender, NEW mine \in Row, Write(r, s, mine),
           UNCHANGED <<row, inserted>>, request[r].pc = "write", request[r].todo = {}, ~Locked(s, r),
           Chooses(request[r]) => mine.isDefault /\ mine.isActive,
           request[r].kind = "post" => row[s] = NoRow,
           request[r].kind = "post" /\ ~Chooses(request[r]) => ~mine.isDefault,
           request[r].kind = "signIn" => row[s] = NoRow \/ mine = row[s],
           request[r].kind = "patch" =>
               s = request[r].sender /\ mine = Changed(row[s], request[r].body)
    PROVE  IInv'
<1> DEFINE q == request[r]
<1>1. q \in RequestType /\ RequestInv(q)
  BY DEF IInv, TypeOK, RequestType, Body0
<1>2. PICK new : new = [q EXCEPT !.pc = "commit", !.own[s] = mine]
  OBVIOUS
<1>3. /\ new \in RequestType /\ new.pc = "commit" /\ new.todo = {}
      /\ new.kind = q.kind /\ new.sender = q.sender /\ new.body = q.body /\ new.alone = q.alone
      /\ new.sawDefault = q.sawDefault
      /\ new.own[s] = mine /\ \A t \in Sender \ {s} : new.own[t] = q.own[t]
  BY <1>1, <1>2 DEF RequestType
<1>4. mine # NoRow
  BY DEF Row
<1>5. \A t \in Sender : q.own[t] # NoRow =>
         Chooses(q) /\ t # q.sender /\ row[t] # NoRow /\ ~q.own[t].isDefault
  BY <1>1 DEF RequestInv, LockedInv
<1>6. FormInv(new) /\ SawInv(new)
  BY <1>1, <1>3 DEF RequestInv, FormInv, SawInv, Chooses
<1>7. LockedInv(new)
  BY <1>1, <1>3, <1>4, <1>5 DEF LockedInv, RequestInv, FormInv, Chooses
<1>8. ChosenInv(new)
  BY <1>3, <1>4, <1>5 DEF ChosenInv, Chooses
<1>9. CoverInv(new)
  BY <1>1, <1>3, <1>5 DEF RequestInv, FormInv, CoverInv, Chooses, Rows
<1>10. request' = [request EXCEPT ![r] = new]
  BY <1>2 DEF Write
<1>11. \A t \in Sender : new.own[t] # NoRow => ~Locked(t, r)
  BY <1>3 DEF Locked, IInv, TypeOK
<1> QED
  BY <1>3, <1>6, <1>7, <1>8, <1>9, <1>10, <1>11, StepInv DEF RequestInv

\* A sender is inserted.
LEMMA CreateInv ==
    ASSUME IInv, NEW r \in Request, create(r)
    PROVE  IInv'
<1> DEFINE q == request[r]
<1>1. /\ q.pc = "write" /\ q.kind \in {"post", "signIn"} /\ q.todo = {} /\ RequestInv(q)
      /\ UNCHANGED <<row, inserted>>
  BY DEF create, IInv
<1>2. PICK s \in Fresh : Write(r, s, [address |-> q.body.address, isActive |-> TRUE,
                                      isDefault |-> q.body.isDefault = "yes"])
  BY DEF create
<1>3. PICK mine : mine = [address |-> q.body.address, isActive |-> TRUE,
                          isDefault |-> q.body.isDefault = "yes"]
  OBVIOUS
<1>4. /\ mine \in Row /\ mine.isActive /\ mine.isDefault = (q.body.isDefault = "yes")
  BY <1>1, <1>3 DEF Row, RequestInv, FormInv
<1>5. s \in Sender /\ row[s] = NoRow /\ ~Locked(s, r)
  BY <1>2 DEF Fresh, Rows, Locked
<1>6. Write(r, s, mine)
  BY <1>2, <1>3
<1> QED
  BY <1>1, <1>4, <1>5, <1>6, WriteInv DEF Chooses

\* The address has a sender.
LEMMA ExistsInv ==
    ASSUME IInv, NEW r \in Request, exists(r)
    PROVE  IInv'
<1>1. UNCHANGED <<row, inserted>>
  BY DEF exists
<1>2. CASE End(r)
  BY <1>1, <1>2, EndInv
<1>3. CASE /\ request[r].kind = "signIn"
           /\ \E s \in Rows : Write(r, s, row[s]) /\ ~Locked(s, r)
  <2>1. PICK s \in Rows : Write(r, s, row[s]) /\ ~Locked(s, r)
    BY <1>3
  <2>2. s \in Sender /\ row[s] \in Row
    BY DEF Rows, IInv, TypeOK
  <2>3. request[r].pc = "write" /\ request[r].todo = {}
    BY DEF exists
  <2> QED
    BY <1>1, <1>3, <2>1, <2>2, <2>3, WriteInv DEF Chooses
<1> QED
  BY <1>2, <1>3 DEF exists

\* PATCH writes its sender.
LEMMA UpdateInv ==
    ASSUME IInv, NEW r \in Request, update(r)
    PROVE  IInv'
<1> DEFINE q == request[r]
           s == q.sender
<1>1. /\ q \in RequestType /\ RequestInv(q) /\ q.pc = "write" /\ q.kind = "patch" /\ q.todo = {}
      /\ UNCHANGED <<row, inserted>> /\ ~Locked(s, r)
  BY DEF update, IInv, TypeOK, RequestType, Body0
<1>2. s \in Sender /\ row[s] \in Row /\ q.own[s] = NoRow
  BY <1>1 DEF RequestInv, FormInv, LockedInv, IInv, TypeOK
<1>3. PICK mine : mine = Changed(Newest(r, s), q.body)
  OBVIOUS
<1>4. mine = Changed(row[s], q.body)
  BY <1>2, <1>3 DEF Newest
<1>5. /\ mine \in Row
      /\ q.body.isDefault = "yes" => mine.isDefault /\ mine.isActive
  BY <1>1, <1>2, <1>4 DEF Changed, Row, RequestType, Body0
<1>6. CASE End(r)
  BY <1>1, <1>6, EndInv
<1>7. CASE Write(r, s, mine)
  BY <1>1, <1>2, <1>4, <1>5, <1>7, WriteInv DEF Chooses
<1> QED
  BY <1>3, <1>6, <1>7 DEF update

\* A new request ends the solitude of the others.
LEMMA BeginInv ==
    ASSUME IInv, NEW r \in Request, NEW pc \in {"find", "reset", "write"},
           NEW kind \in {"post", "patch", "signIn"}, NEW s \in Sender \cup {NoSender}, NEW body \in Body0,
           Begin(r, pc, kind, s, body),
           kind = "patch" <=> pc = "find", kind = "patch" => s \in Rows,
           kind # "patch" => s = NoSender /\ body.address \in Address /\ body.isDefault \in {"yes", "no"},
           pc = "reset" <=> kind = "post" /\ body.isDefault = "yes",
           kind = "signIn" => body.isDefault = "yes"
    PROVE  IInv'
<1> DEFINE others == {q \in Request : request[q].pc # "idle"}
<1>1. request \in [Request -> RequestType] /\ UNCHANGED <<row, inserted>> /\ request[r].pc = "idle"
  BY DEF IInv, TypeOK, RequestType, Body0, Begin
<1>2. PICK new : new = [Idle EXCEPT !.pc = pc, !.kind = kind, !.sender = s, !.body = body,
                                    !.alone = (others = {})]
  OBVIOUS
<1>3. /\ new \in RequestType /\ new.pc = pc /\ new.kind = kind /\ new.sender = s /\ new.body = body
      /\ new.alone = (others = {}) /\ new.todo = {} /\ \A t \in Sender : new.own[t] = NoRow
  BY <1>2 DEF Idle, RequestType
<1>4. RequestInv(new)
  BY <1>3 DEF RequestInv, FormInv, LockedInv, ChosenInv, CoverInv, SawInv, Chooses, Rows
<1>5. request' = [q \in Request |-> IF q = r THEN new ELSE [request[q] EXCEPT !.alone = FALSE]]
  BY <1>2 DEF Begin
<1>6. \A q \in Request \ {r} :
         /\ request'[q] \in RequestType /\ request'[q].pc = request[q].pc
         /\ request'[q].kind = request[q].kind /\ request'[q].sender = request[q].sender
         /\ request'[q].body = request[q].body /\ request'[q].todo = request[q].todo
         /\ request'[q].own = request[q].own /\ request'[q].sawDefault = request[q].sawDefault
         /\ ~request'[q].alone
  <2> SUFFICES ASSUME NEW q \in Request \ {r}
               PROVE  /\ request'[q] \in RequestType /\ request'[q].pc = request[q].pc
                      /\ request'[q].kind = request[q].kind /\ request'[q].sender = request[q].sender
                      /\ request'[q].body = request[q].body /\ request'[q].todo = request[q].todo
                      /\ request'[q].own = request[q].own /\ request'[q].sawDefault = request[q].sawDefault
                      /\ ~request'[q].alone
    OBVIOUS
  <2>1. request[q] \in RequestType /\ request'[q] = [request[q] EXCEPT !.alone = FALSE]
    BY <1>1, <1>5
  <2> QED
    BY <2>1 DEF RequestType
<1>7. request'[r] = new /\ request' \in [Request -> RequestType]
  BY <1>3, <1>5, <1>6
<1>8. TypeOK'
  <2>1. ASSUME NEW p \in Request, NEW t \in Sender, request'[p].own[t] # NoRow
        PROVE  /\ request'[p].pc # "idle"
               /\ \A q \in Request \ {p} : request'[q].own[t] = NoRow
    <3>1. p # r
      BY <1>3, <1>7, <2>1
    <3>2. request[p].own[t] # NoRow
      BY <1>6, <2>1, <3>1
    <3>3. request[p].pc # "idle" /\ \A q \in Request \ {p} : request[q].own[t] = NoRow
      BY <3>2 DEF IInv, TypeOK
    <3> QED
      BY <1>3, <1>6, <1>7, <3>1, <3>3
  <2> QED
    BY <1>1, <1>7, <2>1 DEF IInv, TypeOK, RequestType, Body0
<1>9. ChoicesSerialize'
  BY <1>1 DEF IInv, ChoicesSerialize, Defaults
<1>10. AloneInv'
  <2>1. new.alone => \A q \in Request : request[q].pc = "idle"
    BY <1>3
  <2> QED
    BY <1>6, <1>7, <2>1 DEF AloneInv
<1>11. ASSUME NEW q \in Request PROVE RequestInv(request[q])'
  <2>1. RequestInv(request'[q])
    <3>1. CASE q = r
      BY <1>4, <1>7, <3>1
    <3>2. CASE q # r
      <4>1. RequestInv(request[q])
        BY DEF IInv
      <4> QED
        BY <1>6, <3>2, <4>1 DEF RequestInv, FormInv, LockedInv, ChosenInv, CoverInv, SawInv, Chooses
    <3> QED
      BY <3>1, <3>2
  <2> QED
    BY <1>1, <2>1 DEF RequestInv, FormInv, LockedInv, ChosenInv, CoverInv, SawInv, Rows
<1> QED
  BY <1>8, <1>9, <1>10, <1>11 DEF IInv

\* A request begins.
LEMMA BeginsInv ==
    ASSUME IInv, NEW r \in Request, post(r) \/ patch(r) \/ signIn(r)
    PROVE  IInv'
<1>1. CASE post(r)
  <2>1. PICK a \in Address, d \in {"yes", "no"} :
           Begin(r, IF d = "yes" THEN "reset" ELSE "write", "post", NoSender,
                 [Blank EXCEPT !.isDefault = d, !.address = a])
    BY <1>1 DEF post
  <2>2. PICK body : body = [Blank EXCEPT !.isDefault = d, !.address = a]
    OBVIOUS
  <2>3. body \in Body0 /\ body.isDefault = d /\ body.address = a
    BY <2>2 DEF Blank, Body0, Choice
  <2>4. PICK pc \in {"reset", "write"} : pc = IF d = "yes" THEN "reset" ELSE "write"
    OBVIOUS
  <2>5. Begin(r, pc, "post", NoSender, body)
    BY <2>1, <2>2, <2>4
  <2> QED
    BY <2>3, <2>4, <2>5, BeginInv
<1>2. CASE patch(r)
  <2>1. PICK s \in Rows, body \in Body : Begin(r, "find", "patch", s, body)
    BY <1>2 DEF patch
  <2>2. s \in Sender /\ body \in Body0
    BY DEF Rows, Body0
  <2> QED
    BY <2>1, <2>2, BeginInv
<1>3. CASE signIn(r)
  <2>1. PICK a \in Identity :
           Begin(r, "write", "signIn", NoSender, [Blank EXCEPT !.isDefault = "yes", !.address = a])
    BY <1>3 DEF signIn
  <2>2. PICK body : body = [Blank EXCEPT !.isDefault = "yes", !.address = a]
    OBVIOUS
  <2>3. body \in Body0 /\ body.isDefault = "yes" /\ body.address = a /\ a \in Address
    BY <2>2 DEF Blank, Body0, Choice
  <2>5. Begin(r, "write", "signIn", NoSender, body)
    BY <2>1, <2>2
  <2> QED
    BY <2>3, <2>5, BeginInv
<1> QED
  BY <1>1, <1>2, <1>3

-----------------------------------------------------------------------------
(* The commit *)

\* Rows that the request has locked are replaced, and no other request has them.
LEMMA CommitFacts ==
    ASSUME IInv, NEW r \in Request, Commit(r)
    PROVE  /\ row' \in [Sender -> Row \cup {NoRow}]
           /\ \A s \in Sender : row'[s] = IF request[r].own[s] # NoRow THEN request[r].own[s] ELSE row[s]
           /\ Rows \subseteq Rows'
           /\ inserted \subseteq inserted' /\ inserted' \subseteq Sender
           /\ \A s \in Sender \ Rows : row'[s] # NoRow /\ row'[s].isDefault => s \in inserted'
           /\ RequestInv(request[r]) /\ request[r].pc = "commit"
<1>1. request[r] \in RequestType /\ row \in [Sender -> Row \cup {NoRow}] /\ inserted \subseteq Sender
  BY DEF IInv, TypeOK, RequestType, Body0
<1>2. \A s \in Sender : row'[s] = IF request[r].own[s] # NoRow THEN request[r].own[s] ELSE row[s]
  BY DEF Commit, Newest
<1>3. row' \in [Sender -> Row \cup {NoRow}]
  BY <1>1 DEF Commit, Newest, RequestType
<1> QED
  BY <1>1, <1>2, <1>3 DEF Commit, Rows, IInv

\* A request that chooses leaves its default sender, and no other but inserted ones.
LEMMA ChosenDefault ==
    ASSUME IInv, NEW r \in Request, Commit(r), Chooses(request[r])
    PROVE  \E c \in Sender :
             /\ row'[c] # NoRow /\ row'[c].isDefault /\ row'[c].isActive
             /\ \A u \in Sender \ {c} : row'[u] # NoRow /\ row'[u].isDefault =>
                  u \in inserted /\ ~request[r].alone
<1> DEFINE q == request[r]
<1>1. /\ FormInv(q) /\ ChosenInv(q) /\ CoverInv(q) /\ q.pc = "commit"
  BY CommitFacts DEF RequestInv
<1>2. PICK c \in Sender :
        /\ q.own[c] # NoRow /\ q.own[c].isDefault /\ q.own[c].isActive
        /\ \A s \in Sender \ {c} : q.own[s] # NoRow => ~q.own[s].isDefault
        /\ q.kind = "patch" => c = q.sender
  BY <1>1 DEF ChosenInv
<1>3. row'[c] # NoRow /\ row'[c].isDefault /\ row'[c].isActive
  BY <1>2, CommitFacts
<1>4. ASSUME NEW u \in Sender \ {c}, row'[u] # NoRow, row'[u].isDefault
      PROVE  u \in inserted /\ ~q.alone
  <2>1. q.own[u] = NoRow /\ u \in Rows
    BY <1>2, <1>4, CommitFacts DEF Rows
  <2>2. u # q.sender
    BY <1>1, <1>2, <1>4 DEF FormInv, Chooses
  <2>3. q.todo = {}
    BY <1>1 DEF FormInv
  <2> QED
    BY <1>1, <2>1, <2>2, <2>3 DEF CoverInv
<1> QED
  BY <1>3, <1>4

\* What PATCH does to the two flags.
LEMMA ChangedFlags ==
    ASSUME NEW old \in Row, NEW body \in Body0
    PROVE  /\ Changed(old, body).isDefault =
                (body.isDefault = "yes" \/ (body.isDefault = "omitted" /\ old.isDefault))
           /\ Changed(old, body).isActive =
                (body.isDefault = "yes" \/ body.isActive = "yes"
                    \/ (body.isActive = "omitted" /\ old.isActive))
  BY DEF Changed

\* Any other request makes no sender the default one, unless it inserts it.
LEMMA OtherDefault ==
    ASSUME IInv, NEW r \in Request, Commit(r), ~Chooses(request[r]),
           NEW u \in Sender, row'[u] # NoRow, row'[u].isDefault
    PROVE  \/ row[u] # NoRow /\ row[u].isDefault
           \/ row[u] = NoRow /\ u \in inserted' /\ request[r].kind = "signIn"
<1> DEFINE q == request[r]
<1>1. FormInv(q) /\ LockedInv(q) /\ q \in RequestType
  BY CommitFacts DEF RequestInv, IInv, TypeOK, RequestType, Body0, Commit
<1>2. CASE q.own[u] = NoRow
  BY <1>2, CommitFacts
<1>3. CASE q.own[u] # NoRow
  <2>1. row'[u] = q.own[u]
    BY <1>3, CommitFacts
  <2>2. CASE q.kind = "signIn"
    BY <1>1, <1>3, <2>1, <2>2, CommitFacts DEF LockedInv, Rows
  <2>3. CASE q.kind = "post"
    BY <1>1, <1>3, <2>1, <2>3 DEF LockedInv
  <2>4. CASE q.kind = "patch"
    <3>1. q.body.isDefault # "yes" /\ row[u] # NoRow /\ row'[u] = Changed(row[u], q.body)
      BY <1>1, <1>3, <2>1, <2>4 DEF LockedInv, FormInv, Chooses
    <3>2. row[u] \in Row /\ q.body \in Body0
      BY <1>1, <3>1 DEF RequestType, IInv, TypeOK
    <3>3. row'[u].isDefault = (q.body.isDefault = "yes" \/ (q.body.isDefault = "omitted" /\ row[u].isDefault))
      BY <3>1, <3>2, ChangedFlags
    <3> QED
      BY <3>1, <3>3
  <2> QED
    BY <1>1, <2>2, <2>3, <2>4 DEF FormInv
<1> QED
  BY <1>2, <1>3

\* The commit of one request keeps what the others rely on.
LEMMA CommitInv ==
    ASSUME IInv, NEW r \in Request, Commit(r)
    PROVE  IInv'
<1>1. request \in [Request -> RequestType]
  BY DEF IInv, TypeOK, RequestType, Body0
<1>2. Idle \in RequestType /\ Idle.pc = "idle" /\ \A s \in Sender : Idle.own[s] = NoRow
  BY DEF Idle, RequestType, Body0, Blank, Choice
<1>3. /\ request'[r] = Idle /\ \A q \in Request \ {r} : request'[q] = request[q]
      /\ request' \in [Request -> RequestType]
  BY <1>1, <1>2 DEF Commit, End
<1> HIDE DEF Idle
<1>4. TypeOK'
  <2>1. ASSUME NEW p \in Request, NEW s \in Sender, request'[p].own[s] # NoRow
        PROVE  /\ request'[p].pc # "idle"
               /\ \A q \in Request \ {p} : request'[q].own[s] = NoRow
    <3>1. p # r
      BY <1>2, <1>3, <2>1
    <3>2. request[p].own[s] # NoRow
      BY <1>3, <2>1, <3>1
    <3>3. request[p].pc # "idle" /\ \A q \in Request \ {p} : request[q].own[s] = NoRow
      BY <3>2 DEF IInv, TypeOK
    <3> QED
      BY <1>2, <1>3, <3>1, <3>3
  <2> QED
    BY <1>3, <2>1, CommitFacts DEF TypeOK, RequestType, Body0
<1>5. ChoicesSerialize'
  <2>1. \A s, t \in Sender :
           /\ row'[s] # NoRow /\ row'[s].isDefault /\ row'[t] # NoRow /\ row'[t].isDefault
           => s = t \/ s \in inserted' \/ t \in inserted'
    <3>1. CASE Chooses(request[r])
      BY <3>1, ChosenDefault, CommitFacts
    <3>2. CASE ~Chooses(request[r])
      <4>1. \A s, t \in Sender : row[s] # NoRow /\ row[s].isDefault /\ row[t] # NoRow /\ row[t].isDefault
               => s = t \/ s \in inserted \/ t \in inserted
        BY DEF IInv, ChoicesSerialize, Defaults
      <4> QED
        BY <3>2, <4>1, OtherDefault, CommitFacts
    <3> QED
      BY <3>1, <3>2
  <2> QED
    BY <2>1 DEF ChoicesSerialize, Defaults
<1>6. AloneInv'
  BY <1>2, <1>3 DEF IInv, AloneInv
<1>7. ASSUME NEW p \in Request PROVE RequestInv(request[p])'
  <2>1. CASE p = r
    BY <1>2, <1>3, <2>1 DEF RequestInv
  <2>2. CASE p # r /\ request[p].pc = "idle"
    BY <1>3, <2>2 DEF RequestInv
  <2>3. CASE p # r /\ request[p].pc # "idle"
    <3> DEFINE q == request[p]
    <3>1. request'[p] = q /\ q \in RequestType /\ RequestInv(q) /\ ~q.alone
      BY <1>1, <1>3, <2>3 DEF IInv, AloneInv, Commit
    <3>2. \A s \in Sender : q.own[s] # NoRow => row'[s] = row[s]
      BY <2>3, CommitFacts DEF IInv, TypeOK
    <3>3. \A s \in Sender : row[s] # NoRow => row'[s] # NoRow
      BY CommitFacts DEF Rows
    <3>4. \A s \in Sender : row[s] = NoRow /\ row'[s] # NoRow => s \in inserted'
      BY <2>3 DEF Commit, Rows
    <3>5. FormInv(q)'
      BY <2>3, <3>1, <3>3 DEF RequestInv, FormInv, Rows, Chooses
    <3>6. LockedInv(q)'
      BY <2>3, <3>1, <3>2 DEF RequestInv, LockedInv, Chooses
    <3>7. ChosenInv(q)'
      BY <2>3, <3>1, <3>2 DEF RequestInv, ChosenInv, Chooses
    <3>8. CoverInv(q)'
      BY <2>3, <3>1, <3>4, CommitFacts DEF RequestInv, CoverInv, Chooses, Rows
    <3>9. SawInv(q)'
      BY <2>3, <3>1 DEF RequestInv, SawInv
    <3> QED
      BY <3>5, <3>6, <3>7, <3>8, <3>9 DEF RequestInv
  <2> QED
    BY <2>1, <2>2, <2>3
<1> QED
  BY <1>4, <1>5, <1>6, <1>7 DEF IInv

\* Every step keeps the invariant.
LEMMA NextInv == IInv /\ [Next]_vars => IInv'
<1> SUFFICES ASSUME IInv, [Next]_vars PROVE IInv'
  OBVIOUS
<1>1. CASE UNCHANGED vars
  BY <1>1 DEF vars, IInv, TypeOK, ChoicesSerialize, Defaults, AloneInv, RequestInv, FormInv, LockedInv,
              ChosenInv, CoverInv, SawInv, Rows
<1>2. ASSUME NEW r \in Request, post(r) \/ patch(r) \/ signIn(r) PROVE IInv'
  BY <1>2, BeginsInv
<1>3. ASSUME NEW r \in Request, find(r) PROVE IInv'
  BY <1>3, FindInv
<1>4. ASSUME NEW r \in Request, updateMany(r) PROVE IInv'
  BY <1>4, UpdateManyInv
<1>5. ASSUME NEW r \in Request, NEW s \in Sender, resetRow(r, s) PROVE IInv'
  BY <1>5, ResetRowInv
<1>6. ASSUME NEW r \in Request, create(r) PROVE IInv'
  BY <1>6, CreateInv
<1>7. ASSUME NEW r \in Request, exists(r) PROVE IInv'
  BY <1>7, ExistsInv
<1>8. ASSUME NEW r \in Request, update(r) PROVE IInv'
  BY <1>8, UpdateInv
<1>9. ASSUME NEW r \in Request, Commit(r) PROVE IInv'
  BY <1>9, CommitInv
<1>10. ASSUME NEW r \in Request, Rollback(r) PROVE IInv'
  BY <1>10, EndInv DEF Rollback
<1> QED
  BY <1>1, <1>2, <1>3, <1>4, <1>5, <1>6, <1>7, <1>8, <1>9, <1>10 DEF Next

\* The inductive invariant holds of all rows and running requests.
THEOREM InvCorrect == Spec => []IInv
  BY InitInv, NextInv, PTL DEF Spec

\* Every variable keeps its type, and a row is locked by one transaction at most.
THEOREM TypeCorrect == Spec => []TypeOK
<1>1. IInv => TypeOK
  BY DEF IInv
<1> QED
  BY <1>1, InvCorrect, PTL

\* However many requests that choose a default sender overlap, two default
\* senders come about only with one that was inserted as such or meanwhile.
THEOREM ChoicesCorrect == Spec => []ChoicesSerialize
<1>1. IInv => ChoicesSerialize
  BY DEF IInv
<1> QED
  BY <1>1, InvCorrect, PTL

\* The last active default sender is only taken away by a PATCH that was asked to,
\* and that had read its row before it became the default one.
THEOREM ProtectedCorrect == Spec => DefaultProtected
<1> DEFINE Protected ==
             \A r \in Request :
                /\ Commit(r)
                /\ \E s \in Defaults(row) : row[s].isActive
                /\ \A s \in Defaults(row') : ~row'[s].isActive
                => /\ request[r].kind = "patch" /\ ~request[r].sawDefault
                   /\ "no" \in {request[r].body.isDefault, request[r].body.isActive}
<1>1. IInv => Protected
  <2> SUFFICES ASSUME IInv, NEW r \in Request, Commit(r),
                      NEW s \in Sender, row[s] # NoRow, row[s].isDefault, row[s].isActive,
                      \A u \in Sender : row'[u] # NoRow /\ row'[u].isDefault => ~row'[u].isActive
               PROVE  /\ request[r].kind = "patch" /\ ~request[r].sawDefault
                      /\ "no" \in {request[r].body.isDefault, request[r].body.isActive}
    BY DEF Defaults
  <2> DEFINE q == request[r]
  <2>1. FormInv(q) /\ LockedInv(q) /\ SawInv(q) /\ q \in RequestType /\ q.pc = "commit"
    BY CommitFacts DEF RequestInv, IInv, TypeOK, RequestType, Body0
  <2>2. ~Chooses(q)
    BY ChosenDefault
  <2>3. q.own[s] # NoRow /\ q.own[s] # row[s] /\ row'[s] = q.own[s]
    BY CommitFacts
  <2>4. q.kind = "patch" /\ row'[s] = Changed(row[s], q.body) /\ row'[s] # NoRow
    BY <2>1, <2>2, <2>3 DEF LockedInv, FormInv
  <2>5. "no" \in {q.body.isDefault, q.body.isActive}
    <3>1. row[s] \in Row /\ q.body \in Body0 /\ q.body.isDefault # "yes"
      BY <2>1, <2>2, <2>4 DEF RequestType, IInv, TypeOK, Chooses
    <3>2. ~row'[s].isDefault \/ ~row'[s].isActive
      BY <2>4
    <3>3. q.body.isDefault \in Choice /\ q.body.isActive \in Choice
      BY <3>1 DEF Body0
    <3> QED
      BY <2>4, <3>1, <3>2, <3>3, ChangedFlags DEF Choice
  <2> QED
    BY <2>1, <2>4, <2>5 DEF SawInv
<1> QED
  BY <1>1, InvCorrect, PTL DEF DefaultProtected

\* A POST or PATCH that overlaps no other request leaves exactly one default
\* sender, an active one, if there was one or it chooses one.
THEOREM SerialCorrect == Spec => SerialProtects
<1> DEFINE Protects ==
             \A r \in Request :
                /\ Commit(r) /\ request[r].alone /\ request[r].kind # "signIn"
                /\ Sound(row) \/ request[r].body.isDefault = "yes"
                => Sound(row')
<1>1. IInv => Protects
  <2> SUFFICES ASSUME IInv, NEW r \in Request, Commit(r), request[r].alone, request[r].kind # "signIn",
                      Sound(row) \/ request[r].body.isDefault = "yes"
               PROVE  Sound(row')
    OBVIOUS
  <2> DEFINE q == request[r]
  <2>1. FormInv(q) /\ LockedInv(q) /\ SawInv(q) /\ q \in RequestType /\ q.pc = "commit"
    BY CommitFacts DEF RequestInv, IInv, TypeOK, RequestType, Body0
  <2>2. CASE Chooses(q)
    <3>1. PICK c \in Sender :
             /\ row'[c] # NoRow /\ row'[c].isDefault /\ row'[c].isActive
             /\ \A u \in Sender \ {c} : row'[u] # NoRow => ~row'[u].isDefault
      BY <2>2, ChosenDefault
    <3> QED
      BY <3>1 DEF Sound, Defaults
  <2>3. CASE ~Chooses(q)
    <3>1. PICK d \in Sender : Defaults(row) = {d} /\ row[d].isActive
      BY <2>1, <2>3 DEF Sound, FormInv, Chooses
    <3>2. row[d] # NoRow /\ row[d].isDefault /\ row[d] \in Row
      BY <3>1 DEF Defaults, IInv, TypeOK
    <3>3. \A u \in Sender \ {d} : row'[u] # NoRow => ~row'[u].isDefault
      BY <2>3, <3>1, OtherDefault DEF Defaults
    <3>4. row'[d] # NoRow /\ row'[d].isDefault /\ row'[d].isActive
      <4>1. CASE q.own[d] = NoRow
        BY <3>1, <3>2, <4>1, CommitFacts
      <4>2. CASE q.own[d] # NoRow
        <5>1. q.kind = "patch" /\ d = q.sender /\ row'[d] = Changed(row[d], q.body) /\ row'[d] # NoRow
          BY <2>1, <2>3, <3>2, <4>2, CommitFacts DEF LockedInv, FormInv
        <5>2. q.body.isDefault # "no" /\ q.body.isActive # "no"
          BY <2>1, <3>2, <5>1 DEF SawInv
        <5> QED
          BY <2>1, <3>1, <3>2, <5>1, <5>2 DEF Changed, RequestType, Body0, Choice
      <4> QED
        BY <4>1, <4>2
    <3> QED
      BY <3>3, <3>4 DEF Sound, Defaults
  <2> QED
    BY <2>2, <2>3
<1> QED
  BY <1>1, InvCorrect, PTL DEF SerialProtects
=============================================================================

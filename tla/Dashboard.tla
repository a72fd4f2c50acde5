------------------------------ MODULE Dashboard ------------------------------
(***************************************************************************)
(* The dashboard of one user: the keyset pages of GET /emails/scheduled    *)
(* and GET /emails/sent (email/router.ts), which DashboardPage.tsx walks   *)
(* while the workers move rows from list to list and from time to time.    *)
(* What react-query keeps of the lists may be older than what they hold.   *)
(***************************************************************************)
EXTENDS Integers, Sequences, FiniteSets, SequencesExt

CONSTANTS
    Email,      \* ids of rows, in the order in which PostgreSQL compares them
    Time,       \* the times of next_attempt_at and updated_at
    limit,      \* API_PAGE_SIZE
    Top,        \* the cursor of a first page: undefined
    End,        \* the nextCursor of a last page: null
    NoPage,     \* no data
    MaxMoves, MaxClicks     \* bounds on the steps of the rows and of the user

ASSUME IdAssumption == Email \subseteq Nat /\ IsFiniteSet(Email) /\ Time \subseteq Nat /\ Time # {}
ASSUME LimitAssumption == limit \in Nat \ {0}
ASSUME BoundAssumption == MaxMoves \in Nat /\ MaxClicks \in Nat
ASSUME CursorAssumption ==
    Top # End /\ \A c \in {Top, End} : c \notin [at : Time, id : Email]

VARIABLES
    row,        \* the list each row is in and the time it has there
    tab,        \* the list the page shows
    cursors,    \* scheduledCursors and sentCursors
    cache,      \* react-query: what it has under a list and a cursor
    answer,     \* the answer of the API that is on its way to it
    shown,      \* ghost: the rows of the page at each Next click
    moved,      \* ghost: the rows that were added or moved since the page was opened
    moves, clicks

client == <<tab, cursors, cache, answer, shown, clicks>>
vars == <<row, client, moved, moves>>

List == {"scheduled", "sent"}
Position == [at : Time, id : Email]
Key == List \X (Position \cup {Top})
Page == [items : SUBSET Email, next : Position \cup {End}]
Entry == [page : Page \cup {NoPage}, error : BOOLEAN]
NoEntry == [page |-> NoPage, error |-> FALSE]

ActiveKey == <<tab, Last(cursors[tab])>>
Current == cache[ActiveKey].page

TypeOK ==
    /\ row \in [Email -> [list : List \cup {"none"}, at : Time]]
    /\ tab \in List
    /\ \A l \in List : /\ cursors[l] # <<>> /\ Head(cursors[l]) = Top
                       /\ Tail(cursors[l]) \in Seq(Position)
                       /\ Len(shown[l]) = Len(cursors[l]) - 1
                       /\ shown[l] \in Seq((SUBSET Email) \ {{}})
    /\ cache \in [Key -> Entry]
    /\ answer \in [Key -> Page \cup {NoPage}]
    /\ moved \subseteq Email /\ moves \in 0..MaxMoves /\ clicks \in 0..MaxClicks

-----------------------------------------------------------------------------
(* GET /emails/scheduled and GET /emails/sent *)

PositionOf(e) == [at |-> row[e].at, id |-> e]

\* Mutant: the where of the query has no id to tell rows of one time apart.
PrecedesByTime(list, p, q) == IF list = "scheduled" THEN p.at < q.at ELSE q.at < p.at

\* orderBy, ascending for scheduled and descending for sent emails, and the where
\* that compares with the cursor.
Precedes(list, p, q) ==
    LET Less(x, y) == x.at < y.at \/ (x.at = y.at /\ x.id < y.id) IN
        IF list = "scheduled" THEN Less(p, q) ELSE Less(q, p)

Follows(list, e, cursor) == cursor = Top \/ Precedes(list, cursor, PositionOf(e))

Listed(list) == {e \in Email : row[e].list = list}
Rows(list, cursor) == {e \in Listed(list) : Follows(list, e, cursor)}

\* The first n of a set of rows.
First(list, S, n) ==
    {e \in S : Cardinality({f \in S : Precedes(list, PositionOf(f), PositionOf(e))}) < n}

\* Mutant: the cursor is the row that told that there are more.
ReadFrom(list, cursor) ==
    LET rows == First(list, Rows(list, cursor), limit + 1)
        page == First(list, rows, limit)
    IN  [ items |-> page,
          next |-> IF rows = page THEN End ELSE PositionOf(CHOOSE e \in rows : e \notin page) ]

\* One query takes limit + 1 rows; the last one of the page is the next cursor.
Read(list, cursor) ==
    LET rows == First(list, Rows(list, cursor), limit + 1)
        page == First(list, rows, limit)
        last == CHOOSE e \in page : \A f \in page \ {e} : Precedes(list, PositionOf(f), PositionOf(e))
    IN  [items |-> page, next |-> IF rows = page THEN End ELSE PositionOf(last)]

-----------------------------------------------------------------------------
(* The rows, as the API and the workers change them.  Each process writes   *)
(* the time of its own clock, so any time may come.                         *)

Move(e, list, t) ==
    /\ moves < MaxMoves
    /\ row' = [row EXCEPT ![e] = [list |-> list, at |-> t]]
    /\ moved' = moved \cup {e} /\ moves' = moves + 1
    /\ UNCHANGED client

\* createEmailBatch.
schedule(e, t) == row[e].list = "none" /\ Move(e, "scheduled", t)

\* recordRateLimit and recordFailure with a retry write nextAttemptAt.
defer(e, t) == row[e].list = "scheduled" /\ t # row[e].at /\ Move(e, "scheduled", t)

\* recordAccepted, recordFailure and the sweep of a worker's start end an email,
\* which stamps updatedAt.
settle(e, t) == row[e].list = "scheduled" /\ Move(e, "sent", t)

-----------------------------------------------------------------------------
(* The requests of the active query *)

NoCache == [k \in Key |-> NoEntry]
NoAnswers == [k \in Key |-> NoPage]
FirstPages == [l \in List |-> <<Top>>]
NothingShown == [l \in List |-> <<>>]

Init ==
    /\ row \in [Email -> {[list |-> "none", at |-> CHOOSE t \in Time : TRUE]}
                            \cup [list : List, at : Time]]
    /\ tab \in List
    /\ cursors = FirstPages /\ cache = NoCache /\ answer = NoAnswers /\ shown = NothingShown
    /\ moved = {} /\ moves = 0 /\ clicks = 0

\* A new key, the refetchInterval, Refresh or a window that gets the focus; a
\* new request takes the place of one that is still unanswered.  Bound: no other
\* key waits for an answer.
fetch ==
    /\ \A k \in Key \ {ActiveKey} : answer[k] = NoPage
    /\ answer' = [answer EXCEPT ![ActiveKey] = Read(ActiveKey[1], ActiveKey[2])]
    /\ UNCHANGED <<row, moved, moves, tab, cursors, cache, shown, clicks>>

\* Mutant: the answer goes to whatever is shown when it comes.
ReceiveShown(k) ==
    /\ answer[k] # NoPage
    /\ cache' = [cache EXCEPT ![ActiveKey] = [page |-> answer[k], error |-> FALSE]]
    /\ answer' = [answer EXCEPT ![k] = NoPage]
    /\ UNCHANGED <<row, moved, moves, tab, cursors, shown, clicks>>

\* The answer comes, perhaps after the page has gone on to another key.
Receive(k) ==
    /\ answer[k] # NoPage
    /\ cache' = [cache EXCEPT ![k] = [page |-> answer[k], error |-> FALSE]]
    /\ answer' = [answer EXCEPT ![k] = NoPage]
    /\ UNCHANGED <<row, moved, moves, tab, cursors, shown, clicks>>

\* The request fails, its retries as well; the data it had stays.
Fail(k) ==
    /\ answer[k] # NoPage
    /\ cache' = [cache EXCEPT ![k].error = TRUE]
    /\ answer' = [answer EXCEPT ![k] = NoPage]
    /\ UNCHANGED <<row, moved, moves, tab, cursors, shown, clicks>>

\* react-query drops a query that no component has used for a while.
Collect(k) ==
    /\ k # ActiveKey /\ cache[k] # NoEntry
    /\ cache' = [cache EXCEPT ![k] = NoEntry]
    /\ UNCHANGED <<row, moved, moves, tab, cursors, answer, shown, clicks>>

-----------------------------------------------------------------------------
(* The user *)

\* EmailTable has its rows, and the buttons below them, unless it shows a spinner,
\* an error or "No ... emails yet".
TableShown == Current # NoPage /\ ~cache[ActiveKey].error /\ Current.items # {}

Click == clicks < MaxClicks /\ clicks' = clicks + 1 /\ UNCHANGED <<row, moves>>

switchTab ==
    /\ Click
    /\ tab' \in List \ {tab}
    /\ UNCHANGED <<moved, cursors, cache, answer, shown>>

nextPage ==
    /\ Click
    /\ TableShown /\ Current.next # End
    /\ cursors' = [cursors EXCEPT ![tab] = Append(@, Current.next)]
    /\ shown' = [shown EXCEPT ![tab] = Append(@, Current.items)]
    /\ UNCHANGED <<moved, tab, cache, answer>>

\* Mutant: Back drops the oldest cursor.
previousPageOldest ==
    /\ Click
    /\ TableShown /\ Len(cursors[tab]) > 1
    /\ cursors' = [cursors EXCEPT ![tab] = Tail(@)]
    /\ shown' = [shown EXCEPT ![tab] = Front(@)]
    /\ UNCHANGED <<moved, tab, cache, answer>>

previousPage ==
    /\ Click
    /\ TableShown /\ Len(cursors[tab]) > 1
    /\ cursors' = [cursors EXCEPT ![tab] = Front(@)]
    /\ shown' = [shown EXCEPT ![tab] = Front(@)]
    /\ UNCHANGED <<moved, tab, cache, answer>>

\* The compose dialog is done: the scheduled list from its first page on.  All
\* lists become stale, which is to say that a fetch follows.
scheduled ==
    /\ Click
    /\ tab' = "scheduled"
    /\ cursors' = [cursors EXCEPT !["scheduled"] = <<Top>>]
    /\ shown' = [shown EXCEPT !["scheduled"] = <<>>]
    /\ UNCHANGED <<moved, cache, answer>>

\* A logout clears the cache, and a login or a reload opens a new page.
Reopen ==
    /\ Click
    /\ tab' \in List
    /\ cursors' = FirstPages /\ cache' = NoCache /\ answer' = NoAnswers /\ shown' = NothingShown
    /\ moved' = {}

Next ==
    \/ \E e \in Email, t \in Time : schedule(e, t) \/ defer(e, t) \/ settle(e, t)
    \/ fetch \/ (\E k \in Key : Receive(k) \/ Fail(k) \/ Collect(k))
    \/ switchTab \/ nextPage \/ previousPage \/ scheduled \/ Reopen

Spec == Init /\ [][Next]_vars

-----------------------------------------------------------------------------
(* Properties *)

\* The pages of a walk: those left by Next, and what there is of the last one.
Walk(l) ==
    LET page == cache[<<l, Last(cursors[l])>>].page IN
        IF page = NoPage THEN shown[l] ELSE Append(shown[l], page.items)

\* Where the walk goes on.
Ahead(l) ==
    LET page == cache[<<l, Last(cursors[l])>>].page IN
        IF page = NoPage THEN Last(cursors[l]) ELSE page.next

Unmoved(l) == Listed(l) \ moved

\* However old the pages of a walk are, and whatever has moved meanwhile, an
\* email that has not is on one of them or still ahead: the cursor names a
\* position, which outlives the row it was made from.
NothingSkipped ==
    \A l \in List : \A e \in Unmoved(l) :
        \/ \E n \in DOMAIN Walk(l) : e \in Walk(l)[n]
        \/ Ahead(l) # End /\ Follows(l, e, Ahead(l))

\* And it is on no two pages, nor ahead when it was on one.
NothingRepeated ==
    \A l \in List : \A e \in Unmoved(l) :
        LET on == {n \in DOMAIN Walk(l) : e \in Walk(l)[n]} IN
            Cardinality(on) <= 1 /\ (on # {} => Ahead(l) = End \/ ~Follows(l, e, Ahead(l)))
=============================================================================

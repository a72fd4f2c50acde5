--------------------------- MODULE Dashboard_proofs ---------------------------
(***************************************************************************)
(* Proofs about Dashboard: a page of the API holds the rows between its     *)
(* cursor and the next one, so a walk over any number of pages, of any age, *)
(* skips no email that has not moved and shows none twice.                  *)
(***************************************************************************)
EXTENDS Dashboard, FiniteSetTheorems, SequenceTheorems, WellFoundedInduction, TLAPS

USE IdAssumption, LimitAssumption, BoundAssumption

-----------------------------------------------------------------------------
(* The order of a list *)

Row == [list : List \cup {"none"}, at : Time]
RowsTyped == row \in [Email -> Row]

\* A list orders positions strictly and totally.
LEMMA PrecedesOrder ==
    ASSUME NEW l, NEW p \in Position, NEW q \in Position
    PROVE  /\ ~Precedes(l, p, p)
           /\ Precedes(l, p, q) => ~Precedes(l, q, p)
           /\ p.id # q.id => Precedes(l, p, q) \/ Precedes(l, q, p)
<1>1. p.at \in Nat /\ p.id \in Nat /\ q.at \in Nat /\ q.id \in Nat
  BY DEF Position
<1> QED
  BY <1>1 DEF Precedes

\* What precedes a position precedes what it precedes.
LEMMA PrecedesTransitive ==
    ASSUME NEW l, NEW p \in Position, NEW q \in Position, NEW r \in Position,
           Precedes(l, p, q), Precedes(l, q, r)
    PROVE  Precedes(l, p, r)
<1>1. /\ p.at \in Nat /\ p.id \in Nat /\ q.at \in Nat /\ q.id \in Nat
      /\ r.at \in Nat /\ r.id \in Nat
  BY DEF Position
<1> QED
  BY <1>1 DEF Precedes

\* An email has a position, its own.
LEMMA PositionType ==
    ASSUME RowsTyped, NEW e \in Email
    PROVE  PositionOf(e) \in Position /\ PositionOf(e).id = e
  BY DEF RowsTyped, Row, PositionOf, Position

Before(l, S, e) == {f \in S : Precedes(l, PositionOf(f), PositionOf(e))}
After(l, S, e) == {f \in S : Precedes(l, PositionOf(e), PositionOf(f))}

\* Of a set of sets of emails, some member contains no other.
LEMMA SmallestSet ==
    ASSUME NEW T \in SUBSET SUBSET Email, T # {}
    PROVE  \E X \in T : \A Y \in T : Y \subseteq X => Y = X
<1>1. PICK R : R = StrictSubsetOrdering(Email)
  OBVIOUS
<1>2. PICK F : F = FiniteSubsetsOf(Email)
  OBVIOUS
<1>3. \E X \in T : \A Y \in T : <<Y, X>> \notin R
  <2>1. IsWellFoundedOn(R, F)
    BY <1>1, <1>2, FS_StrictSubsetOrderingWellFounded
  <2>2. T \subseteq F
    BY <1>2, FS_FiniteSubsetsOfFinite
  <2> QED
    BY <2>1, <2>2, WFMin
<1>4. PICK X \in T : \A Y \in T : <<Y, X>> \notin StrictSubsetOrdering(Email)
  BY <1>1, <1>3
<1>5. ASSUME NEW Y \in T, Y \subseteq X, Y # X PROVE FALSE
  <2>1. <<Y, X>> \in StrictSubsetOrdering(Email)
    BY <1>5 DEF StrictSubsetOrdering
  <2> QED
    BY <1>4, <2>1
<1> QED
  BY <1>4, <1>5

\* Some row of a list is before all others.
LEMMA HasFirst ==
    ASSUME RowsTyped, NEW l, NEW S \in SUBSET Email, S # {}
    PROVE  \E e \in S : Before(l, S, e) = {}
<1>1. PICK T : T = {Before(l, S, e) : e \in S}
  OBVIOUS
<1>2. PICK e \in S : \A f \in S : Before(l, S, f) \subseteq Before(l, S, e) => Before(l, S, f) = Before(l, S, e)
  <2>1. T \in SUBSET SUBSET Email /\ T # {}
    BY <1>1 DEF Before
  <2>2. PICK X \in T : \A Y \in T : Y \subseteq X => Y = X
    BY <2>1, SmallestSet
  <2>3. PICK e \in S : X = Before(l, S, e)
    BY <1>1, <2>2
  <2> QED
    BY <1>1, <2>2, <2>3
<1>3. ASSUME NEW f \in Before(l, S, e) PROVE FALSE
  <2>1. f \in S /\ f \notin Before(l, S, f)
    BY <1>3, PositionType, PrecedesOrder DEF Before
  <2>2. Before(l, S, f) \subseteq Before(l, S, e)
    BY <1>3, PositionType, PrecedesTransitive DEF Before
  <2> QED
    BY <1>2, <1>3, <2>1, <2>2
<1> QED
  BY <1>3

\* Some row of a list is after all others.
LEMMA HasLast ==
    ASSUME RowsTyped, NEW l, NEW S \in SUBSET Email, S # {}
    PROVE  \E e \in S : \A f \in S \ {e} : Precedes(l, PositionOf(f), PositionOf(e))
<1>1. PICK T : T = {After(l, S, e) : e \in S}
  OBVIOUS
<1>2. PICK e \in S : \A f \in S : After(l, S, f) \subseteq After(l, S, e) => After(l, S, f) = After(l, S, e)
  <2>1. T \in SUBSET SUBSET Email /\ T # {}
    BY <1>1 DEF After
  <2>2. PICK X \in T : \A Y \in T : Y \subseteq X => Y = X
    BY <2>1, SmallestSet
  <2>3. PICK e \in S : X = After(l, S, e)
    BY <1>1, <2>2
  <2> QED
    BY <1>1, <2>2, <2>3
<1>3. ASSUME NEW f \in After(l, S, e) PROVE FALSE
  <2>1. f \in S /\ f \notin After(l, S, f)
    BY <1>3, PositionType, PrecedesOrder DEF After
  <2>2. After(l, S, f) \subseteq After(l, S, e)
    BY <1>3, PositionType, PrecedesTransitive DEF After
  <2> QED
    BY <1>2, <1>3, <2>1, <2>2
<1>4. ASSUME NEW f \in S \ {e} PROVE Precedes(l, PositionOf(f), PositionOf(e))
  <2>1. f \notin After(l, S, e)
    BY <1>3
  <2> QED
    BY <2>1, PositionType, PrecedesOrder DEF After
<1> QED
  BY <1>4

-----------------------------------------------------------------------------
(* The query *)

\* The first n rows of a list are rows that have fewer than n before them.
LEMMA FirstBefore ==
    ASSUME NEW l, NEW S \in SUBSET Email, NEW n \in Nat, NEW e \in Email
    PROVE  /\ e \in First(l, S, n) <=> e \in S /\ Cardinality(Before(l, S, e)) < n
           /\ First(l, S, n) \subseteq S
           /\ IsFiniteSet(Before(l, S, e)) /\ Cardinality(Before(l, S, e)) \in Nat
<1>1. Before(l, S, e) \subseteq Email
  BY DEF Before
<1> QED
  BY <1>1, FS_Subset, FS_CardinalityType DEF First, Before

\* A row that is before one of the first is one of them.
LEMMA FirstClosed ==
    ASSUME RowsTyped, NEW l, NEW S \in SUBSET Email, NEW n \in Nat,
           NEW e \in First(l, S, n), NEW f \in S, Precedes(l, PositionOf(f), PositionOf(e))
    PROVE  f \in First(l, S, n)
<1>1. e \in S /\ e \in Email /\ f \in Email
  BY FirstBefore DEF First
<1>2. Before(l, S, f) \subseteq Before(l, S, e)
  BY <1>1, PositionType, PrecedesTransitive DEF Before
<1>3. Cardinality(Before(l, S, f)) <= Cardinality(Before(l, S, e))
  BY <1>1, <1>2, FirstBefore, FS_Subset
<1> QED
  BY <1>1, <1>3, FirstBefore

\* When the query has no more than a page of rows, it has all of them.
LEMMA PageComplete ==
    ASSUME RowsTyped, NEW l, NEW S \in SUBSET Email,
           First(l, First(l, S, limit + 1), limit) = First(l, S, limit + 1)
    PROVE  First(l, S, limit + 1) = S
<1>0. PICK rows : rows = First(l, S, limit + 1)
  OBVIOUS
<1>1. rows \subseteq S /\ limit \in Nat /\ limit + 1 \in Nat
  BY <1>0 DEF First
<1>2. SUFFICES ASSUME S \ rows # {} PROVE FALSE
  BY <1>0, <1>1
<1>3. PICK f \in S \ rows : Before(l, S \ rows, f) = {}
  BY <1>2, HasFirst
<1>4. PICK P : P = Before(l, S, f)
  OBVIOUS
<1>5. P \subseteq rows /\ P \subseteq Email
  BY <1>3, <1>4 DEF Before
<1>6. IsFiniteSet(P) /\ Cardinality(P) \in Nat /\ Cardinality(P) >= limit + 1
  BY <1>0, <1>1, <1>3, <1>4, FirstBefore
<1>7. P # {}
  BY <1>6, FS_EmptySet
<1>8. PICK z \in P : \A y \in P \ {z} : Precedes(l, PositionOf(y), PositionOf(z))
  BY <1>5, <1>7, HasLast
<1>9. P \ {z} \subseteq Before(l, rows, z)
  BY <1>5, <1>8 DEF Before
<1>10. IsFiniteSet(Before(l, rows, z)) /\ Cardinality(Before(l, rows, z)) \in Nat
  BY <1>1, <1>5, <1>8, FirstBefore
<1>11. Cardinality(P \ {z}) = Cardinality(P) - 1
  BY <1>6, <1>8, FS_RemoveElement
<1>12. Cardinality(P \ {z}) <= Cardinality(Before(l, rows, z))
  BY <1>9, <1>10, FS_Subset
<1>13. z \notin First(l, rows, limit)
  BY <1>1, <1>5, <1>6, <1>8, <1>10, <1>11, <1>12, FirstBefore
<1> QED
  BY <1>0, <1>5, <1>8, <1>13

\* A page of a cursor, as far as its rows have not moved: the rows from its
\* cursor to the next one, which lies behind it.
WellRead(l, c, items, n) ==
    /\ n # End /\ c # Top => Precedes(l, c, n)
    /\ \A e \in Unmoved(l) :
         e \in items <=> Follows(l, e, c) /\ (n = End \/ ~Follows(l, e, n))

\* The rows of a page come before every other row of its query, and the last of
\* them is where the next page goes on.
LEMMA PageOfRows ==
    ASSUME RowsTyped, NEW l, NEW S \in SUBSET Email,
           NEW rows, rows = First(l, S, limit + 1), NEW page, page = First(l, rows, limit), rows # page,
           NEW last, last = CHOOSE e \in page : \A f \in page \ {e} : Precedes(l, PositionOf(f), PositionOf(e))
    PROVE  /\ last \in page /\ page \subseteq S
           /\ \A e \in S : e \in page <=> ~Precedes(l, PositionOf(last), PositionOf(e))
<1>1. rows \subseteq S /\ page \subseteq rows /\ page \subseteq Email /\ limit \in Nat /\ limit + 1 \in Nat
  <2>1. \A T, n : First(l, T, n) \subseteq T
    BY DEF First
  <2>2. rows \subseteq S /\ page \subseteq rows
    BY <2>1
  <2>3. S \subseteq Email
    OBVIOUS
  <2>4. page \subseteq Email
    BY <2>2, <2>3
  <2>5. limit \in Nat /\ limit + 1 \in Nat
    OBVIOUS
  <2> QED
    BY <2>2, <2>4, <2>5
<1>2. page # {}
  <2>1. rows # {}
    BY <1>1
  <2>2. PICK e \in rows : Before(l, rows, e) = {}
    BY <1>1, <2>1, HasFirst
  <2>3. Cardinality(Before(l, rows, e)) < limit
    BY <2>2, FS_EmptySet
  <2> QED
    BY <1>1, <2>3, FirstBefore
<1>3. last \in page /\ \A f \in page \ {last} : Precedes(l, PositionOf(f), PositionOf(last))
  BY <1>1, <1>2, HasLast
<1>4. ASSUME NEW e \in S, e \in page PROVE ~Precedes(l, PositionOf(last), PositionOf(e))
  BY <1>1, <1>3, <1>4, PositionType, PrecedesOrder
<1>5. ASSUME NEW e \in S, e \notin page PROVE Precedes(l, PositionOf(last), PositionOf(e))
  <2>1. SUFFICES ASSUME Precedes(l, PositionOf(e), PositionOf(last)) PROVE FALSE
    <3>1. e \in Email /\ last \in Email /\ e # last
      BY <1>1, <1>3, <1>5
    <3> QED
      BY <3>1, PositionType, PrecedesOrder
  <2>2. e \in rows
    BY <1>1, <1>3, <2>1, FirstClosed
  <2>3. e \in page
    BY <1>1, <1>3, <2>1, <2>2, FirstClosed
  <2> QED
    BY <1>5, <2>3
<1> QED
  BY <1>1, <1>3, <1>4, <1>5

\* What the API answers is a page, of the rows from its cursor to the next one.
LEMMA ReadCorrect ==
    ASSUME RowsTyped, NEW l, NEW c \in Position \cup {Top}
    PROVE  Read(l, c) \in Page /\ WellRead(l, c, Read(l, c).items, Read(l, c).next)
<1>1. PICK S : S = Rows(l, c)
  OBVIOUS
<1>2. PICK rows : rows = First(l, S, limit + 1)
  OBVIOUS
<1>3. PICK page : page = First(l, rows, limit)
  OBVIOUS
<1>4. PICK last : last = CHOOSE e \in page : \A f \in page \ {e} : Precedes(l, PositionOf(f), PositionOf(e))
  OBVIOUS
<1>5. Read(l, c) = [items |-> page, next |-> IF rows = page THEN End ELSE PositionOf(last)]
  BY <1>1, <1>2, <1>3, <1>4 DEF Read
<1>6. /\ S \subseteq Email /\ page \subseteq S
      /\ \A e \in Unmoved(l) : e \in S <=> Follows(l, e, c)
  BY <1>1, <1>2, <1>3 DEF Rows, Listed, Unmoved, First
<1>7. CASE rows = page
  <2>1. page = S
    BY <1>2, <1>3, <1>6, <1>7, PageComplete
  <2> QED
    BY <1>5, <1>6, <1>7, <2>1 DEF WellRead, Page
<1>8. CASE rows # page
  <2>1. last \in page /\ \A e \in S : e \in page <=> ~Precedes(l, PositionOf(last), PositionOf(e))
    BY <1>2, <1>3, <1>4, <1>6, <1>8, PageOfRows
  <2>2. PositionOf(last) \in Position /\ PositionOf(last) # Top /\ PositionOf(last) # End
    BY <1>6, <2>1, PositionType, CursorAssumption DEF Position
  <2>3. c # Top => Precedes(l, c, PositionOf(last))
    BY <1>1, <1>6, <2>1 DEF Rows, Follows
  <2>4. \A e \in Unmoved(l) :
          e \in page <=> Follows(l, e, c) /\ ~Follows(l, e, PositionOf(last))
    BY <1>6, <2>1, <2>2 DEF Follows
  <2> QED
    BY <1>5, <1>6, <1>8, <2>2, <2>3, <2>4 DEF WellRead, Page
<1> QED
  BY <1>7, <1>8

-----------------------------------------------------------------------------
(* Types *)

ClientTyped ==
    /\ cursors \in [List -> Seq(Position \cup {Top})]
    /\ shown \in [List -> Seq((SUBSET Email) \ {{}})]
    /\ \A l \in List : /\ Len(cursors[l]) = Len(shown[l]) + 1
                       /\ cursors[l][1] = Top
                       /\ \A k \in 2..Len(cursors[l]) : cursors[l][k] \in Position

TypeInv ==
    /\ RowsTyped /\ tab \in List
    /\ ClientTyped
    /\ cache \in [Key -> Entry]
    /\ answer \in [Key -> Page \cup {NoPage}]
    /\ moved \subseteq Email /\ moves \in 0..MaxMoves /\ clicks \in 0..MaxClicks

\* The cursors of a list end in the active one, a key of the cache.
LEMMA LastCursor ==
    ASSUME ClientTyped, NEW l \in List
    PROVE  /\ cursors[l] \in Seq(Position \cup {Top}) /\ shown[l] \in Seq((SUBSET Email) \ {{}})
           /\ Len(cursors[l]) \in Nat /\ Len(cursors[l]) >= 1
           /\ Len(shown[l]) \in Nat /\ Len(cursors[l]) = Len(shown[l]) + 1
           /\ Last(cursors[l]) = cursors[l][Len(cursors[l])]
           /\ Last(cursors[l]) \in Position \cup {Top}
           /\ <<l, Last(cursors[l])>> \in Key
<1>1. cursors[l] \in Seq(Position \cup {Top}) /\ shown[l] \in Seq((SUBSET Email) \ {{}})
      /\ Len(cursors[l]) = Len(shown[l]) + 1
  BY DEF ClientTyped
<1>2. Len(cursors[l]) \in Nat /\ Len(shown[l]) \in Nat /\ Len(cursors[l]) >= 1
  BY <1>1
<1>3. cursors[l][Len(cursors[l])] \in Position \cup {Top}
  BY <1>1, <1>2
<1> QED
  BY <1>1, <1>2, <1>3 DEF Last, Key

\* A page opened anew is well typed.
LEMMA FreshClient ==
    ASSUME cursors = FirstPages, shown = NothingShown
    PROVE  ClientTyped
<1>1. <<Top>> \in Seq(Position \cup {Top}) /\ <<>> \in Seq((SUBSET Email) \ {{}})
      /\ Len(<<Top>>) = 1 /\ <<Top>>[1] = Top /\ Len(<<>>) = 0
  OBVIOUS
<1> QED
  BY <1>1 DEF ClientTyped, FirstPages, NothingShown

\* Initially every variable has its type.
LEMMA TypeInit == Init => TypeInv
<1> SUFFICES ASSUME Init PROVE TypeInv
  OBVIOUS
<1>1. RowsTyped
  BY DEF Init, RowsTyped, Row
<1>2. ClientTyped
  BY FreshClient DEF Init
<1>3. cache \in [Key -> Entry] /\ answer \in [Key -> Page \cup {NoPage}]
  BY DEF Init, NoCache, NoAnswers, NoEntry, Entry
<1> QED
  BY <1>1, <1>2, <1>3 DEF Init, TypeInv

\* A list that gets other cursors and pages of the right kind is well typed.
LEMMA ClientChanges ==
    ASSUME ClientTyped, NEW l \in List,
           NEW cs \in Seq(Position \cup {Top}), NEW sh \in Seq((SUBSET Email) \ {{}}),
           Len(cs) = Len(sh) + 1, cs[1] = Top, \A k \in 2..Len(cs) : cs[k] \in Position,
           cursors' = [cursors EXCEPT ![l] = cs], shown' = [shown EXCEPT ![l] = sh]
    PROVE  ClientTyped'
<1>1. cursors' \in [List -> Seq(Position \cup {Top})] /\ shown' \in [List -> Seq((SUBSET Email) \ {{}})]
  BY DEF ClientTyped
<1>2. ASSUME NEW m \in List
      PROVE  /\ Len(cursors'[m]) = Len(shown'[m]) + 1
             /\ cursors'[m][1] = Top
             /\ \A k \in 2..Len(cursors'[m]) : cursors'[m][k] \in Position
  <2>1. CASE m = l
    <3>1. cursors'[m] = cs /\ shown'[m] = sh
      BY <2>1 DEF ClientTyped
    <3> QED
      BY <3>1
  <2>2. CASE m # l
    <3>1. cursors'[m] = cursors[m] /\ shown'[m] = shown[m]
      BY <2>2 DEF ClientTyped
    <3> QED
      BY <3>1 DEF ClientTyped
  <2> QED
    BY <2>1, <2>2
<1> QED
  BY <1>1, <1>2 DEF ClientTyped

\* What Next appends to a walk, and to its cursors.
LEMMA NextPageStep ==
    ASSUME TypeInv, nextPage
    PROVE  \E p \in Page :
             /\ p = cache[ActiveKey].page /\ p # NoPage /\ p.items # {} /\ p.next \in Position
             /\ cursors' = [cursors EXCEPT ![tab] = Append(cursors[tab], p.next)]
             /\ shown' = [shown EXCEPT ![tab] = Append(shown[tab], p.items)]
<1>1. PICK p : p = cache[ActiveKey].page
  OBVIOUS
<1>2. p # NoPage /\ p.items # {} /\ p.next # End
  BY <1>1 DEF nextPage, TableShown, Current
<1>3. ActiveKey \in Key
  BY LastCursor DEF TypeInv, ActiveKey
<1>4. p \in Page /\ p.next \in Position
  BY <1>1, <1>2, <1>3 DEF TypeInv, Entry, Page
<1>5. cursors' = [cursors EXCEPT ![tab] = Append(cursors[tab], p.next)]
  BY <1>1 DEF nextPage, Current
<1>6. shown' = [shown EXCEPT ![tab] = Append(shown[tab], p.items)]
  BY <1>1 DEF nextPage, Current
<1> QED
  BY <1>1, <1>2, <1>4, <1>5, <1>6

\* Next keeps the types of the cursors and pages.
LEMMA NextPageType ==
    ASSUME TypeInv, nextPage
    PROVE  ClientTyped'
<1>1. PICK p \in Page :
        /\ p.items # {} /\ p.next \in Position
        /\ cursors' = [cursors EXCEPT ![tab] = Append(cursors[tab], p.next)]
        /\ shown' = [shown EXCEPT ![tab] = Append(shown[tab], p.items)]
  BY NextPageStep
<1>2. PICK c, i, cs, sh : c = cursors[tab] /\ i = shown[tab] /\ cs = Append(c, p.next) /\ sh = Append(i, p.items)
  OBVIOUS
<1>3. /\ c \in Seq(Position \cup {Top}) /\ i \in Seq((SUBSET Email) \ {{}})
      /\ Len(c) = Len(i) + 1 /\ Len(c) \in Nat /\ Len(i) \in Nat /\ c[1] = Top
      /\ \A k \in 2..Len(c) : c[k] \in Position
      /\ tab \in List
  BY <1>2, LastCursor DEF TypeInv, ClientTyped
<1>4. p.next \in Position \cup {Top} /\ p.items \in (SUBSET Email) \ {{}}
  BY <1>1 DEF Page
<1>5. /\ cs \in Seq(Position \cup {Top}) /\ Len(cs) = Len(c) + 1
      /\ \A k \in 1..Len(c) : cs[k] = c[k]
      /\ cs[Len(c) + 1] = p.next
  BY <1>2, <1>3, <1>4, AppendProperties
<1>6. sh \in Seq((SUBSET Email) \ {{}}) /\ Len(sh) = Len(i) + 1
  BY <1>2, <1>3, <1>4, AppendProperties
<1>7. Len(cs) = Len(sh) + 1 /\ cs[1] = Top /\ \A k \in 2..Len(cs) : cs[k] \in Position
  <2>1. 1 \in 1..Len(c)
    BY <1>3
  <2>2. ASSUME NEW k \in 2..Len(cs) PROVE cs[k] \in Position
    <3>1. k \in 1..Len(c) \/ k = Len(c) + 1
      BY <1>3, <1>5
    <3> QED
      BY <1>1, <1>3, <1>5, <3>1
  <2> QED
    BY <1>3, <1>5, <1>6, <2>1, <2>2
<1> QED
  BY <1>1, <1>2, <1>3, <1>5, <1>6, <1>7, ClientChanges DEF TypeInv

\* All but the last of a sequence.
LEMMA FrontProperties ==
    ASSUME NEW S, NEW s \in Seq(S), Len(s) >= 1
    PROVE  /\ Front(s) \in Seq(S) /\ Len(Front(s)) = Len(s) - 1
           /\ \A k \in 1..(Len(s) - 1) : Front(s)[k] = s[k]
<1>1. Len(s) \in Nat /\ \A k \in 1..(Len(s) - 1) : s[k] \in S
  OBVIOUS
<1>2. PICK n : n = Len(s) - 1
  OBVIOUS
<1>3. n \in Int /\ 1 \in Int /\ \A k \in 1..n : s[k] \in S
  BY <1>1, <1>2
<1>4. PICK t : t = SubSeq(s, 1, n)
  OBVIOUS
<1>5. /\ t \in Seq(S)
      /\ Len(t) = IF 1 <= n THEN n - 1 + 1 ELSE 0
      /\ \A k \in 1..(n - 1 + 1) : t[k] = s[k + 1 - 1]
  BY <1>3, <1>4, SubSeqProperties
<1>6. Len(t) = Len(s) - 1 /\ \A k \in 1..(Len(s) - 1) : t[k] = s[k]
  BY <1>1, <1>2, <1>5
<1> QED
  BY <1>2, <1>4, <1>5, <1>6 DEF Front

\* Back keeps the types of the cursors and pages.
LEMMA PreviousPageType ==
    ASSUME TypeInv, previousPage
    PROVE  ClientTyped'
<1>1. PICK c, i, cs, sh : c = cursors[tab] /\ i = shown[tab] /\ cs = Front(c) /\ sh = Front(i)
  OBVIOUS
<1>2. /\ cursors' = [cursors EXCEPT ![tab] = cs] /\ shown' = [shown EXCEPT ![tab] = sh]
      /\ Len(c) > 1
  BY <1>1 DEF previousPage
<1>3. /\ c \in Seq(Position \cup {Top}) /\ i \in Seq((SUBSET Email) \ {{}})
      /\ Len(c) = Len(i) + 1 /\ Len(c) \in Nat /\ Len(i) \in Nat /\ c[1] = Top
      /\ \A k \in 2..Len(c) : c[k] \in Position
      /\ tab \in List
  BY <1>1, LastCursor DEF TypeInv, ClientTyped
<1>4. /\ cs \in Seq(Position \cup {Top}) /\ Len(cs) = Len(c) - 1
      /\ \A k \in 1..(Len(c) - 1) : cs[k] = c[k]
  <2>1. Len(c) >= 1
    BY <1>2, <1>3
  <2> QED
    BY <1>1, <1>3, <2>1, FrontProperties
<1>5. sh \in Seq((SUBSET Email) \ {{}}) /\ Len(sh) = Len(i) - 1
  <2>1. Len(i) >= 1
    BY <1>2, <1>3
  <2> QED
    BY <1>1, <1>3, <2>1, FrontProperties
<1>6. Len(cs) = Len(sh) + 1 /\ cs[1] = Top /\ \A k \in 2..Len(cs) : cs[k] \in Position
  <2>1. 1 \in 1..(Len(c) - 1)
    BY <1>2, <1>3
  <2> QED
    BY <1>2, <1>3, <1>4, <1>5, <2>1
<1> QED
  BY <1>2, <1>3, <1>4, <1>5, <1>6, ClientChanges DEF TypeInv

\* Every step keeps the types.
LEMMA TypeNext == TypeInv /\ [Next]_vars => TypeInv'
<1> SUFFICES ASSUME TypeInv, [Next]_vars PROVE TypeInv'
  OBVIOUS
<1> USE DEF RowsTyped
<1>1. ASSUME NEW e \in Email, NEW t \in Time, schedule(e, t) \/ defer(e, t) \/ settle(e, t) PROVE TypeInv'
  <2>1. PICK l \in List : Move(e, l, t)
    BY <1>1 DEF schedule, defer, settle, List
  <2>2. row' \in [Email -> Row]
    BY <2>1 DEF Move, TypeInv, Row
  <2>3. moved' \subseteq Email /\ moves' \in 0..MaxMoves
    BY <2>1 DEF Move, TypeInv
  <2>4. ClientTyped'
    BY <2>1 DEF Move, client, TypeInv, ClientTyped
  <2> QED
    BY <2>1, <2>2, <2>3, <2>4 DEF Move, client, TypeInv
<1>2. CASE fetch
  <2>1. ActiveKey \in Key /\ ActiveKey[1] = tab /\ ActiveKey[2] = Last(cursors[tab])
    BY LastCursor DEF TypeInv, ActiveKey
  <2>2. Last(cursors[tab]) \in Position \cup {Top}
    BY LastCursor DEF TypeInv
  <2>3. Read(ActiveKey[1], ActiveKey[2]) \in Page
    BY <2>1, <2>2, ReadCorrect DEF TypeInv
  <2>4. answer' \in [Key -> Page \cup {NoPage}]
    BY <1>2, <2>3 DEF fetch, TypeInv
  <2> QED
    BY <1>2, <2>4 DEF fetch, TypeInv, ClientTyped
<1>3. ASSUME NEW k \in Key, Receive(k) \/ Fail(k) \/ Collect(k) PROVE TypeInv'
  <2>1. answer' \in [Key -> Page \cup {NoPage}]
    BY <1>3 DEF Receive, Fail, Collect, TypeInv
  <2>2. cache' \in [Key -> Entry]
    <3>1. [page |-> answer[k], error |-> FALSE] \in Entry /\ NoEntry \in Entry
      BY DEF TypeInv, Entry, NoEntry
    <3>2. CASE Fail(k)
      BY <3>2 DEF Fail, TypeInv, Entry
    <3>3. CASE Receive(k) \/ Collect(k)
      BY <3>1, <3>3 DEF Receive, Collect, TypeInv
    <3> QED
      BY <1>3, <3>2, <3>3
  <2> QED
    BY <1>3, <2>1, <2>2 DEF Receive, Fail, Collect, TypeInv, ClientTyped
<1>4. ASSUME Click PROVE clicks' \in 0..MaxClicks
  BY <1>4 DEF Click, TypeInv
<1>5. CASE switchTab
  BY <1>4, <1>5 DEF switchTab, Click, TypeInv, ClientTyped
<1>6. CASE nextPage
  BY <1>4, <1>6, NextPageType DEF nextPage, Click, TypeInv
<1>7. CASE previousPage
  BY <1>4, <1>7, PreviousPageType DEF previousPage, Click, TypeInv
<1>8. CASE scheduled
  <2>1. PICK cs, sh : cs = <<Top>> /\ sh = <<>>
    OBVIOUS
  <2>2. "scheduled" \in List
    BY DEF List
  <2>3. ClientTyped'
    <3>1. /\ cs \in Seq(Position \cup {Top}) /\ sh \in Seq((SUBSET Email) \ {{}})
          /\ Len(cs) = Len(sh) + 1 /\ cs[1] = Top /\ \A k \in 2..Len(cs) : cs[k] \in Position
      BY <2>1
    <3>2. cursors' = [cursors EXCEPT !["scheduled"] = cs] /\ shown' = [shown EXCEPT !["scheduled"] = sh]
      BY <1>8, <2>1 DEF scheduled
    <3> QED
      BY <2>2, <3>1, <3>2, ClientChanges DEF TypeInv
  <2> QED
    BY <1>4, <1>8, <2>2, <2>3 DEF scheduled, Click, TypeInv
<1>9. CASE Reopen
  <2>1. cursors' = FirstPages /\ shown' = NothingShown
    BY <1>9 DEF Reopen
  <2>2. ClientTyped'
    <3>1. <<Top>> \in Seq(Position \cup {Top}) /\ <<>> \in Seq((SUBSET Email) \ {{}})
          /\ Len(<<Top>>) = 1 /\ <<Top>>[1] = Top /\ Len(<<>>) = 0
      OBVIOUS
    <3> QED
      BY <2>1, <3>1 DEF ClientTyped, FirstPages, NothingShown
  <2>3. cache' \in [Key -> Entry] /\ answer' \in [Key -> Page \cup {NoPage}]
    BY <1>9 DEF Reopen, NoCache, NoAnswers, NoEntry, Entry
  <2> QED
    BY <1>4, <1>9, <2>2, <2>3 DEF Reopen, Click, TypeInv
<1>10. CASE UNCHANGED vars
  BY <1>10 DEF vars, client, TypeInv, ClientTyped
<1> QED
  BY <1>1, <1>2, <1>3, <1>5, <1>6, <1>7, <1>8, <1>9, <1>10 DEF Next

\* The type invariant of the run.
LEMMA TypeInvOK == TypeInv => TypeOK
<1> SUFFICES ASSUME TypeInv, NEW l \in List
             PROVE  /\ cursors[l] # <<>> /\ Head(cursors[l]) = Top
                    /\ Tail(cursors[l]) \in Seq(Position)
                    /\ Len(shown[l]) = Len(cursors[l]) - 1
                    /\ shown[l] \in Seq((SUBSET Email) \ {{}})
  BY DEF TypeInv, TypeOK, RowsTyped, Row
<1>1. PICK c : c = cursors[l]
  OBVIOUS
<1>2. /\ c \in Seq(Position \cup {Top}) /\ Len(c) \in Nat /\ Len(c) >= 1 /\ c[1] = Top
      /\ \A k \in 2..Len(c) : c[k] \in Position
      /\ Len(c) = Len(shown[l]) + 1 /\ Len(shown[l]) \in Nat /\ shown[l] \in Seq((SUBSET Email) \ {{}})
  BY <1>1, LastCursor DEF TypeInv, ClientTyped
<1>3. c # <<>> /\ Head(c) = Top
  BY <1>2
<1>4. Tail(c) = SubSeq(c, 2, Len(c))
  BY <1>2, <1>3, TailIsSubSeq
<1>5. SubSeq(c, 2, Len(c)) \in Seq(Position)
  BY <1>2, SubSeqProperties
<1>6. Len(shown[l]) = Len(c) - 1
  BY <1>2
<1> QED
  BY <1>1, <1>2, <1>3, <1>4, <1>5, <1>6

\* Every reachable state of the dashboard is well typed: in particular each
\* list's cursors begin at the top and no page that was left was empty.
THEOREM TypeCorrect == Spec => []TypeOK
  BY TypeInit, TypeNext, TypeInvOK, PTL DEF Spec

-----------------------------------------------------------------------------
(* The emails that have not moved *)

\* In this step an email of list l that has not moved keeps its place.
Stays(l) == \A e \in Unmoved(l)' : e \in Unmoved(l) /\ PositionOf(e)' = PositionOf(e)

\* Only a page that is opened anew has emails that have not moved and did before.
LEMMA UnmovedStays ==
    ASSUME TypeInv, [Next]_vars, ~Reopen, NEW l \in List
    PROVE  Stays(l)
<1>1. CASE row' = row /\ moved' = moved
  BY <1>1 DEF Stays, Unmoved, Listed, PositionOf
<1>2. ASSUME NEW d \in Email, NEW m \in List, NEW t \in Time, Move(d, m, t) PROVE Stays(l)
  <2>1. ASSUME NEW e \in Email, e \notin moved' PROVE row'[e] = row[e] /\ e \notin moved
    BY <1>2, <2>1 DEF Move, TypeInv, RowsTyped
  <2> QED
    BY <2>1 DEF Stays, Unmoved, Listed, PositionOf
<1>3. ASSUME NEW e \in Email, NEW t \in Time, schedule(e, t) \/ defer(e, t) \/ settle(e, t)
      PROVE  \E m \in List : Move(e, m, t)
  BY <1>3 DEF schedule, defer, settle, List
<1>4. ASSUME NEW k \in Key, Receive(k) \/ Fail(k) \/ Collect(k) PROVE row' = row /\ moved' = moved
  BY <1>4 DEF Receive, Fail, Collect
<1>5. CASE fetch \/ UNCHANGED vars
  BY <1>1, <1>5 DEF fetch, vars
<1>6. CASE switchTab \/ nextPage \/ previousPage \/ scheduled
  BY <1>1, <1>6 DEF switchTab, nextPage, previousPage, scheduled, Click
<1> QED
  BY <1>1, <1>2, <1>3, <1>4, <1>5, <1>6 DEF Next

\* What is a page stays one while its emails keep their places.
LEMMA WellReadStays ==
    ASSUME NEW l, Stays(l), NEW c, NEW items, NEW n, WellRead(l, c, items, n)
    PROVE  WellRead(l, c, items, n)'
<1>1. ASSUME NEW e \in Unmoved(l)', NEW d PROVE e \in Unmoved(l) /\ (Follows(l, e, d)' <=> Follows(l, e, d))
  BY DEF Stays, Follows
<1> QED
  BY <1>1 DEF WellRead

-----------------------------------------------------------------------------
(* The pages that the client has *)

\* Each answer is a page of its own key, on its way and in the cache.
KeysInv ==
    \A k \in Key : \A p \in {cache[k].page, answer[k]} :
        p # NoPage => WellRead(k[1], k[2], p.items, p.next)

\* Steps that change neither cache nor answers keep the pages what they are.
LEMMA KeysStay ==
    ASSUME KeysInv, \A l \in List : Stays(l), cache' = cache, answer' = answer
    PROVE  KeysInv'
<1> SUFFICES ASSUME NEW k \in Key, NEW p \in {cache'[k].page, answer'[k]}, p # NoPage
             PROVE  WellRead(k[1], k[2], p.items, p.next)'
  BY DEF KeysInv
<1>1. WellRead(k[1], k[2], p.items, p.next) /\ k[1] \in List
  BY DEF KeysInv, Key
<1>2. PICK l, c, i, n : l = k[1] /\ c = k[2] /\ i = p.items /\ n = p.next
  OBVIOUS
<1>3. WellRead(l, c, i, n)'
  BY <1>1, <1>2, WellReadStays
<1> QED
  BY <1>2, <1>3

\* Every step keeps the pages what they are.
LEMMA KeysNext == TypeInv /\ KeysInv /\ [Next]_vars => KeysInv'
<1> SUFFICES ASSUME TypeInv, KeysInv, [Next]_vars PROVE KeysInv'
  OBVIOUS
<1>1. CASE Reopen
  <2>1. cache' = NoCache /\ answer' = NoAnswers
    BY <1>1 DEF Reopen
  <2>2. \A k \in Key : cache'[k].page = NoPage /\ answer'[k] = NoPage
    BY <2>1 DEF NoCache, NoAnswers, NoEntry
  <2> QED
    BY <2>2 DEF KeysInv
<1>2. ASSUME ~Reopen PROVE \A l \in List : Stays(l)
  BY <1>2, UnmovedStays
<1>3. ASSUME ~Reopen, NEW k \in Key, NEW p,
             p # NoPage => p \in {cache[k].page, answer[k]} \/ WellRead(k[1], k[2], p.items, p.next),
             p # NoPage
      PROVE  WellRead(k[1], k[2], p.items, p.next)'
  <2>1. WellRead(k[1], k[2], p.items, p.next) /\ k[1] \in List
    BY <1>3 DEF KeysInv, Key
  <2>2. PICK l, c, i, n : l = k[1] /\ c = k[2] /\ i = p.items /\ n = p.next
    OBVIOUS
  <2>3. WellRead(l, c, i, n)'
    BY <1>2, <1>3, <2>1, <2>2, WellReadStays
  <2> QED
    BY <2>2, <2>3
<1>4. ASSUME ~Reopen, NEW e \in Email, NEW t \in Time, schedule(e, t) \/ defer(e, t) \/ settle(e, t)
      PROVE  KeysInv'
  <2>1. cache' = cache /\ answer' = answer
    BY <1>4 DEF schedule, defer, settle, Move, client
  <2> QED
    BY <1>2, <1>4, <2>1, KeysStay
<1>5. CASE ~Reopen /\ fetch
  <2>1. ActiveKey \in Key /\ ActiveKey[1] = tab /\ ActiveKey[2] = Last(cursors[tab])
    BY LastCursor DEF TypeInv, ActiveKey
  <2>2. PICK r : r = Read(ActiveKey[1], ActiveKey[2])
    OBVIOUS
  <2>3. WellRead(ActiveKey[1], ActiveKey[2], r.items, r.next)
    BY <2>1, <2>2, LastCursor, ReadCorrect DEF TypeInv
  <2>4. ASSUME NEW k \in Key, NEW p \in {cache'[k].page, answer'[k]}
        PROVE  p \in {cache[k].page, answer[k]} \/ WellRead(k[1], k[2], p.items, p.next)
    <3>1. cache' = cache /\ (k # ActiveKey => answer'[k] = answer[k]) /\ answer'[ActiveKey] = r
      BY <1>5, <2>1, <2>2 DEF fetch, TypeInv
    <3> QED
      BY <2>3, <2>4, <3>1
  <2> QED
    BY <1>3, <1>5, <2>4 DEF KeysInv
<1>6. ASSUME ~Reopen, NEW h \in Key, Receive(h) \/ Fail(h) \/ Collect(h) PROVE KeysInv'
  <2>1. ASSUME NEW k \in Key, NEW p \in {cache'[k].page, answer'[k]}, p # NoPage
        PROVE  p \in {cache[k].page, answer[k]}
    <3>1. answer'[k] \in {answer[k], NoPage}
      BY <1>6 DEF Receive, Fail, Collect, TypeInv
    <3>2. cache'[k].page \in {cache[k].page, answer[k], NoPage}
      BY <1>6 DEF Receive, Fail, Collect, TypeInv, Entry, NoEntry
    <3> QED
      BY <2>1, <3>1, <3>2
  <2> QED
    BY <1>3, <1>6, <2>1 DEF KeysInv
<1>7. CASE ~Reopen /\ (switchTab \/ nextPage \/ previousPage \/ scheduled)
  <2>1. cache' = cache /\ answer' = answer
    BY <1>7 DEF switchTab, nextPage, previousPage, scheduled
  <2> QED
    BY <1>2, <1>7, <2>1, KeysStay
<1>8. CASE ~Reopen /\ UNCHANGED vars
  BY <1>2, <1>8, KeysStay DEF vars, client
<1> QED
  BY <1>1, <1>4, <1>5, <1>6, <1>7, <1>8 DEF Next

-----------------------------------------------------------------------------
(* The walk *)

\* Cursors cs and the pages sh that were left under all but the last of them: a
\* page holds what follows its cursor and no later one, and an email that does
\* not follow a cursor is on an earlier page.
WalkOK(l, cs, sh) ==
    \A e \in Unmoved(l) :
        /\ \A n \in 1..Len(sh) :
             e \in sh[n] => /\ Follows(l, e, cs[n])
                            /\ \A k \in (n + 1)..Len(cs) : ~Follows(l, e, cs[k])
        /\ \A k \in 1..Len(cs) : Follows(l, e, cs[k]) \/ \E n \in 1..(k - 1) : e \in sh[n]

WalkInv == \A l \in List : WalkOK(l, cursors[l], shown[l])

\* A walk at its first page is one.
LEMMA WalkStart ==
    ASSUME NEW l
    PROVE  WalkOK(l, <<Top>>, <<>>) /\ WalkOK(l, <<Top>>, <<>>)'
<1>1. Len(<<Top>>) = 1 /\ Len(<<>>) = 0 /\ <<Top>>[1] = Top
  OBVIOUS
<1> QED
  BY <1>1 DEF WalkOK, Follows

\* A walk stays one while its emails keep their places.
LEMMA WalkStays ==
    ASSUME NEW l, Stays(l), NEW cs, NEW sh, WalkOK(l, cs, sh)
    PROVE  WalkOK(l, cs, sh)'
<1>1. ASSUME NEW e \in Unmoved(l)', NEW d PROVE e \in Unmoved(l) /\ (Follows(l, e, d)' <=> Follows(l, e, d))
  BY DEF Stays, Follows
<1> QED
  BY <1>1 DEF WalkOK

\* A walk that goes back is one.
LEMMA WalkBack ==
    ASSUME NEW l, NEW cs, NEW sh, WalkOK(l, cs, sh), Len(cs) \in Nat, Len(sh) \in Nat,
           NEW ds, NEW th, Len(ds) = Len(cs) - 1, Len(th) = Len(sh) - 1, Len(cs) = Len(sh) + 1,
           \A k \in 1..Len(ds) : ds[k] = cs[k], \A k \in 1..Len(th) : th[k] = sh[k]
    PROVE  WalkOK(l, ds, th)
<1>1. ASSUME NEW e \in Unmoved(l), NEW n \in 1..Len(th), e \in th[n]
      PROVE  Follows(l, e, ds[n]) /\ \A k \in (n + 1)..Len(ds) : ~Follows(l, e, ds[k])
  BY <1>1 DEF WalkOK
<1>2. ASSUME NEW e \in Unmoved(l), NEW k \in 1..Len(ds), ~Follows(l, e, ds[k])
      PROVE  \E n \in 1..(k - 1) : e \in th[n]
  <2>1. PICK n \in 1..(k - 1) : e \in sh[n]
    BY <1>2 DEF WalkOK
  <2> QED
    BY <2>1
<1> QED
  BY <1>1, <1>2 DEF WalkOK

\* A walk that goes on with a page of its last cursor is one.
LEMMA WalkOn ==
    ASSUME RowsTyped, NEW l, NEW cs, NEW sh, WalkOK(l, cs, sh), Len(cs) \in Nat, Len(sh) \in Nat,
           Len(cs) = Len(sh) + 1, \A k \in 1..Len(cs) : cs[k] \in Position \cup {Top},
           NEW last, last = cs[Len(cs)], NEW items, NEW n \in Position, WellRead(l, last, items, n),
           NEW ds, NEW th, Len(ds) = Len(cs) + 1, Len(th) = Len(sh) + 1,
           \A k \in 1..Len(cs) : ds[k] = cs[k], ds[Len(cs) + 1] = n,
           \A k \in 1..Len(sh) : th[k] = sh[k], th[Len(sh) + 1] = items
    PROVE  WalkOK(l, ds, th)
<1>1. last \in Position \cup {Top} /\ n # Top /\ n # End
  BY CursorAssumption DEF Position
<1>2. ASSUME NEW e \in Unmoved(l), ~Follows(l, e, last) PROVE ~Follows(l, e, n)
  <2>1. e \in Email /\ last # Top /\ last \in Position /\ PositionOf(e) \in Position
    BY <1>1, <1>2, PositionType DEF Unmoved, Listed, Follows
  <2>2. Precedes(l, last, n)
    BY <1>1, <2>1 DEF WellRead
  <2> QED
    BY <1>1, <1>2, <2>1, <2>2, PrecedesTransitive DEF Follows
<1>3. ASSUME NEW e \in Unmoved(l), NEW m \in 1..Len(th), e \in th[m]
      PROVE  Follows(l, e, ds[m]) /\ \A k \in (m + 1)..Len(ds) : ~Follows(l, e, ds[k])
  <2>1. CASE m = Len(th)
    <3>1. e \in items /\ ds[m] = last
      BY <1>3, <2>1
    <3>2. Follows(l, e, last) /\ ~Follows(l, e, n)
      BY <1>1, <3>1 DEF WellRead
    <3>3. \A k \in (m + 1)..Len(ds) : ds[k] = n
      BY <2>1
    <3> QED
      BY <3>1, <3>2, <3>3
  <2>2. CASE m # Len(th)
    <3>1. m \in 1..Len(sh) /\ e \in sh[m] /\ ds[m] = cs[m]
      BY <1>3, <2>2
    <3>2. Follows(l, e, cs[m]) /\ \A k \in (m + 1)..Len(cs) : ~Follows(l, e, cs[k])
      BY <3>1 DEF WalkOK
    <3>3. ~Follows(l, e, n)
      BY <1>2, <3>1, <3>2
    <3>4. \A k \in (m + 1)..Len(ds) : (k \in (m + 1)..Len(cs) /\ ds[k] = cs[k]) \/ ds[k] = n
      BY <3>1
    <3> QED
      BY <3>1, <3>2, <3>3, <3>4
  <2> QED
    BY <2>1, <2>2
<1>4. ASSUME NEW e \in Unmoved(l), NEW k \in 1..Len(ds), ~Follows(l, e, ds[k])
      PROVE  \E m \in 1..(k - 1) : e \in th[m]
  <2>1. ASSUME NEW j \in 1..Len(cs), ~Follows(l, e, cs[j]) PROVE \E m \in 1..(j - 1) : e \in th[m]
    <3>1. PICK m \in 1..(j - 1) : e \in sh[m]
      BY <2>1 DEF WalkOK
    <3> QED
      BY <3>1
  <2>2. CASE k \in 1..Len(cs)
    BY <1>4, <2>1, <2>2
  <2>3. CASE k = Len(ds)
    <3>1. e \in items \/ ~Follows(l, e, last)
      BY <1>4, <2>3 DEF WellRead
    <3>2. CASE e \in items
      BY <2>3, <3>2
    <3>3. CASE ~Follows(l, e, last)
      BY <2>1, <2>3, <3>3
    <3> QED
      BY <3>1, <3>2, <3>3
  <2> QED
    BY <2>2, <2>3
<1> QED
  BY <1>3, <1>4 DEF WalkOK

\* Next takes a walk on by the page in the cache.
LEMMA WalkNextPage ==
    ASSUME TypeInv, KeysInv, WalkInv, nextPage
    PROVE  WalkOK(tab, cursors'[tab], shown'[tab])
<1>1. PICK p \in Page :
        /\ p = cache[ActiveKey].page /\ p # NoPage /\ p.next \in Position
        /\ cursors' = [cursors EXCEPT ![tab] = Append(cursors[tab], p.next)]
        /\ shown' = [shown EXCEPT ![tab] = Append(shown[tab], p.items)]
  BY NextPageStep
<1>2. PICK c, i, last, items, n, ds, th :
        /\ c = cursors[tab] /\ i = shown[tab] /\ last = Last(cursors[tab]) /\ items = p.items /\ n = p.next
        /\ ds = Append(c, n) /\ th = Append(i, items)
  OBVIOUS
<1>3. /\ c \in Seq(Position \cup {Top}) /\ i \in Seq((SUBSET Email) \ {{}})
      /\ Len(c) = Len(i) + 1 /\ Len(c) \in Nat /\ Len(i) \in Nat /\ Len(c) >= 1
      /\ last = c[Len(c)] /\ ActiveKey \in Key /\ ActiveKey[1] = tab /\ ActiveKey[2] = last
      /\ tab \in List
  BY <1>2, LastCursor DEF TypeInv, ActiveKey
<1>4. WellRead(tab, last, items, n) /\ WalkOK(tab, c, i)
  BY <1>1, <1>2, <1>3 DEF KeysInv, WalkInv
<1>5. cursors'[tab] = ds /\ shown'[tab] = th
  BY <1>1, <1>2, <1>3 DEF TypeInv, ClientTyped
<1>6. n \in Position \cup {Top} /\ \A k \in 1..Len(c) : c[k] \in Position \cup {Top}
  BY <1>1, <1>2, <1>3
<1>7. Len(ds) = Len(c) + 1 /\ (\A k \in 1..Len(c) : ds[k] = c[k]) /\ ds[Len(c) + 1] = n
  BY <1>2, <1>3, <1>6, AppendProperties
<1>8. Len(th) = Len(i) + 1 /\ (\A k \in 1..Len(i) : th[k] = i[k]) /\ th[Len(i) + 1] = items
  <2>1. i \in Seq(SUBSET Email) /\ items \in SUBSET Email
    BY <1>1, <1>2, <1>3 DEF Page
  <2> QED
    BY <1>2, <2>1, AppendProperties
<1>9. n \in Position
  BY <1>1, <1>2
<1>10. RowsTyped
  BY DEF TypeInv
<1>11. WalkOK(tab, ds, th)
  <2>1. PICK l : l = tab
    OBVIOUS
  <2>2. WalkOK(l, c, i) /\ WellRead(l, last, items, n)
    BY <1>4, <2>1
  <2>3. Len(c) \in Nat /\ Len(i) \in Nat /\ Len(c) = Len(i) + 1 /\ last = c[Len(c)]
    BY <1>3
  <2>4. WalkOK(l, ds, th)
    BY <1>6, <1>7, <1>8, <1>9, <1>10, <2>2, <2>3, WalkOn
  <2> QED
    BY <2>1, <2>4
<1> QED
  BY <1>5, <1>11

\* Back takes it back by one page.
LEMMA WalkPreviousPage ==
    ASSUME TypeInv, WalkInv, previousPage
    PROVE  WalkOK(tab, cursors'[tab], shown'[tab])
<1>1. PICK c, i, ds, th : c = cursors[tab] /\ i = shown[tab] /\ ds = Front(c) /\ th = Front(i)
  OBVIOUS
<1>2. /\ c \in Seq(Position \cup {Top}) /\ i \in Seq((SUBSET Email) \ {{}})
      /\ Len(c) = Len(i) + 1 /\ Len(c) \in Nat /\ Len(i) \in Nat /\ tab \in List
  BY <1>1, LastCursor DEF TypeInv
<1>3. /\ cursors' = [cursors EXCEPT ![tab] = ds] /\ shown' = [shown EXCEPT ![tab] = th]
      /\ Len(c) >= 1 /\ Len(i) >= 1
  BY <1>1, <1>2 DEF previousPage
<1>4. cursors'[tab] = ds /\ shown'[tab] = th
  BY <1>2, <1>3 DEF TypeInv, ClientTyped
<1>5. Len(ds) = Len(c) - 1 /\ \A k \in 1..(Len(c) - 1) : ds[k] = c[k]
  BY <1>1, <1>2, <1>3, FrontProperties
<1>6. Len(th) = Len(i) - 1 /\ \A k \in 1..(Len(i) - 1) : th[k] = i[k]
  BY <1>1, <1>2, <1>3, FrontProperties
<1>7. WalkOK(tab, c, i)
  BY <1>1, <1>2 DEF WalkInv
<1> QED
  BY <1>2, <1>4, <1>5, <1>6, <1>7, WalkBack

\* Every step keeps the walks what they are.
LEMMA WalkNext == TypeInv /\ KeysInv /\ WalkInv /\ [Next]_vars => WalkInv'
<1> SUFFICES ASSUME TypeInv, KeysInv, WalkInv, [Next]_vars, NEW l \in List
             PROVE  WalkOK(l, cursors[l], shown[l])'
  BY DEF WalkInv
<1>1. CASE Reopen
  <2>1. cursors'[l] = <<Top>> /\ shown'[l] = <<>>
    BY <1>1 DEF Reopen, FirstPages, NothingShown
  <2> QED
    BY <2>1, WalkStart
<1>2. ASSUME ~Reopen, WalkOK(l, cursors'[l], shown'[l]) PROVE WalkOK(l, cursors[l], shown[l])'
  <2>1. PICK cs, sh : cs = cursors'[l] /\ sh = shown'[l]
    OBVIOUS
  <2>2. Stays(l)
    BY <1>2, UnmovedStays
  <2>3. WalkOK(l, cs, sh)'
    BY <1>2, <2>1, <2>2, WalkStays
  <2> QED
    BY <2>1, <2>3
<1>3. ASSUME ~Reopen, cursors'[l] = cursors[l], shown'[l] = shown[l]
      PROVE  WalkOK(l, cursors[l], shown[l])'
  BY <1>2, <1>3 DEF WalkInv
<1>4. ASSUME ~Reopen, NEW e \in Email, NEW t \in Time, schedule(e, t) \/ defer(e, t) \/ settle(e, t)
      PROVE  WalkOK(l, cursors[l], shown[l])'
  BY <1>3, <1>4 DEF schedule, defer, settle, Move, client
<1>5. ASSUME ~Reopen, NEW k \in Key, Receive(k) \/ Fail(k) \/ Collect(k)
      PROVE  WalkOK(l, cursors[l], shown[l])'
  BY <1>3, <1>5 DEF Receive, Fail, Collect
<1>6. CASE ~Reopen /\ (fetch \/ switchTab \/ UNCHANGED vars)
  BY <1>3, <1>6 DEF fetch, switchTab, vars, client
<1>7. CASE ~Reopen /\ (nextPage \/ previousPage)
  <2>1. CASE l = tab
    BY <1>2, <1>7, <2>1, WalkNextPage, WalkPreviousPage
  <2>2. CASE l # tab
    <3>1. cursors'[l] = cursors[l] /\ shown'[l] = shown[l]
      BY <1>7, <2>2 DEF nextPage, previousPage, TypeInv, ClientTyped
    <3> QED
      BY <1>3, <1>7, <3>1
  <2> QED
    BY <2>1, <2>2
<1>8. CASE ~Reopen /\ scheduled
  <2>1. CASE l = "scheduled"
    <3>1. cursors'[l] = <<Top>> /\ shown'[l] = <<>>
      BY <1>8, <2>1 DEF scheduled, TypeInv, ClientTyped
    <3> QED
      BY <3>1, WalkStart
  <2>2. CASE l # "scheduled"
    <3>1. cursors'[l] = cursors[l] /\ shown'[l] = shown[l]
      BY <1>8, <2>2 DEF scheduled, TypeInv, ClientTyped
    <3> QED
      BY <1>3, <1>8, <3>1
  <2> QED
    BY <2>1, <2>2
<1> QED
  BY <1>1, <1>4, <1>5, <1>6, <1>7, <1>8 DEF Next

-----------------------------------------------------------------------------
(* No email is skipped, none repeated *)

PagesInv == TypeInv /\ KeysInv /\ WalkInv

\* The inductive invariant holds initially and in every step.
LEMMA PagesInvariant == Spec => []PagesInv
<1>1. Init => PagesInv
  <2> SUFFICES ASSUME Init PROVE KeysInv /\ WalkInv
    BY TypeInit DEF PagesInv
  <2>1. \A k \in Key : cache[k].page = NoPage /\ answer[k] = NoPage
    BY DEF Init, NoCache, NoAnswers, NoEntry
  <2>2. \A l \in List : cursors[l] = <<Top>> /\ shown[l] = <<>>
    BY DEF Init, FirstPages, NothingShown
  <2> QED
    BY <2>1, <2>2, WalkStart DEF KeysInv, WalkInv
<1>2. PagesInv /\ [Next]_vars => PagesInv'
  BY TypeNext, KeysNext, WalkNext DEF PagesInv
<1> QED
  BY <1>1, <1>2, PTL DEF Spec

\* The pages of a walk, the one in the cache included, and where it goes on.
LEMMA WalkPages ==
    ASSUME PagesInv, NEW l \in List, NEW e \in Unmoved(l)
    PROVE  /\ DOMAIN Walk(l) = 1..Len(Walk(l)) /\ Len(Walk(l)) \in Nat
           /\ \A n, m \in DOMAIN Walk(l) : e \in Walk(l)[n] /\ e \in Walk(l)[m] => n = m
           /\ (\E n \in DOMAIN Walk(l) : e \in Walk(l)[n]) <=> Ahead(l) = End \/ ~Follows(l, e, Ahead(l))
<1>1. PICK c, sh, last, page : c = cursors[l] /\ sh = shown[l] /\ last = Last(cursors[l])
                               /\ page = cache[<<l, Last(cursors[l])>>].page
  OBVIOUS
<1>2. /\ sh \in Seq((SUBSET Email) \ {{}}) /\ Len(c) = Len(sh) + 1 /\ Len(c) \in Nat /\ Len(sh) \in Nat
      /\ Len(c) >= 1 /\ last = c[Len(c)] /\ last \in Position \cup {Top} /\ <<l, last>> \in Key
  BY <1>1, LastCursor DEF PagesInv, TypeInv
<1>3. WalkOK(l, c, sh)
  BY <1>1 DEF PagesInv, WalkInv
<1>4. /\ \A n \in 1..Len(sh) : e \in sh[n] => Follows(l, e, c[n]) /\ ~Follows(l, e, last)
      /\ \A n, m \in 1..Len(sh) : e \in sh[n] /\ n < m => ~Follows(l, e, c[m])
      /\ Follows(l, e, last) \/ \E n \in 1..Len(sh) : e \in sh[n]
  <2>1. ASSUME NEW n \in 1..Len(sh), e \in sh[n] PROVE Follows(l, e, c[n]) /\ ~Follows(l, e, last)
    <3>1. Len(c) \in (n + 1)..Len(c)
      BY <1>2
    <3> QED
      BY <1>2, <1>3, <2>1, <3>1 DEF WalkOK
  <2>2. ASSUME NEW n \in 1..Len(sh), NEW m \in 1..Len(sh), e \in sh[n], n < m PROVE ~Follows(l, e, c[m])
    <3>1. m \in (n + 1)..Len(c)
      BY <1>2, <2>2
    <3> QED
      BY <1>3, <2>2, <3>1 DEF WalkOK
  <2>3. Follows(l, e, last) \/ \E n \in 1..Len(sh) : e \in sh[n]
    <3>1. Len(c) \in 1..Len(c) /\ Len(c) - 1 = Len(sh)
      BY <1>2
    <3> QED
      BY <1>2, <1>3, <3>1 DEF WalkOK
  <2> QED
    BY <2>1, <2>2, <2>3
<1>5. \A n, m \in 1..Len(sh) : e \in sh[n] /\ e \in sh[m] => n = m
  BY <1>4
<1>6. CASE page = NoPage
  <2>1. Walk(l) = sh /\ Ahead(l) = last
    BY <1>1, <1>6 DEF Walk, Ahead
  <2>2. DOMAIN sh = 1..Len(sh) /\ last # End
    BY <1>2, CursorAssumption DEF Position
  <2> QED
    BY <1>2, <1>4, <1>5, <2>1, <2>2
<1>7. CASE page # NoPage
  <2>1. PICK items, n, w : items = page.items /\ n = page.next /\ w = Append(sh, page.items)
    OBVIOUS
  <2>2. Walk(l) = w /\ Ahead(l) = n
    BY <1>1, <1>7, <2>1 DEF Walk, Ahead
  <2>3. page \in Page
    BY <1>1, <1>2, <1>7 DEF PagesInv, TypeInv, Entry
  <2>4. /\ DOMAIN w = 1..(Len(sh) + 1) /\ Len(w) = Len(sh) + 1
        /\ (\A k \in 1..Len(sh) : w[k] = sh[k]) /\ w[Len(sh) + 1] = items
    <3>1. sh \in Seq(SUBSET Email) /\ items \in SUBSET Email
      BY <1>2, <2>1, <2>3 DEF Page
    <3>2. w \in Seq(SUBSET Email)
      BY <2>1, <3>1, AppendProperties
    <3> QED
      BY <2>1, <3>1, <3>2, AppendProperties
  <2>5. WellRead(l, last, items, n)
    <3>1. <<l, last>>[1] = l /\ <<l, last>>[2] = last
      OBVIOUS
    <3> QED
      BY <1>1, <1>2, <1>7, <2>1, <3>1 DEF PagesInv, KeysInv
  <2>6. e \in items <=> Follows(l, e, last) /\ (n = End \/ ~Follows(l, e, n))
    BY <2>5 DEF WellRead
  <2>7. ~Follows(l, e, last) => n = End \/ ~Follows(l, e, n)
    <3>1. SUFFICES ASSUME ~Follows(l, e, last), n # End PROVE ~Follows(l, e, n)
      OBVIOUS
    <3>2. e \in Email /\ last # Top /\ last \in Position /\ n \in Position /\ n # Top
      BY <1>2, <2>1, <2>3, <3>1, CursorAssumption DEF Unmoved, Listed, Follows, Page, Position
    <3>3. PositionOf(e) \in Position /\ Precedes(l, last, n)
      BY <2>5, <3>1, <3>2, PositionType DEF WellRead, PagesInv, TypeInv
    <3> QED
      BY <3>1, <3>2, <3>3, PrecedesTransitive DEF Follows
  <2>8. \A k, m \in 1..(Len(sh) + 1) : e \in w[k] /\ e \in w[m] => k = m
    <3>1. ASSUME NEW k \in 1..(Len(sh) + 1), e \in w[k], e \in items PROVE k = Len(sh) + 1
      BY <1>2, <1>4, <2>4, <2>6, <3>1
    <3>2. \A k \in 1..(Len(sh) + 1) : k \in 1..Len(sh) \/ k = Len(sh) + 1
      BY <1>2
    <3> QED
      BY <1>5, <2>4, <3>1, <3>2
  <2>9. (\E k \in 1..(Len(sh) + 1) : e \in w[k]) <=> n = End \/ ~Follows(l, e, n)
    <3>1. (\E k \in 1..(Len(sh) + 1) : e \in w[k]) <=> e \in items \/ \E k \in 1..Len(sh) : e \in sh[k]
      BY <1>2, <2>4
    <3> QED
      BY <1>4, <2>6, <2>7, <3>1
  <2> QED
    BY <1>2, <2>2, <2>4, <2>8, <2>9
<1> QED
  BY <1>6, <1>7

\* However old the pages of a walk are, an email that has not moved is on one of
\* them or still ahead.
THEOREM NothingSkippedCorrect == Spec => []NothingSkipped
<1>1. PagesInv => NothingSkipped
  BY WalkPages DEF NothingSkipped
<1> QED
  BY <1>1, PagesInvariant, PTL

\* It is on no two of them, nor ahead when it was on one.
THEOREM NothingRepeatedCorrect == Spec => []NothingRepeated
<1>1. ASSUME PagesInv, NEW l \in List, NEW e \in Unmoved(l),
             NEW on, on = {n \in DOMAIN Walk(l) : e \in Walk(l)[n]}
      PROVE  Cardinality(on) <= 1 /\ (on # {} => Ahead(l) = End \/ ~Follows(l, e, Ahead(l)))
  <2>1. on = {} \/ \E n \in on : on = {n}
    BY <1>1, WalkPages
  <2>2. Cardinality(on) <= 1
    <3>1. CASE on = {}
      BY <3>1, FS_EmptySet
    <3>2. ASSUME NEW n, on = {n} PROVE Cardinality(on) <= 1
      <4>1. Cardinality({n}) = 1
        BY FS_Singleton
      <4> QED
        BY <3>2, <4>1
    <3> QED
      BY <2>1, <3>1, <3>2
  <2>3. on # {} => Ahead(l) = End \/ ~Follows(l, e, Ahead(l))
    BY <1>1, WalkPages
  <2> QED
    BY <2>2, <2>3
<1>2. PagesInv => NothingRepeated
  BY <1>1 DEF NothingRepeated
<1> QED
  BY <1>2, PagesInvariant, PTL
=============================================================================

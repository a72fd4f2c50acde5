------------------------- MODULE LeadUpload_proofs -------------------------
(***************************************************************************)
(* Proofs about the loop of parseLeadFile, for any files, any limits and   *)
(* any addresses.                                                          *)
(***************************************************************************)
EXTENDS LeadUpload, FiniteSetTheorems, SequenceTheorems, WellFoundedInduction, TLAPS

-----------------------------------------------------------------------------
(* Induction and recursion over the positions of a sequence *)

\* Induction up to N, over a set.
LEMMA InductionTo ==
    ASSUME NEW N \in Nat, NEW T, 0 \in T, \A n \in 1..N : n - 1 \in T => n \in T
    PROVE  \A n \in 0..N : n \in T
<1> SUFFICES ASSUME NEW m \in 0..N, m \notin T PROVE FALSE
  OBVIOUS
<1>1. PICK R : R = StrictSubsetOrdering(1..N)
  OBVIOUS
<1>2. PICK F : F = FiniteSubsetsOf(1..N)
  OBVIOUS
<1>3. PICK U : U = {1..n : n \in (0..N) \ T}
  OBVIOUS
<1>4. IsWellFoundedOn(R, F)
  BY <1>1, <1>2, FS_StrictSubsetOrderingWellFounded
<1>5. U \subseteq F
  <2>1. ASSUME NEW n \in 0..N PROVE IsFiniteSet(1..n) /\ 1..n \subseteq 1..N
    BY FS_Interval
  <2> QED
    BY <1>2, <1>3, <2>1 DEF FiniteSubsetsOf
<1>6. U # {}
  BY <1>3
<1>7. PICK x \in U : \A y \in U : <<y, x>> \notin R
  BY <1>4, <1>5, <1>6, WFMin
<1>8. PICK n \in (0..N) \ T : x = 1..n
  BY <1>3, <1>7
<1>9. n \in 1..N /\ n - 1 \in 0..N /\ n - 1 \notin T
  BY <1>8
<1>10. 1..(n - 1) \in U /\ 1..(n - 1) \subseteq 1..n /\ 1..(n - 1) # 1..n
  BY <1>3, <1>9
<1>11. <<1..(n - 1), 1..n>> \in StrictSubsetOrdering(1..N)
  BY <1>9, <1>10 DEF StrictSubsetOrdering
<1> QED
  BY <1>1, <1>7, <1>8, <1>10, <1>11

\* g is the result of each of the steps h up to the m-th, from x on.
Upto(m, g, x, h) == g[0] = x /\ \A n \in 1..m : g[n] = h[<<g[n - 1], n>>]

\* A recursion over 1..N that stays in X has a result for each step.
LEMMA RecursionTo ==
    ASSUME NEW N \in Nat, NEW X, NEW x \in X, NEW h \in [X \X (1..N) -> X]
    PROVE  \E g \in [0..N -> X] : Upto(N, g, x, h)
<1>0. PICK T : T = {m \in 0..N : \E g \in [0..m -> X] : Upto(m, g, x, h)}
  OBVIOUS
<1>1. 0 \in T
  <2>1. PICK f : f = [n \in 0..0 |-> x]
    OBVIOUS
  <2>2. f \in [0..0 -> X] /\ f[0] = x
    BY <2>1
  <2> QED
    BY <1>0, <2>2 DEF Upto
<1>2. ASSUME NEW n \in 1..N, n - 1 \in T PROVE n \in T
  <2>1. PICK g \in [0..(n - 1) -> X] : Upto(n - 1, g, x, h)
    BY <1>0, <1>2
  <2>2. PICK f : f = [k \in 0..n |-> IF k = n THEN h[<<g[n - 1], n>>] ELSE g[k]]
    OBVIOUS
  <2>3. g[n - 1] \in X /\ h[<<g[n - 1], n>>] \in X
    <3>1. n - 1 \in 0..(n - 1)
      OBVIOUS
    <3>2. g[n - 1] \in X
      BY <3>1
    <3> QED
      BY <3>2
  <2>4. f \in [0..n -> X] /\ (\A k \in 0..(n - 1) : f[k] = g[k]) /\ f[n] = h[<<g[n - 1], n>>]
    BY <2>2, <2>3
  <2>5. ASSUME NEW k \in 1..n PROVE f[k] = h[<<f[k - 1], k>>]
    <3>1. f[k - 1] = g[k - 1]
      BY <2>4
    <3>2. CASE k = n
      BY <2>4, <3>1, <3>2
    <3>3. CASE k # n
      <4>1. k \in 1..(n - 1) /\ k \in 0..(n - 1)
        BY <3>3
      <4>2. g[k] = h[<<g[k - 1], k>>]
        BY <2>1, <4>1 DEF Upto
      <4> QED
        BY <2>4, <3>1, <4>1, <4>2
    <3> QED
      BY <3>2, <3>3
  <2>6. f[0] = x
    BY <2>1, <2>4 DEF Upto
  <2>7. Upto(n, f, x, h)
    BY <2>5, <2>6 DEF Upto
  <2> QED
    BY <1>0, <2>4, <2>7
<1>3. N \in T
  BY <1>1, <1>2, InductionTo
<1> QED
  BY <1>0, <1>3

\* g[n] is what Without keeps of the first n elements.
Keeps(g, s, D) ==
    /\ g[0] = <<>>
    /\ \A n \in 1..Len(s) : g[n] = IF s[n] \in D THEN g[n - 1] ELSE Append(g[n - 1], s[n])

\* What Without keeps, element by element.
LEMMA WithoutSteps ==
    ASSUME NEW S, NEW s \in Seq(S), NEW D
    PROVE  \E g \in [0..Len(s) -> Seq(S)] : Keeps(g, s, D) /\ Without(s, D) = g[Len(s)]
<1>1. PICK N \in Nat : N = Len(s)
  OBVIOUS
<1>2. PICK X, e : X = Seq(S) /\ e = <<>>
  OBVIOUS
<1>3. e \in X /\ \A q \in X, n \in 1..N : Append(q, s[n]) \in X
  <2>1. \A n \in 1..N : s[n] \in S
    BY <1>1
  <2> QED
    BY <1>2, <2>1, AppendProperties
<1>4. PICK h : h = [p \in X \X (1..N) |-> IF s[p[2]] \in D THEN p[1] ELSE Append(p[1], s[p[2]])]
  OBVIOUS
<1>5. h \in [X \X (1..N) -> X]
  BY <1>3, <1>4
<1>6. PICK g \in [0..N -> X] : Upto(N, g, e, h)
  <2>1. e \in X
    BY <1>3
  <2> QED
    BY <1>1, <1>5, <2>1, RecursionTo
<1>7. ASSUME NEW n \in 1..N PROVE g[n] = IF s[n] \in D THEN g[n - 1] ELSE Append(g[n - 1], s[n])
  <2>1. <<g[n - 1], n>> \in X \X (1..N)
    BY <1>1, <1>6
  <2> QED
    BY <1>4, <1>6, <2>1 DEF Upto
<1>8. g = [n \in 0..N |-> IF n = 0 THEN e ELSE IF s[n] \in D THEN g[n - 1] ELSE Append(g[n - 1], s[n])]
  <2>1. PICK f : f = [n \in 0..N |-> IF n = 0 THEN e ELSE IF s[n] \in D THEN g[n - 1] ELSE Append(g[n - 1], s[n])]
    OBVIOUS
  <2>2. ASSUME NEW n \in 0..N PROVE f[n] = g[n]
    <3>1. CASE n = 0
      BY <1>6, <2>1, <3>1 DEF Upto
    <3>2. CASE n # 0
      <4>1. n \in 1..N /\ n \in 0..N
        BY <1>1, <3>2
      <4> QED
        BY <1>7, <2>1, <3>2, <4>1
    <3> QED
      BY <3>1, <3>2
  <2>3. DOMAIN f = 0..N
    BY <2>1
  <2> QED
    BY <1>6, <2>1, <2>2, <2>3
<1>9. PICK kept :
        /\ kept = CHOOSE f : f = [n \in 0..Len(s) |->
                                    IF n = 0 THEN <<>>
                                    ELSE IF s[n] \in D THEN f[n - 1] ELSE Append(f[n - 1], s[n])]
        /\ Without(s, D) = kept[Len(s)]
  BY DEF Without
<1>10. kept = [n \in 0..N |-> IF n = 0 THEN e ELSE IF s[n] \in D THEN kept[n - 1] ELSE Append(kept[n - 1], s[n])]
  BY <1>1, <1>2, <1>8, <1>9
<1>11. kept[0] = e /\ \A n \in 1..N : kept[n] = IF s[n] \in D THEN kept[n - 1] ELSE Append(kept[n - 1], s[n])
  <2>1. 0 \in 0..N /\ \A n \in 1..N : n \in 0..N /\ n # 0
    BY <1>1
  <2> QED
    BY <1>10, <2>1
<1>12. kept \in [0..N -> X]
  <2>1. PICK T : T = {n \in 0..N : kept[n] \in X}
    OBVIOUS
  <2>2. 0 \in T
    BY <1>1, <1>3, <1>11, <2>1
  <2>3. ASSUME NEW n \in 1..N, n - 1 \in T PROVE n \in T
    <3>1. kept[n - 1] \in X /\ n \in 0..N
      BY <1>1, <2>1, <2>3
    <3>2. kept[n] \in X
      BY <1>3, <1>11, <3>1
    <3> QED
      BY <2>1, <3>1, <3>2
  <2>4. \A n \in 0..N : n \in T
    BY <1>1, <2>2, <2>3, InductionTo
  <2> QED
    BY <1>10, <2>1, <2>4
<1>13. kept \in [0..Len(s) -> Seq(S)]
  BY <1>1, <1>2, <1>12
<1>14. kept[0] = <<>>
  BY <1>2, <1>11
<1>15. \A n \in 1..Len(s) : kept[n] = IF s[n] \in D THEN kept[n - 1] ELSE Append(kept[n - 1], s[n])
  BY <1>1, <1>11
<1>16. Without(s, D) = kept[Len(s)]
  BY <1>9
<1> QED
  BY <1>13, <1>14, <1>15, <1>16 DEF Keeps

\* g[n] is what FlattenSeq joins of the first n sequences.
Joins(g, s) == g[0] = <<>> /\ \A n \in 1..Len(s) : g[n] = g[n - 1] \o s[n]

\* What FlattenSeq joins, sequence by sequence.
LEMMA FlattenSteps ==
    ASSUME NEW S, NEW s \in Seq(Seq(S))
    PROVE  \E g \in [0..Len(s) -> Seq(S)] : Joins(g, s) /\ FlattenSeq(s) = g[Len(s)]
<1>1. PICK N \in Nat : N = Len(s)
  OBVIOUS
<1>2. PICK X, e : X = Seq(S) /\ e = <<>>
  OBVIOUS
<1>3. /\ e \in X
      /\ \A n \in 1..N : s[n] \in X /\ e \o s[n] = s[n]
      /\ \A q \in X, n \in 1..N : q \o s[n] \in X
  <2>1. \A n \in 1..N : s[n] \in Seq(S)
    BY <1>1
  <2>2. \A q \in Seq(S), n \in 1..N : q \o s[n] \in Seq(S)
    BY <2>1, ConcatProperties
  <2>3. \A n \in 1..N : e \o s[n] = s[n]
    BY <1>2, <2>1, ConcatEmptySeq
  <2> QED
    BY <1>2, <2>1, <2>2, <2>3
<1>4. PICK h : h = [p \in X \X (1..N) |-> p[1] \o s[p[2]]]
  OBVIOUS
<1>5. h \in [X \X (1..N) -> X]
  BY <1>3, <1>4
<1>6. PICK g \in [0..N -> X] : Upto(N, g, e, h)
  <2>1. e \in X
    BY <1>3
  <2> QED
    BY <1>1, <1>5, <2>1, RecursionTo
<1>7. ASSUME NEW n \in 1..N PROVE g[n] = g[n - 1] \o s[n]
  <2>1. <<g[n - 1], n>> \in X \X (1..N)
    <3>1. n - 1 \in 0..N
      BY <1>1
    <3>2. g[n - 1] \in X
      BY <1>6, <3>1
    <3> QED
      BY <3>2
  <2> QED
    BY <1>4, <1>6, <2>1 DEF Upto
<1>8. g[0] = e
  BY <1>6 DEF Upto
<1>9. CASE N = 0
  <2>1. FlattenSeq(s) = s /\ s = <<>>
    <3>1. Len(s) = 0
      BY <1>1, <1>9
    <3>2. s = <<>>
      BY <3>1, EmptySeq
    <3> QED
      BY <3>1, <3>2 DEF FlattenSeq
  <2>2. g \in [0..Len(s) -> Seq(S)] /\ g[0] = <<>> /\ FlattenSeq(s) = g[Len(s)]
    BY <1>1, <1>2, <1>8, <1>9, <2>1
  <2>3. \A n \in 1..Len(s) : g[n] = g[n - 1] \o s[n]
    BY <1>1, <1>7
  <2> QED
    BY <2>2, <2>3 DEF Joins
<1>10. CASE N # 0
  <2>1. PICK f : f = [i \in 1..N |-> g[i]]
    OBVIOUS
  <2>2. f = [i \in 1..N |-> IF i = 1 THEN s[i] ELSE f[i - 1] \o s[i]]
    <3>1. PICK k : k = [i \in 1..N |-> IF i = 1 THEN s[i] ELSE f[i - 1] \o s[i]]
      OBVIOUS
    <3>2. ASSUME NEW i \in 1..N PROVE k[i] = f[i]
      <4>1. CASE i = 1
        <5>1. g[1] = s[1] /\ 1 \in 1..N /\ 1 - 1 = 0
          <6>1. 1 \in 1..N /\ 1 - 1 = 0
            BY <1>1, <1>10
          <6>2. g[1] = g[1 - 1] \o s[1]
            BY <1>7, <6>1
          <6>3. g[1] = e \o s[1]
            BY <1>8, <6>1, <6>2
          <6> QED
            BY <1>3, <6>1, <6>3
        <5> QED
          BY <2>1, <3>1, <4>1, <5>1
      <4>2. CASE i # 1
        <5>1. i - 1 \in 1..N
          BY <1>1, <4>2
        <5> QED
          BY <1>7, <2>1, <3>1, <4>2, <5>1
      <4> QED
        BY <4>1, <4>2
    <3>3. DOMAIN k = 1..N /\ DOMAIN f = 1..N
      BY <2>1, <3>1
    <3> QED
      BY <2>1, <3>1, <3>2, <3>3
  <2>3. PICK flatten :
          /\ flatten = CHOOSE F : F = [i \in 1..Len(s) |-> IF i = 1 THEN s[i] ELSE F[i - 1] \o s[i]]
          /\ FlattenSeq(s) = flatten[Len(s)]
    BY <1>1, <1>10 DEF FlattenSeq
  <2>4. flatten = [i \in 1..N |-> IF i = 1 THEN s[i] ELSE flatten[i - 1] \o s[i]]
    BY <1>1, <2>2, <2>3
  <2>5. PICK j : j = [n \in 0..N |-> IF n = 0 THEN e ELSE flatten[n]]
    OBVIOUS
  <2>6. DOMAIN j = 0..N /\ j[0] = e /\ \A n \in 1..N : j[n] = flatten[n]
    <3>1. 0 \in 0..N /\ \A n \in 1..N : n \in 0..N /\ n # 0
      BY <1>1
    <3> QED
      BY <2>5, <3>1
  <2>7. ASSUME NEW n \in 1..N PROVE j[n] = j[n - 1] \o s[n]
    <3>1. CASE n = 1
      <4>1. j[n] = s[n] /\ j[n - 1] = e
        BY <2>4, <2>6, <3>1
      <4> QED
        BY <1>3, <4>1
    <3>2. CASE n # 1
      <4>1. n - 1 \in 1..N
        BY <1>1, <3>2
      <4> QED
        BY <2>4, <2>6, <3>2, <4>1
    <3> QED
      BY <3>1, <3>2
  <2>8. j \in [0..N -> X]
    <3>1. PICK T : T = {n \in 0..N : j[n] \in X}
      OBVIOUS
    <3>2. 0 \in T
      BY <1>1, <1>3, <2>6, <3>1
    <3>3. ASSUME NEW n \in 1..N, n - 1 \in T PROVE n \in T
      <4>1. j[n - 1] \in X /\ n \in 0..N
        BY <1>1, <3>1, <3>3
      <4>2. j[n] \in X
        BY <1>3, <2>7, <4>1
      <4> QED
        BY <3>1, <4>1, <4>2
    <3>4. \A n \in 0..N : n \in T
      BY <1>1, <3>2, <3>3, InductionTo
    <3> QED
      BY <2>5, <3>1, <3>4
  <2>9. FlattenSeq(s) = j[Len(s)]
    <3>1. N \in 1..N
      BY <1>1, <1>10
    <3> QED
      BY <1>1, <2>3, <2>6, <3>1
  <2>10. j \in [0..Len(s) -> Seq(S)] /\ j[0] = <<>>
    BY <1>1, <1>2, <2>6, <2>8
  <2>11. \A n \in 1..Len(s) : j[n] = j[n - 1] \o s[n]
    BY <1>1, <2>7
  <2> QED
    BY <2>9, <2>10, <2>11 DEF Joins
<1> QED
  BY <1>9, <1>10

-----------------------------------------------------------------------------
(* The cells that the two readers find *)

Candidate == [row : Nat, value : Cell]

\* Candidates t of the API with the values s of the preview.
Agree(s, t) == Len(s) = Len(t) /\ \A n \in 1..Len(s) : t[n].value = s[n]

\* A function on 1..n is a sequence of length n.
LEMMA Tabulated ==
    ASSUME NEW S, NEW n \in Nat, NEW f \in [1..n -> S]
    PROVE  f \in Seq(S) /\ Len(f) = n
<1>1. f \in Seq(S)
  BY SeqDef
<1> QED
  BY <1>1, LenProperties

\* What is appended to both agrees with itself.
LEMMA AgreeAppend ==
    ASSUME NEW s \in Seq(Cell), NEW t \in Seq(Candidate), Agree(s, t), NEW r \in Candidate
    PROVE  Agree(Append(s, r.value), Append(t, r))
<1>1. PICK N \in Nat : N = Len(s) /\ N = Len(t)
  BY DEF Agree
<1>2. PICK u, v : u = Append(s, r.value) /\ v = Append(t, r)
  OBVIOUS
<1>3. r.value \in Cell
  BY DEF Candidate
<1>4. Len(u) = N + 1 /\ u[N + 1] = r.value /\ \A n \in 1..N : u[n] = s[n]
  <2>1. u \in Seq(Cell) /\ Len(u) = Len(s) + 1 /\ u[Len(s) + 1] = r.value
        /\ \A n \in 1..Len(s) : u[n] = s[n]
    BY <1>2, <1>3, AppendProperties
  <2> QED
    BY <1>1, <2>1
<1>5. Len(v) = N + 1 /\ v[N + 1] = r /\ \A n \in 1..N : v[n] = t[n]
  BY <1>1, <1>2, AppendProperties
<1>6. ASSUME NEW n \in 1..(N + 1) PROVE v[n].value = u[n]
  <2>1. n \in 1..N \/ n = N + 1
    BY <1>1
  <2> QED
    BY <1>1, <1>4, <1>5, <2>1 DEF Agree
<1> QED
  BY <1>2, <1>4, <1>5, <1>6 DEF Agree

\* What is joined of parts that agree does, too.
LEMMA AgreeConcat ==
    ASSUME NEW s \in Seq(Cell), NEW t \in Seq(Candidate), Agree(s, t),
           NEW x \in Seq(Cell), NEW y \in Seq(Candidate), Agree(x, y)
    PROVE  Agree(s \o x, t \o y)
<1>1. PICK N \in Nat : N = Len(s) /\ N = Len(t)
  BY DEF Agree
<1>2. PICK M \in Nat : M = Len(x) /\ M = Len(y)
  BY DEF Agree
<1>3. PICK u, v : u = s \o x /\ v = t \o y
  OBVIOUS
<1>4. Len(u) = N + M /\ \A n \in 1..(N + M) : u[n] = IF n <= N THEN s[n] ELSE x[n - N]
  <2>1. /\ Len(u) = Len(s) + Len(x)
        /\ \A n \in 1..Len(s) + Len(x) : u[n] = IF n <= Len(s) THEN s[n] ELSE x[n - Len(s)]
    BY <1>3, ConcatProperties
  <2> QED
    BY <1>1, <1>2, <2>1
<1>5. Len(v) = N + M /\ \A n \in 1..(N + M) : v[n] = IF n <= N THEN t[n] ELSE y[n - N]
  BY <1>1, <1>2, <1>3, ConcatProperties
<1>6. ASSUME NEW n \in 1..(N + M) PROVE v[n].value = u[n]
  <2>1. CASE n <= N
    <3>1. n \in 1..N
      BY <1>1, <2>1
    <3> QED
      BY <1>1, <1>4, <1>5, <2>1, <3>1 DEF Agree
  <2>2. CASE ~(n <= N)
    <3>1. n - N \in 1..M
      BY <1>1, <1>2, <2>2
    <3> QED
      BY <1>2, <1>4, <1>5, <2>2, <3>1 DEF Agree
  <2> QED
    BY <2>1, <2>2
<1> QED
  BY <1>3, <1>4, <1>5, <1>6 DEF Agree

\* The lines of a file, with and without their numbers, are joined alike.
LEMMA FlattenAgree ==
    ASSUME NEW s \in Seq(Seq(Cell)), NEW t \in Seq(Seq(Candidate)), Len(s) = Len(t),
           \A n \in 1..Len(s) : Agree(s[n], t[n])
    PROVE  FlattenSeq(s) \in Seq(Cell) /\ FlattenSeq(t) \in Seq(Candidate) /\ Agree(FlattenSeq(s), FlattenSeq(t))
<1>1. PICK N \in Nat : N = Len(s) /\ N = Len(t)
  OBVIOUS
<1>2. PICK g \in [0..Len(s) -> Seq(Cell)] : Joins(g, s) /\ FlattenSeq(s) = g[Len(s)]
  BY FlattenSteps
<1>3. PICK h \in [0..Len(t) -> Seq(Candidate)] : Joins(h, t) /\ FlattenSeq(t) = h[Len(t)]
  BY FlattenSteps
<1>4. PICK T : T = {n \in 0..N : Agree(g[n], h[n])}
  OBVIOUS
<1>5. 0 \in T
  <2>1. Agree(<<>>, <<>>)
    BY DEF Agree
  <2> QED
    BY <1>1, <1>2, <1>3, <1>4, <2>1 DEF Joins, Keeps
<1>6. ASSUME NEW n \in 1..N, n - 1 \in T PROVE n \in T
  <2>1. n - 1 \in 0..N /\ n \in 0..N
    BY <1>1
  <2>2. g[n - 1] \in Seq(Cell) /\ h[n - 1] \in Seq(Candidate) /\ Agree(g[n - 1], h[n - 1])
    BY <1>1, <1>4, <1>6, <2>1
  <2>3. s[n] \in Seq(Cell) /\ t[n] \in Seq(Candidate) /\ Agree(s[n], t[n])
    BY <1>1
  <2>4. Agree(g[n - 1] \o s[n], h[n - 1] \o t[n])
    BY <2>2, <2>3, AgreeConcat
  <2>5. g[n] = g[n - 1] \o s[n] /\ h[n] = h[n - 1] \o t[n]
    BY <1>1, <1>2, <1>3 DEF Joins
  <2> QED
    BY <1>4, <2>1, <2>4, <2>5
<1>7. N \in T
  <2>1. N \in Nat
    BY <1>1
  <2>2. \A n \in 0..N : n \in T
    BY <1>5, <1>6, <2>1, InductionTo
  <2> QED
    BY <2>1, <2>2
<1>8. g[Len(s)] \in Seq(Cell) /\ h[Len(t)] \in Seq(Candidate)
  BY <1>1
<1> QED
  BY <1>1, <1>2, <1>3, <1>4, <1>7, <1>8

\* They drop the same cells.
LEMMA WithoutAgree ==
    ASSUME NEW s \in Seq(Cell), NEW t \in Seq(Candidate), Agree(s, t), NEW D, NEW E,
           \A n \in 1..Len(s) : t[n] \in E <=> s[n] \in D
    PROVE  Without(s, D) \in Seq(Cell) /\ Without(t, E) \in Seq(Candidate) /\ Agree(Without(s, D), Without(t, E))
<1>1. PICK N \in Nat : N = Len(s) /\ N = Len(t)
  BY DEF Agree
<1>2. PICK g \in [0..Len(s) -> Seq(Cell)] : Keeps(g, s, D) /\ Without(s, D) = g[Len(s)]
  BY WithoutSteps
<1>3. PICK h \in [0..Len(t) -> Seq(Candidate)] : Keeps(h, t, E) /\ Without(t, E) = h[Len(t)]
  BY WithoutSteps
<1>4. PICK T : T = {n \in 0..N : Agree(g[n], h[n])}
  OBVIOUS
<1>5. 0 \in T
  <2>1. Agree(<<>>, <<>>)
    BY DEF Agree
  <2> QED
    BY <1>1, <1>2, <1>3, <1>4, <2>1 DEF Joins, Keeps
<1>6. ASSUME NEW n \in 1..N, n - 1 \in T PROVE n \in T
  <2>1. n - 1 \in 0..N /\ n \in 0..N
    BY <1>1
  <2>2. g[n - 1] \in Seq(Cell) /\ h[n - 1] \in Seq(Candidate) /\ Agree(g[n - 1], h[n - 1])
    BY <1>1, <1>4, <1>6, <2>1
  <2>3. t[n] \in Candidate /\ t[n].value = s[n] /\ (t[n] \in E <=> s[n] \in D)
    BY <1>1 DEF Agree
  <2>4. Agree(Append(g[n - 1], s[n]), Append(h[n - 1], t[n]))
    BY <2>2, <2>3, AgreeAppend
  <2>5. Agree(g[n], h[n])
    <3>1. CASE s[n] \in D
      BY <1>1, <1>2, <1>3, <2>2, <2>3, <3>1 DEF Keeps
    <3>2. CASE s[n] \notin D
      BY <1>1, <1>2, <1>3, <2>3, <2>4, <3>2 DEF Keeps
    <3> QED
      BY <3>1, <3>2
  <2> QED
    BY <1>4, <2>1, <2>5
<1>7. N \in T
  <2>1. N \in Nat
    BY <1>1
  <2>2. \A n \in 0..N : n \in T
    BY <1>5, <1>6, <2>1, InductionTo
  <2> QED
    BY <2>1, <2>2
<1>8. g[Len(s)] \in Seq(Cell) /\ h[Len(t)] \in Seq(Candidate)
  BY <1>1
<1> QED
  BY <1>1, <1>2, <1>3, <1>4, <1>7, <1>8

\* The rows that are not empty, of which the first one may be the heading.
LEMMA HeadingProperties ==
    ASSUME NEW rows \in Seq(Seq(Cell))
    PROVE  /\ EmailColumn(rows) = {} => Cardinality(EmailColumn(rows)) = 0
           /\ EmailColumn(rows) # {} => Cardinality(EmailColumn(rows)) = 1 /\ rows # <<>>
<1>1. PICK C : C = EmailColumn(rows)
  OBVIOUS
<1>2. ASSUME C # {} PROVE rows # <<>> /\ \E c : C = {c}
  <2>1. rows # <<>> /\ C = {c \in DOMAIN Head(rows) : /\ Head(rows)[c] \in Heading
                                                     /\ \A d \in 1..(c - 1) : Head(rows)[d] \notin Heading}
    BY <1>1, <1>2 DEF EmailColumn
  <2>2. PICK r \in Seq(Cell) : r = Head(rows)
    BY <2>1
  <2>3. DOMAIN r = 1..Len(r) /\ Len(r) \in Nat
    BY <2>2
  <2>4. ASSUME NEW c \in C, NEW d \in C PROVE c = d
    <3>1. /\ c \in 1..Len(r) /\ d \in 1..Len(r) /\ r[c] \in Heading /\ r[d] \in Heading
          /\ (\A k \in 1..(c - 1) : r[k] \notin Heading) /\ (\A k \in 1..(d - 1) : r[k] \notin Heading)
      BY <2>1, <2>2, <2>3
    <3> QED
      BY <2>3, <3>1
  <2>5. PICK c \in C : TRUE
    BY <1>2
  <2>6. C = {c}
    BY <2>4, <2>5
  <2> QED
    BY <2>1, <2>6
<1>3. CASE C = {}
  BY <1>1, <1>3, FS_EmptySet
<1>4. CASE C # {}
  <2>1. PICK c : C = {c}
    BY <1>2, <1>4
  <2>2. Cardinality({c}) = 1
    BY FS_Singleton
  <2> QED
    BY <1>1, <1>2, <1>4, <2>1, <2>2
<1> QED
  BY <1>3, <1>4

\* A row has a cell in each column, even if it is too short.
LEMMA CellInType ==
    ASSUME NEW rows \in Seq(Seq(Cell)), NEW n \in 1..Len(rows)
    PROVE  CellIn(rows, n) \in Cell
<1>1. PICK r \in Seq(Cell) : r = rows[n]
  OBVIOUS
<1>2. PICK column : column = IF EmailColumn(rows) = {} THEN 1 ELSE CHOOSE c \in EmailColumn(rows) : TRUE
  OBVIOUS
<1>3. CellIn(rows, n) = IF column \in DOMAIN r THEN r[column] ELSE Empty
  BY <1>1, <1>2 DEF CellIn
<1>4. column \in DOMAIN r => r[column] \in Cell
  BY <1>1
<1> QED
  BY <1>3, <1>4 DEF Cell

\* A set of positions that is not empty has a first one.
LEMMA FirstOf ==
    ASSUME NEW N \in Nat, NEW S \in SUBSET (1..N), S # {}
    PROVE  \E c \in S : \A d \in S : c <= d
<1> SUFFICES ASSUME ~\E c \in S : \A d \in S : c <= d PROVE FALSE
  OBVIOUS
<1>1. PICK T : T = {m \in 0..N : \A d \in S : d > m}
  OBVIOUS
<1>2. 0 \in T
  BY <1>1
<1>3. ASSUME NEW n \in 1..N, n - 1 \in T PROVE n \in T
  <2>1. n \in 0..N /\ \A d \in S : d \in Nat /\ d > n - 1
    BY <1>1, <1>3
  <2>2. n \notin S
    BY <2>1
  <2>3. ASSUME NEW d \in S PROVE d > n
    BY <2>1, <2>2
  <2> QED
    BY <1>1, <2>1, <2>3
<1>4. N \in T
  <2>1. \A n \in 0..N : n \in T
    BY <1>2, <1>3, InductionTo
  <2> QED
    BY <2>1
<1>5. PICK d \in S : TRUE
  OBVIOUS
<1> QED
  BY <1>1, <1>4, <1>5

\* The preview finds a heading where the parser does.
LEMMA PreviewColumnProperties ==
    ASSUME NEW rows \in Seq(Seq(Cell))
    PROVE  /\ PreviewColumn(rows) \in Nat
           /\ PreviewColumn(rows) # 0 => rows # <<>>
           /\ EmailColumn(rows) = IF PreviewColumn(rows) = 0 THEN {} ELSE {PreviewColumn(rows)}
<1>1. CASE rows = <<>>
  <2>1. PreviewColumn(rows) = 0
    BY <1>1 DEF PreviewColumn
  <2>2. EmailColumn(rows) = {}
    BY <1>1 DEF EmailColumn
  <2> QED
    BY <2>1, <2>2
<1>2. CASE rows # <<>>
  <2>1. PICK r \in Seq(Cell) : r = Head(rows) /\ r = rows[1]
    BY <1>2, EmptySeq
  <2>2. PICK N \in Nat : N = Len(r) /\ DOMAIN r = 1..N
    BY <2>1
  <2>3. PICK H : H = {c \in 1..N : r[c] \in Heading}
    OBVIOUS
  <2>4. PreviewColumn(rows) = IF H = {} THEN 0 ELSE CHOOSE c \in H : \A d \in H : c <= d
    BY <1>2, <2>1, <2>2, <2>3 DEF PreviewColumn
  <2>5. EmailColumn(rows) = {c \in 1..N : r[c] \in Heading /\ \A d \in 1..(c - 1) : r[d] \notin Heading}
    BY <1>2, <2>1, <2>2 DEF EmailColumn
  <2>6. CASE H = {}
    BY <1>2, <2>3, <2>4, <2>5, <2>6
  <2>7. CASE H # {}
    <3>1. PICK f : f = CHOOSE c \in H : \A d \in H : c <= d
      OBVIOUS
    <3>2. f \in H /\ \A d \in H : f <= d
      <4>1. H \in SUBSET (1..N)
        BY <2>3
      <4>2. \E c \in H : \A d \in H : c <= d
        BY <2>2, <2>7, <4>1, FirstOf
      <4> QED
        BY <3>1, <4>2
    <3>3. f \in 1..N /\ f # 0 /\ f \in Nat /\ r[f] \in Heading
      BY <2>2, <2>3, <3>2
    <3>4. \A d \in 1..(f - 1) : r[d] \notin Heading
      <4>1. ASSUME NEW d \in 1..(f - 1), r[d] \in Heading PROVE FALSE
        <5>1. d \in 1..N /\ d < f
          BY <2>2, <3>3
        <5>2. d \in H
          BY <2>3, <4>1, <5>1
        <5> QED
          BY <3>2, <3>3, <5>1, <5>2
      <4> QED
        BY <4>1
    <3>5. ASSUME NEW c \in 1..N, r[c] \in Heading, \A d \in 1..(c - 1) : r[d] \notin Heading
          PROVE  c = f
      <4>1. c \in H
        BY <2>3, <3>5
      <4>2. f <= c
        BY <3>2, <4>1
      <4>3. ~(f < c)
        <5>1. f < c => f \in 1..(c - 1)
          BY <2>2, <3>3, <3>5
        <5> QED
          BY <3>3, <3>5, <5>1
      <4> QED
        BY <2>2, <3>3, <4>2, <4>3
    <3>6. EmailColumn(rows) = {f}
      BY <2>5, <3>3, <3>4, <3>5
    <3> QED
      BY <1>2, <2>4, <2>7, <3>1, <3>3, <3>6
  <2> QED
    BY <2>6, <2>7
<1> QED
  BY <1>1, <1>2

\* The preview's cell of a row is one, and the parser's where they choose one column.
LEMMA PreviewCellType ==
    ASSUME NEW rows \in Seq(Seq(Cell)), NEW n \in 1..Len(rows)
    PROVE  /\ PreviewCell(rows[n], PreviewColumn(rows)) \in Cell
           /\ PreviewCell(rows[n], PreviewColumn(rows)) = CellIn(rows, n)
<1>1. PICK r \in Seq(Cell) : r = rows[n]
  OBVIOUS
<1>2. PICK column \in Nat : column = PreviewColumn(rows)
  BY PreviewColumnProperties
<1>3. PICK N \in Nat : N = Len(r) /\ DOMAIN r = 1..N
  OBVIOUS
<1>4. CASE column = 0
  <2>1. CellIn(rows, n) = IF 1 \in DOMAIN r THEN r[1] ELSE Empty
    BY <1>1, <1>2, <1>4, PreviewColumnProperties DEF CellIn
  <2>2. 1 \in DOMAIN r <=> r # <<>>
    BY <1>3, EmptySeq
  <2>3. PreviewCell(r, column) = CellIn(rows, n)
    BY <1>4, <2>1, <2>2 DEF PreviewCell
  <2> QED
    BY <1>1, <1>2, <2>3, CellInType
<1>5. CASE column # 0
  <2>1. EmailColumn(rows) = {column}
    BY <1>2, <1>5, PreviewColumnProperties
  <2>2. (CHOOSE c \in {column} : TRUE) = column /\ {column} # {}
    OBVIOUS
  <2>3. CellIn(rows, n) = IF column \in DOMAIN r THEN r[column] ELSE Empty
    BY <1>1, <2>1, <2>2 DEF CellIn
  <2>4. column \in DOMAIN r <=> column <= Len(r)
    BY <1>3, <1>5
  <2>5. PreviewCell(r, column) = CellIn(rows, n)
    BY <1>5, <2>3, <2>4 DEF PreviewCell
  <2> QED
    BY <1>1, <1>2, <2>5, CellInType
<1> QED
  BY <1>4, <1>5

\* Dropping two sets of elements drops the same if they hold the same of them.
LEMMA WithoutSame ==
    ASSUME NEW S, NEW s \in Seq(S), NEW D, NEW E, \A n \in 1..Len(s) : s[n] \in E <=> s[n] \in D
    PROVE  Without(s, D) = Without(s, E)
<1>1. PICK N \in Nat : N = Len(s)
  OBVIOUS
<1>2. PICK g \in [0..Len(s) -> Seq(S)] : Keeps(g, s, D) /\ Without(s, D) = g[Len(s)]
  BY WithoutSteps
<1>3. PICK h \in [0..Len(s) -> Seq(S)] : Keeps(h, s, E) /\ Without(s, E) = h[Len(s)]
  BY WithoutSteps
<1>4. PICK T : T = {n \in 0..N : g[n] = h[n]}
  OBVIOUS
<1>5. 0 \in T
  BY <1>1, <1>2, <1>3, <1>4 DEF Keeps
<1>6. ASSUME NEW n \in 1..N, n - 1 \in T PROVE n \in T
  <2>1. g[n - 1] = h[n - 1] /\ n \in 0..N
    BY <1>1, <1>4, <1>6
  <2>2. g[n] = IF s[n] \in D THEN g[n - 1] ELSE Append(g[n - 1], s[n])
    BY <1>1, <1>2 DEF Keeps
  <2>3. h[n] = IF s[n] \in E THEN h[n - 1] ELSE Append(h[n - 1], s[n])
    BY <1>1, <1>3 DEF Keeps
  <2> QED
    BY <1>1, <1>4, <2>1, <2>2, <2>3
<1>7. N \in T
  <2>1. \A n \in 0..N : n \in T
    BY <1>1, <1>5, <1>6, InductionTo
  <2> QED
    BY <1>1, <2>1
<1> QED
  BY <1>1, <1>2, <1>3, <1>4, <1>7

\* Both libraries return rows, and the same ones of a file that they split alike.
LEMMA RowsType ==
    ASSUME NEW file \in File
    PROVE  /\ parseCsv(file) \in Seq(Seq(Cell)) /\ PapaParse(file) \in Seq(Seq(Cell))
           /\ file.extension = "csv" /\ SplitAlike(file) => PapaParse(file) = parseCsv(file)
<1>1. PICK lines, papas : lines = file.atCommas /\ papas = file.byPapa
  OBVIOUS
<1>2. lines \in Seq(Seq(Cell)) /\ papas \in Seq(Seq(Cell))
  BY <1>1, FileAssumption
<1>3. PICK D, E : D = {<<Empty>>} /\ E = {<<Empty>>, <<Space>>}
  OBVIOUS
<1>4. parseCsv(file) = Without(lines, E) /\ PapaParse(file) = Without(papas, D)
  BY <1>1, <1>3 DEF parseCsv, PapaParse
<1>5. Without(lines, E) \in Seq(Seq(Cell))
  <2>1. PICK g \in [0..Len(lines) -> Seq(Seq(Cell))] : Without(lines, E) = g[Len(lines)]
    BY <1>2, WithoutSteps
  <2>2. Len(lines) \in 0..Len(lines)
    BY <1>2
  <2> QED
    BY <2>1, <2>2
<1>6. Without(papas, D) \in Seq(Seq(Cell))
  <2>1. PICK g \in [0..Len(papas) -> Seq(Seq(Cell))] : Without(papas, D) = g[Len(papas)]
    BY <1>2, WithoutSteps
  <2>2. Len(papas) \in 0..Len(papas)
    BY <1>2
  <2> QED
    BY <2>1, <2>2
<1>7. ASSUME file.extension = "csv", SplitAlike(file) PROVE Without(papas, D) = Without(lines, E)
  <2>1. papas = lines /\ \A l \in 1..Len(lines) : lines[l] # <<Space>>
    BY <1>1, <1>2, <1>7 DEF SplitAlike
  <2>2. \A l \in 1..Len(lines) : lines[l] \in E <=> lines[l] \in D
    BY <1>3, <2>1
  <2>3. Without(lines, D) = Without(lines, E)
    BY <1>2, <2>2, WithoutSame
  <2> QED
    BY <2>1, <2>3
<1> QED
  BY <1>4, <1>5, <1>6, <1>7

\* The lines before the first value.
Headings(rows) == IF EmailColumn(rows) = {} THEN 0 ELSE 1

\* A heading is one of the rows.
LEMMA HeadingsType ==
    ASSUME NEW rows \in Seq(Seq(Cell))
    PROVE  /\ Headings(rows) \in {0, 1} /\ Headings(rows) <= Len(rows)
           /\ Headings(rows) = Cardinality(EmailColumn(rows))
           /\ Headings(rows) = IF PreviewColumn(rows) = 0 THEN 0 ELSE 1
<1>0. PICK start \in {0, 1} : start = Headings(rows)
  BY DEF Headings
<1>1. PICK N \in Nat : N = Len(rows)
  OBVIOUS
<1>2. start = 1 <=> EmailColumn(rows) # {}
  BY <1>0 DEF Headings
<1>3. start = Cardinality(EmailColumn(rows))
  BY <1>2, HeadingProperties
<1>4. start <= N
  <2>1. start = 1 => N # 0
    BY <1>1, <1>2, HeadingProperties, EmptySeq
  <2> QED
    BY <1>1, <1>2, <2>1
<1>5. start = IF PreviewColumn(rows) = 0 THEN 0 ELSE 1
  BY <1>2, PreviewColumnProperties
<1> QED
  BY <1>0, <1>1, <1>3, <1>4, <1>5

\* The API takes a cell of every row of a CSV file after the heading.
LEMMA CsvCandidates ==
    ASSUME NEW file \in File, file.extension = "csv", NEW rows, rows = parseCsv(file)
    PROVE  /\ Candidates(file) \in Seq(Candidate)
           /\ Len(Candidates(file)) = Len(rows) - Headings(rows)
           /\ \A n \in 1..Len(Candidates(file)) :
                Candidates(file)[n].value = CellIn(rows, n + Headings(rows))
<1>1. rows \in Seq(Seq(Cell))
  BY RowsType
<1>2. PICK N \in Nat : N = Len(rows) /\ DOMAIN rows = 1..N
  BY <1>1
<1>3. PICK start \in {0, 1} : start = Headings(rows) /\ start <= N /\ start = Cardinality(EmailColumn(rows))
  BY <1>1, <1>2, HeadingsType
<1>4. PICK M \in Nat : M = N - start
  BY <1>2, <1>3
<1>5. \A n \in 1..M : n + start \in 1..N /\ n + start \in Nat
  BY <1>2, <1>3, <1>4
<1>6. PICK t : t = Candidates(file)
  OBVIOUS
<1>7. t = [n \in 1..M |-> [row |-> n + start, value |-> CellIn(rows, n + start)]]
  BY <1>2, <1>3, <1>4, <1>6 DEF Candidates, csvCandidates
<1>8. t \in Seq(Candidate) /\ Len(t) = M
  <2>1. \A n \in 1..M : CellIn(rows, n + start) \in Cell
    BY <1>1, <1>2, <1>5, CellInType
  <2>2. t \in [1..M -> Candidate]
    BY <1>5, <1>7, <2>1 DEF Candidate
  <2> QED
    BY <1>4, <2>2, Tabulated
<1>9. \A n \in 1..M : t[n].value = CellIn(rows, n + start)
  BY <1>7
<1> QED
  BY <1>2, <1>3, <1>4, <1>6, <1>8, <1>9

\* So does the preview, of its own rows.
LEMMA CsvValues ==
    ASSUME NEW file \in File, file.extension = "csv", NEW rows, rows = PapaParse(file)
    PROVE  /\ previewValues(file) \in Seq(Cell)
           /\ Len(previewValues(file)) = Len(rows) - Headings(rows)
           /\ \A n \in 1..Len(previewValues(file)) :
                previewValues(file)[n] = CellIn(rows, n + Headings(rows))
<1>1. rows \in Seq(Seq(Cell))
  BY RowsType
<1>2. PICK N \in Nat : N = Len(rows) /\ DOMAIN rows = 1..N
  BY <1>1
<1>3. PICK start \in {0, 1} : /\ start = Headings(rows) /\ start <= N
                              /\ start = IF PreviewColumn(rows) = 0 THEN 0 ELSE 1
  BY <1>1, <1>2, HeadingsType
<1>4. PICK M \in Nat : M = N - start
  BY <1>2, <1>3
<1>5. PICK values : values = [n \in 1..N |-> PreviewCell(rows[n], PreviewColumn(rows))]
  OBVIOUS
<1>6. \A n \in 1..N : values[n] \in Cell /\ values[n] = CellIn(rows, n)
  BY <1>1, <1>2, <1>5, PreviewCellType
<1>7. values \in Seq(Cell) /\ Len(values) = N
  <2>1. values \in [1..N -> Cell]
    BY <1>5, <1>6
  <2> QED
    BY <1>2, <2>1, Tabulated
<1>8. PICK s : s = previewValues(file)
  OBVIOUS
<1>9. s = IF PreviewColumn(rows) = 0 THEN values ELSE Tail(values)
  BY <1>2, <1>5, <1>8 DEF previewValues
<1>10. s \in Seq(Cell) /\ Len(s) = M /\ \A n \in 1..M : s[n] = values[n + start]
  <2>1. CASE start = 0
    <3>1. s = values /\ M = N
      BY <1>2, <1>3, <1>4, <1>9, <2>1
    <3> QED
      BY <1>7, <2>1, <3>1
  <2>2. CASE start = 1
    <3>1. s = Tail(values) /\ values # <<>>
      <4>1. Len(values) # 0
        BY <1>2, <1>3, <1>7, <2>2
      <4> QED
        BY <1>3, <1>9, <2>2, <4>1, EmptySeq
    <3>2. /\ Tail(values) \in Seq(Cell) /\ Len(Tail(values)) = Len(values) - 1
          /\ \A n \in 1..(Len(values) - 1) : Tail(values)[n] = values[n + 1]
      BY <1>7, <3>1, HeadTailProperties
    <3> QED
      BY <1>4, <1>7, <2>2, <3>1, <3>2
  <2> QED
    BY <2>1, <2>2
<1>11. \A n \in 1..M : s[n] = CellIn(rows, n + start)
  <2>1. \A n \in 1..M : n + start \in 1..N
    BY <1>2, <1>3, <1>4
  <2> QED
    BY <1>6, <1>10, <2>1
<1> QED
  BY <1>2, <1>3, <1>4, <1>8, <1>10, <1>11

\* Both take the same cells of a CSV file that the libraries split alike.
LEMMA CsvAgree ==
    ASSUME NEW file \in File, file.extension = "csv"
    PROVE  /\ previewValues(file) \in Seq(Cell) /\ Candidates(file) \in Seq(Candidate)
           /\ SplitAlike(file) => Agree(previewValues(file), Candidates(file))
<1>1. previewValues(file) \in Seq(Cell) /\ Candidates(file) \in Seq(Candidate)
  BY CsvCandidates, CsvValues
<1>2. ASSUME SplitAlike(file) PROVE Agree(previewValues(file), Candidates(file))
  <2>1. PICK rows : rows = parseCsv(file) /\ rows = PapaParse(file)
    BY <1>2, RowsType
  <2>2. PICK s, t : s = previewValues(file) /\ t = Candidates(file)
    OBVIOUS
  <2>3. PICK k : k = Len(rows) - Headings(rows)
    OBVIOUS
  <2>4. Len(s) = k /\ \A n \in 1..Len(s) : s[n] = CellIn(rows, n + Headings(rows))
    BY <2>1, <2>2, <2>3, CsvValues
  <2>5. Len(t) = k /\ \A n \in 1..Len(t) : t[n].value = CellIn(rows, n + Headings(rows))
    BY <2>1, <2>2, <2>3, CsvCandidates
  <2> QED
    BY <2>2, <2>4, <2>5 DEF Agree
<1> QED
  BY <1>1, <1>2

\* And of any other file, which both split at commas.
LEMMA TextAgree ==
    ASSUME NEW file \in File, file.extension # "csv"
    PROVE  /\ previewValues(file) \in Seq(Cell) /\ Candidates(file) \in Seq(Candidate)
           /\ Agree(previewValues(file), Candidates(file))
<1>1. PICK lines : lines = file.atCommas
  OBVIOUS
<1>2. lines \in Seq(Seq(Cell))
  BY <1>1, FileAssumption
<1>3. PICK N \in Nat : N = Len(lines) /\ DOMAIN lines = 1..N
  BY <1>2
<1>4. PICK t : t = [l \in 1..N |-> [c \in DOMAIN lines[l] |-> [row |-> l, value |-> lines[l][c]]]]
  OBVIOUS
<1>5. PICK R : R = [row : 1..N, value : Cell]
  OBVIOUS
<1>6. ASSUME NEW l \in 1..N PROVE t[l] \in Seq(Candidate) /\ t[l] \in Seq(R) /\ Agree(lines[l], t[l])
  <2>1. PICK cells \in Seq(Cell) : cells = lines[l]
    BY <1>2, <1>3
  <2>2. PICK M \in Nat : M = Len(cells) /\ DOMAIN cells = 1..M
    OBVIOUS
  <2>3. PICK u : u = [c \in 1..M |-> [row |-> l, value |-> cells[c]]]
    OBVIOUS
  <2>4. t[l] = u
    BY <1>4, <2>1, <2>2, <2>3
  <2>5. l \in Nat /\ \A c \in 1..M : cells[c] \in Cell
    BY <1>3, <2>2
  <2>6. u \in [1..M -> Candidate] /\ u \in [1..M -> R]
    BY <1>5, <2>3, <2>5 DEF Candidate
  <2>7. u \in Seq(Candidate) /\ u \in Seq(R) /\ Len(u) = M
    BY <2>2, <2>6, Tabulated
  <2>8. \A c \in 1..M : u[c].value = cells[c]
    BY <2>3
  <2> QED
    BY <2>1, <2>2, <2>4, <2>7, <2>8 DEF Agree
<1>7. t \in Seq(Seq(Candidate)) /\ t \in Seq(Seq(R)) /\ Len(t) = N
  <2>1. t \in [1..N -> Seq(Candidate)] /\ t \in [1..N -> Seq(R)]
    BY <1>4, <1>6
  <2> QED
    BY <1>3, <2>1, Tabulated
<1>8. PICK s, u : s = FlattenSeq(lines) /\ u = FlattenSeq(t)
  OBVIOUS
<1>9. s \in Seq(Cell) /\ u \in Seq(Candidate) /\ Agree(s, u)
  BY <1>2, <1>3, <1>6, <1>7, <1>8, FlattenAgree
<1>10. u \in Seq(R)
  <2>1. PICK g \in [0..Len(t) -> Seq(R)] : u = g[Len(t)]
    BY <1>7, <1>8, FlattenSteps
  <2>2. Len(t) \in 0..Len(t)
    BY <1>3, <1>7
  <2> QED
    BY <2>1, <2>2
<1>11. PICK D, E : D = {Empty, Space} /\ E = [row : 1..N, value : {Empty, Space}]
  OBVIOUS
<1>12. ASSUME NEW n \in 1..Len(s) PROVE u[n] \in E <=> s[n] \in D
  <2>1. n \in 1..Len(u) /\ u[n].value = s[n]
    BY <1>9 DEF Agree
  <2>2. u[n] \in R
    BY <1>10, <2>1
  <2> QED
    BY <1>5, <1>11, <2>1, <2>2
<1>13. Without(s, D) \in Seq(Cell) /\ Without(u, E) \in Seq(Candidate) /\ Agree(Without(s, D), Without(u, E))
  BY <1>9, <1>12, WithoutAgree
<1>14. previewValues(file) = Without(s, D)
  BY <1>1, <1>8, <1>11 DEF previewValues
<1>15. Candidates(file) = Without(u, E)
  BY <1>1, <1>3, <1>4, <1>8, <1>11 DEF Candidates, textCandidates
<1> QED
  BY <1>13, <1>14, <1>15

\* Each reader finds cells in every file, and both find the same ones in a file that
\* the libraries under them split alike.
LEMMA ReadersAgree ==
    ASSUME NEW file \in File
    PROVE  /\ previewValues(file) \in Seq(Cell) /\ Candidates(file) \in Seq(Candidate)
           /\ SplitAlike(file) =>
                /\ Agree(previewValues(file), Candidates(file))
                /\ PreviewThrows(file) <=> Malformed(file) \/ Len(Candidates(file)) > maxLeads
<1>1. previewValues(file) \in Seq(Cell) /\ Candidates(file) \in Seq(Candidate)
      /\ (SplitAlike(file) => Agree(previewValues(file), Candidates(file)))
  BY CsvAgree, TextAgree
<1>2. ASSUME SplitAlike(file)
      PROVE  PreviewThrows(file) <=> Malformed(file) \/ Len(Candidates(file)) > maxLeads
  <2>1. Len(previewValues(file)) = Len(Candidates(file))
    BY <1>1, <1>2 DEF Agree
  <2>2. CASE file.extension # "csv"
    BY <2>1, <2>2 DEF PreviewThrows, Malformed
  <2>3. CASE file.extension = "csv"
    <3>1. PICK rows \in Seq(Seq(Cell)) : rows = parseCsv(file) /\ rows = PapaParse(file)
      BY <1>2, <2>3, RowsType
    <3>2. PreviewColumn(rows) = 0 <=> EmailColumn(rows) = {}
      BY <3>1, PreviewColumnProperties
    <3> QED
      BY <2>1, <2>3, <3>1, <3>2 DEF PreviewThrows, Malformed
  <2> QED
    BY <2>2, <2>3
<1> QED
  BY <1>1, <1>2

-----------------------------------------------------------------------------
(* The loop of parseLeadFile *)

Normal(lead) == Lower[lead.domain] = lead.domain

\* The loop's variables: leads and seen hold the same addresses, each of them
\* normalised and once, and every address read so far is one of them.
LoopType ==
    /\ parse.at \in Nat /\ parse.invalidCount \in Nat /\ parse.duplicateCount \in Nat
    /\ parse.leads \in Seq(Lead)

LoopInv ==
    /\ LoopType
    /\ Len(parse.leads) + parse.invalidCount + parse.duplicateCount = parse.at
    /\ \A lead \in parse.seen : \E m \in DOMAIN parse.leads : parse.leads[m] = lead
    /\ \A m \in DOMAIN parse.leads : parse.leads[m] \in parse.seen /\ Normal(parse.leads[m])
    /\ \A m, n \in DOMAIN parse.leads : m # n => parse.leads[m] # parse.leads[n]
    /\ \A n \in 1..parse.at :
         Candidates(parse.file)[n].value \in Address =>
             normalizeEmail(Candidates(parse.file)[n].value) \in parse.seen

\* parse is a record with these fields throughout.
ParseFields ==
    parse = [ outcome |-> parse.outcome, file |-> parse.file, at |-> parse.at,
              leads |-> parse.leads, seen |-> parse.seen, invalidCount |-> parse.invalidCount,
              duplicateCount |-> parse.duplicateCount, invalidRows |-> parse.invalidRows ]

\* normalizeEmail keeps the local part and returns a domain that it would not change.
LEMMA NormalizeNormal ==
    ASSUME NEW address \in Address
    PROVE  /\ normalizeEmail(address) \in Lead
           /\ Normal(normalizeEmail(address))
           /\ normalizeEmail(address).local = address.local
           /\ normalizeEmail(address).domain = Lower[address.domain]
<1>1. address.local \in Part /\ address.domain \in Part
  BY CellAssumption
<1>2. Lower[address.domain] \in Part /\ Lower[Lower[address.domain]] = Lower[address.domain]
  BY <1>1, LowerAssumption
<1> QED
  BY <1>1, <1>2 DEF normalizeEmail, Lead, Normal

NothingRead ==
    /\ parse.at = 0 /\ parse.invalidCount = 0 /\ parse.duplicateCount = 0
    /\ parse.leads = <<>> /\ parse.seen = {}

\* A request starts its loop with nothing read.
LEMMA FreshLoop == NothingRead => LoopInv
<1> SUFFICES ASSUME NothingRead PROVE LoopInv
  OBVIOUS
<1> USE DEF NothingRead
<1>1. parse.leads \in Seq(Lead) /\ Len(parse.leads) = 0
  BY EmptySeq
<1>2. DOMAIN parse.leads = {}
  BY EmptySeq
<1>3. 1..parse.at = {}
  OBVIOUS
<1>4. LoopType
  BY <1>1 DEF LoopType
<1>5. Len(parse.leads) + parse.invalidCount + parse.duplicateCount = parse.at
  BY <1>1
<1> QED
  BY <1>2, <1>3, <1>4, <1>5 DEF LoopInv

\* The initial state is one without a request.
LEMMA LoopInit == Init => LoopInv /\ ParseFields
  BY FreshLoop DEF Init, NoParse, NothingRead, ParseFields

\* What every candidate adds to the coverage: its address is one that has been seen.
LEMMA CoverOneMore ==
    ASSUME LoopInv, parse'.file = parse.file, parse'.at = parse.at + 1, parse.seen \subseteq parse'.seen,
           candidate.value \in Address => normalizeEmail(candidate.value) \in parse'.seen
    PROVE  \A n \in 1..parse'.at :
             Candidates(parse'.file)[n].value \in Address =>
                 normalizeEmail(Candidates(parse'.file)[n].value) \in parse'.seen
<1> SUFFICES ASSUME NEW n \in 1..parse'.at, Candidates(parse'.file)[n].value \in Address
             PROVE  normalizeEmail(Candidates(parse'.file)[n].value) \in parse'.seen
  OBVIOUS
<1>1. n \in 1..parse.at \/ n = parse.at + 1
  BY DEF LoopInv, LoopType
<1>2. CASE n \in 1..parse.at
  BY <1>2 DEF LoopInv
<1>3. CASE n = parse.at + 1
  BY <1>3 DEF candidate
<1> QED
  BY <1>1, <1>2, <1>3

\* A candidate that adds no lead: it is no address, or one that has been seen.
LEMMA SkippedCandidate ==
    ASSUME LoopInv, LoopType', parse'.file = parse.file, parse'.leads = parse.leads,
           parse'.seen = parse.seen, parse'.at = parse.at + 1,
           parse'.invalidCount + parse'.duplicateCount = parse.invalidCount + parse.duplicateCount + 1,
           candidate.value \in Address => normalizeEmail(candidate.value) \in parse.seen
    PROVE  LoopInv'
<1>1. PICK l \in Nat : l = Len(parse.leads) /\ l = Len(parse'.leads)
  BY DEF LoopInv, LoopType
<1>2. l + parse'.invalidCount + parse'.duplicateCount = parse'.at
  <2>1. l + parse.invalidCount + parse.duplicateCount = parse.at
    BY <1>1 DEF LoopInv
  <2>2. /\ parse.invalidCount \in Nat /\ parse.duplicateCount \in Nat /\ parse.at \in Nat
        /\ parse'.invalidCount \in Nat /\ parse'.duplicateCount \in Nat
    BY DEF LoopInv, LoopType
  <2> QED
    BY <2>1, <2>2
<1>3. \A n \in 1..parse'.at :
         Candidates(parse'.file)[n].value \in Address =>
             normalizeEmail(Candidates(parse'.file)[n].value) \in parse'.seen
  BY CoverOneMore
<1> QED
  BY <1>1, <1>2, <1>3 DEF LoopInv

\* A candidate with a new address.
LEMMA AddedCandidate ==
    ASSUME LoopInv, ParseFields, NewCandidate
    PROVE  LoopInv'
<1> DEFINE lead == normalizeEmail(candidate.value)
<1>1. lead \in Lead /\ Normal(lead) /\ lead \notin parse.seen
  BY NormalizeNormal DEF NewCandidate
<1>2. /\ parse'.file = parse.file /\ parse'.at = parse.at + 1
      /\ parse'.invalidCount = parse.invalidCount /\ parse'.duplicateCount = parse.duplicateCount
      /\ parse'.seen = parse.seen \cup {lead}
      /\ parse'.leads = Append(parse.leads, lead)
  BY DEF NewCandidate, ParseFields
<1> HIDE DEF lead
<1>3. PICK l \in Nat : l = Len(parse.leads) /\ DOMAIN parse.leads = 1..l
  BY DEF LoopInv, LoopType
<1>4. /\ parse'.leads \in Seq(Lead) /\ Len(parse'.leads) = l + 1 /\ DOMAIN parse'.leads = 1..(l + 1)
      /\ \A m \in 1..l : parse'.leads[m] = parse.leads[m]
      /\ parse'.leads[l + 1] = lead
  BY <1>1, <1>2, <1>3, AppendProperties DEF LoopInv, LoopType
<1>5. LoopType'
  BY <1>2, <1>4 DEF LoopInv, LoopType
<1>6. Len(parse'.leads) + parse'.invalidCount + parse'.duplicateCount = parse'.at
  <2>1. l + parse.invalidCount + parse.duplicateCount = parse.at
    BY <1>3 DEF LoopInv
  <2> QED
    BY <1>2, <1>3, <1>4, <2>1 DEF LoopInv, LoopType
<1>7. \A m \in 1..(l + 1) : m \in 1..l \/ m = l + 1
  OBVIOUS
<1>8. \A x \in parse'.seen : \E m \in DOMAIN parse'.leads : parse'.leads[m] = x
  <2>1. ASSUME NEW x \in parse.seen PROVE \E m \in 1..(l + 1) : parse'.leads[m] = x
    <3>1. PICK m \in 1..l : parse.leads[m] = x
      BY <1>3, <2>1 DEF LoopInv
    <3> QED
      BY <1>4, <3>1
  <2>2. \E m \in 1..(l + 1) : parse'.leads[m] = lead
    BY <1>4
  <2> QED
    BY <1>2, <1>4, <2>1, <2>2
<1>9. \A m \in DOMAIN parse'.leads : parse'.leads[m] \in parse'.seen /\ Normal(parse'.leads[m])
  BY <1>1, <1>2, <1>3, <1>4, <1>7 DEF LoopInv
<1>10. \A m, n \in DOMAIN parse'.leads : m # n => parse'.leads[m] # parse'.leads[n]
  <2>1. \A m \in 1..l : parse'.leads[m] \in parse.seen
    BY <1>3, <1>4 DEF LoopInv
  <2>2. \A m, n \in 1..l : m # n => parse'.leads[m] # parse'.leads[n]
    BY <1>3, <1>4 DEF LoopInv
  <2> QED
    BY <1>1, <1>4, <1>7, <2>1, <2>2
<1>11. \A n \in 1..parse'.at :
         Candidates(parse'.file)[n].value \in Address =>
             normalizeEmail(Candidates(parse'.file)[n].value) \in parse'.seen
  BY <1>2, CoverOneMore DEF lead
<1> QED
  BY <1>5, <1>6, <1>8, <1>9, <1>10, <1>11 DEF LoopInv

\* Every step keeps the loop's invariant.
LEMMA LoopNext == LoopInv /\ ParseFields /\ [Next]_vars => (LoopInv /\ ParseFields)'
<1> SUFFICES ASSUME LoopInv, ParseFields, [Next]_vars PROVE LoopInv' /\ ParseFields'
  OBVIOUS
<1>1. CASE UNCHANGED parse
  BY <1>1 DEF LoopInv, LoopType, ParseFields
<1>2. ASSUME NEW f, parseLeadFile(f) PROVE LoopInv' /\ ParseFields'
  <2>1. NothingRead'
    BY <1>2 DEF parseLeadFile, NoParse, NothingRead
  <2>2. ParseFields'
    BY <1>2 DEF parseLeadFile, NoParse, ParseFields
  <2>3. LoopInv'
    BY <2>1, FreshLoop, PTL
  <2> QED
    BY <2>2, <2>3
<1>3. CASE InvalidCandidate
  <2>1. ParseFields'
    BY <1>3 DEF InvalidCandidate, ParseFields
  <2>2. /\ parse'.file = parse.file /\ parse'.at = parse.at + 1 /\ parse'.leads = parse.leads
        /\ parse'.seen = parse.seen /\ parse'.duplicateCount = parse.duplicateCount
        /\ parse'.invalidCount = parse.invalidCount + 1
    BY <1>3 DEF InvalidCandidate, ParseFields
  <2>3. LoopType'
    BY <2>2 DEF LoopInv, LoopType
  <2>4. parse'.invalidCount + parse'.duplicateCount = parse.invalidCount + parse.duplicateCount + 1
    BY <2>2 DEF LoopInv, LoopType
  <2>5. candidate.value \notin Address
    BY <1>3 DEF InvalidCandidate
  <2> QED
    BY <2>1, <2>2, <2>3, <2>4, <2>5, SkippedCandidate
<1>4. CASE DuplicateCandidate
  <2>1. ParseFields'
    BY <1>4 DEF DuplicateCandidate, ParseFields
  <2>2. /\ parse'.file = parse.file /\ parse'.at = parse.at + 1 /\ parse'.leads = parse.leads
        /\ parse'.seen = parse.seen /\ parse'.duplicateCount = parse.duplicateCount + 1
        /\ parse'.invalidCount = parse.invalidCount
    BY <1>4 DEF DuplicateCandidate, ParseFields
  <2>3. LoopType'
    BY <2>2 DEF LoopInv, LoopType
  <2>4. parse'.invalidCount + parse'.duplicateCount = parse.invalidCount + parse.duplicateCount + 1
    BY <2>2 DEF LoopInv, LoopType
  <2>5. normalizeEmail(candidate.value) \in parse.seen
    BY <1>4 DEF DuplicateCandidate
  <2> QED
    BY <2>1, <2>2, <2>3, <2>4, <2>5, SkippedCandidate
<1>5. CASE NewCandidate
  <2>1. ParseFields'
    BY <1>5 DEF NewCandidate, ParseFields
  <2> QED
    BY <1>5, <2>1, AddedCandidate
<1>6. CASE Parsed
  <2>1. ParseFields'
    BY <1>6 DEF Parsed, ParseFields
  <2>2. /\ parse'.file = parse.file /\ parse'.at = parse.at /\ parse'.leads = parse.leads
        /\ parse'.seen = parse.seen /\ parse'.duplicateCount = parse.duplicateCount
        /\ parse'.invalidCount = parse.invalidCount
    BY <1>6 DEF Parsed, ParseFields
  <2>3. LoopInv'
    BY <2>2 DEF LoopInv, LoopType
  <2> QED
    BY <2>1, <2>3
<1>7. ASSUME NEW f, selectFile(f) \/ Previewed(f) PROVE UNCHANGED parse
  BY <1>7 DEF selectFile, Previewed
<1> QED
  BY <1>1, <1>2, <1>3, <1>4, <1>5, <1>6, <1>7 DEF Next, vars, submit

\* The loop's invariant holds throughout.
THEOREM LoopCorrect == Spec => [](LoopInv /\ ParseFields)
<1> QED
  BY LoopInit, LoopNext, PTL DEF Spec

\* parseLeadFile never lists two leads with one normalised address.
THEOREM DistinctCorrect == Spec => []LeadsDistinct
<1>1. LoopInv => LeadsDistinct
  <2> SUFFICES ASSUME LoopInv, NEW m \in DOMAIN parse.leads, NEW n \in DOMAIN parse.leads, m # n,
                      parse.leads[m].local = parse.leads[n].local,
                      Lower[parse.leads[m].domain] = Lower[parse.leads[n].domain]
               PROVE  FALSE
    BY DEF LeadsDistinct
  <2>1. parse.leads[m] \in Lead /\ parse.leads[n] \in Lead
    BY DEF LoopInv, LoopType
  <2>2. parse.leads[m].domain = parse.leads[n].domain
    BY DEF LoopInv, Normal
  <2>3. parse.leads[m] = parse.leads[n]
    BY <2>1, <2>2 DEF Lead
  <2> QED
    BY <2>3 DEF LoopInv
<1> QED
  BY <1>1, LoopCorrect, PTL

\* parseLeadFile counts every candidate once and loses no address.
THEOREM CountedCorrect == Spec => []EveryRowCounted
<1>1. LoopInv => EveryRowCounted
  <2> SUFFICES ASSUME LoopInv, NEW n \in 1..parse.at, Candidates(parse.file)[n].value \in Address
               PROVE  \E m \in DOMAIN parse.leads :
                        /\ parse.leads[m].local = Candidates(parse.file)[n].value.local
                        /\ Lower[parse.leads[m].domain] = Lower[Candidates(parse.file)[n].value.domain]
    BY DEF EveryRowCounted, LoopInv
  <2> DEFINE value == Candidates(parse.file)[n].value
  <2>1. PICK m \in DOMAIN parse.leads : parse.leads[m] = normalizeEmail(value)
    BY DEF LoopInv
  <2>2. /\ normalizeEmail(value).local = value.local
        /\ Lower[normalizeEmail(value).domain] = Lower[value.domain]
    BY NormalizeNormal DEF Normal
  <2> QED
    BY <2>1, <2>2
<1> QED
  BY <1>1, LoopCorrect, PTL

-----------------------------------------------------------------------------
(* The preview *)

\* An address in lower case is a lead.
LEMMA LoweredType ==
    ASSUME NEW address \in Lead
    PROVE  Lowered(address) \in Lead /\ Lowered([local |-> address.local, domain |-> Lower[address.domain]]) = Lowered(address)
<1>1. address.local \in Part /\ address.domain \in Part
  BY DEF Lead
<1>2. Lower[address.local] \in Part /\ Lower[address.domain] \in Part /\ Lower[Lower[address.domain]] = Lower[address.domain]
  BY <1>1, LowerAssumption
<1> QED
  BY <1>2 DEF Lowered, Lead

\* What a value adds to a preview.
LEMMA PreviewStepFields ==
    ASSUME NEW p \in Preview, NEW value, NEW q, q = PreviewStep(p, value)
    PROVE  /\ q \in Preview
           /\ value \notin Address => q.seen = p.seen /\ q.valid = p.valid /\ q.invalid = p.invalid + 1 /\ q.duplicate = p.duplicate
           /\ value \in Address /\ Lowered(value) \in p.seen =>
                q.seen = p.seen /\ q.valid = p.valid /\ q.invalid = p.invalid /\ q.duplicate = p.duplicate + 1
           /\ value \in Address /\ Lowered(value) \notin p.seen =>
                q.seen = p.seen \cup {Lowered(value)} /\ q.valid = p.valid + 1 /\ q.invalid = p.invalid /\ q.duplicate = p.duplicate
<1>1. CASE value \notin Address
  <2>1. q = [p EXCEPT !.invalid = p.invalid + 1]
    BY <1>1 DEF PreviewStep
  <2> QED
    BY <1>1, <2>1 DEF Preview
<1>2. CASE value \in Address /\ Lowered(value) \in p.seen
  <2>1. q = [p EXCEPT !.duplicate = p.duplicate + 1]
    BY <1>2 DEF PreviewStep
  <2> QED
    BY <1>2, <2>1 DEF Preview
<1>3. CASE value \in Address /\ Lowered(value) \notin p.seen
  <2>1. Lowered(value) \in Lead
    BY <1>3, LoweredType, CellAssumption DEF Lead
  <2>2. q = [p EXCEPT !.seen = p.seen \cup {Lowered(value)}, !.valid = p.valid + 1]
    BY <1>3 DEF PreviewStep
  <2>3. PICK seen : seen = p.seen \cup {Lowered(value)}
    OBVIOUS
  <2>4. seen \in SUBSET Lead /\ p.valid + 1 \in Nat
    BY <2>1, <2>3 DEF Preview
  <2>5. q = [p EXCEPT !.seen = seen, !.valid = p.valid + 1]
    BY <2>2, <2>3
  <2>6. /\ q \in Preview
        /\ q.seen = seen /\ q.valid = p.valid + 1 /\ q.invalid = p.invalid /\ q.duplicate = p.duplicate
    BY <2>4, <2>5 DEF Preview
  <2> QED
    BY <1>3, <2>3, <2>6
<1> QED
  BY <1>1, <1>2, <1>3

\* r[n] is the preview after the first n values.
After(r, values) ==
    r[0] = NoPreview /\ \A n \in 1..Len(values) : r[n] = PreviewStep(r[n - 1], values[n])

\* The preview, value by value.
LEMMA PreviewsSteps ==
    ASSUME NEW file \in File
    PROVE  /\ Previews(file) \in [0..Len(previewValues(file)) -> Preview]
           /\ After(Previews(file), previewValues(file))
<1>1. PICK values : values = previewValues(file)
  OBVIOUS
<1>2. values \in Seq(Cell)
  BY <1>1, ReadersAgree
<1>3. PICK N \in Nat : N = Len(values)
  BY <1>2
<1>4. NoPreview \in Preview /\ \A p \in Preview : \A v : PreviewStep(p, v) \in Preview
  BY PreviewStepFields DEF NoPreview, Preview
<1>5. PICK h : h = [p \in Preview \X (1..N) |-> PreviewStep(p[1], values[p[2]])]
  OBVIOUS
<1>6. h \in [Preview \X (1..N) -> Preview]
  BY <1>4, <1>5
<1>7. PICK e : e = NoPreview
  OBVIOUS
<1>8. PICK g \in [0..N -> Preview] : Upto(N, g, e, h)
  <2>1. e \in Preview /\ N \in Nat
    BY <1>3, <1>4, <1>7
  <2> QED
    BY <1>6, <2>1, RecursionTo
<1>9. ASSUME NEW n \in 1..N PROVE g[n] = PreviewStep(g[n - 1], values[n])
  <2>1. <<g[n - 1], n>> \in Preview \X (1..N)
    <3>1. n - 1 \in 0..N
      BY <1>3
    <3>2. g[n - 1] \in Preview
      BY <1>8, <3>1
    <3> QED
      BY <3>2
  <2> QED
    BY <1>5, <1>8, <2>1 DEF Upto
<1>10. g = [n \in 0..N |-> IF n = 0 THEN e ELSE PreviewStep(g[n - 1], values[n])]
  <2>1. PICK f : f = [n \in 0..N |-> IF n = 0 THEN e ELSE PreviewStep(g[n - 1], values[n])]
    OBVIOUS
  <2>2. ASSUME NEW n \in 0..N PROVE f[n] = g[n]
    <3>1. CASE n = 0
      BY <1>8, <2>1, <3>1 DEF Upto
    <3>2. CASE n # 0
      <4>1. n \in 1..N /\ n \in 0..N
        BY <1>3, <3>2
      <4> QED
        BY <1>9, <2>1, <3>2, <4>1
    <3> QED
      BY <3>1, <3>2
  <2>3. DOMAIN f = 0..N
    BY <2>1
  <2> QED
    BY <1>8, <2>1, <2>2, <2>3
<1>11. PICK r : /\ r = CHOOSE f : f = [n \in 0..Len(values) |->
                                        IF n = 0 THEN NoPreview ELSE PreviewStep(f[n - 1], values[n])]
                /\ Previews(file) = r
  BY <1>1 DEF Previews
<1>12. r = [n \in 0..N |-> IF n = 0 THEN e ELSE PreviewStep(r[n - 1], values[n])]
  BY <1>3, <1>7, <1>10, <1>11
<1>13. r[0] = e /\ \A n \in 1..N : r[n] = PreviewStep(r[n - 1], values[n])
  <2>1. 0 \in 0..N /\ \A n \in 1..N : n \in 0..N /\ n # 0
    BY <1>3
  <2> QED
    BY <1>12, <2>1
<1>14. r \in [0..N -> Preview]
  <2>1. PICK T : T = {n \in 0..N : r[n] \in Preview}
    OBVIOUS
  <2>2. 0 \in T
    BY <1>3, <1>4, <1>7, <1>13, <2>1
  <2>3. ASSUME NEW n \in 1..N, n - 1 \in T PROVE n \in T
    <3>1. r[n - 1] \in Preview /\ n \in 0..N
      BY <1>3, <2>1, <2>3
    <3>2. r[n] \in Preview
      BY <1>4, <1>13, <3>1
    <3> QED
      BY <2>1, <3>1, <3>2
  <2>4. \A n \in 0..N : n \in T
    BY <1>3, <2>2, <2>3, InductionTo
  <2> QED
    BY <1>12, <2>1, <2>4
<1> QED
  BY <1>1, <1>3, <1>7, <1>11, <1>13, <1>14 DEF After

\* A preview counts each value once, and has seen something only if it has counted
\* a valid one.
LEMMA PreviewsCount ==
    ASSUME NEW file \in File, NEW n \in 0..Len(previewValues(file))
    PROVE  /\ Previews(file)[n] \in Preview
           /\ Detected(Previews(file)[n]) = n
           /\ Previews(file)[n].valid = 0 => Previews(file)[n].seen = {}
<1>1. PICK r, values : r = Previews(file) /\ values = previewValues(file)
  OBVIOUS
<1>2. PICK N \in Nat : N = Len(values)
  BY <1>1, ReadersAgree
<1>3. r \in [0..N -> Preview] /\ r[0] = NoPreview /\ \A k \in 1..N : r[k] = PreviewStep(r[k - 1], values[k])
  BY <1>1, <1>2, PreviewsSteps DEF After
<1>4. PICK T : T = {k \in 0..N : Detected(r[k]) = k /\ (r[k].valid = 0 => r[k].seen = {})}
  OBVIOUS
<1>5. 0 \in T
  BY <1>2, <1>3, <1>4 DEF NoPreview, Detected
<1>6. ASSUME NEW k \in 1..N, k - 1 \in T PROVE k \in T
  <2>1. PICK p, q : p = r[k - 1] /\ q = r[k]
    OBVIOUS
  <2>2. k - 1 \in 0..N /\ k \in 0..N /\ k \in Nat
    BY <1>2
  <2>3. p \in Preview /\ q = PreviewStep(p, values[k]) /\ Detected(p) = k - 1 /\ (p.valid = 0 => p.seen = {})
    BY <1>3, <1>4, <1>6, <2>1, <2>2
  <2>4. p.valid \in Nat /\ p.invalid \in Nat /\ p.duplicate \in Nat
    BY <2>3 DEF Preview
  <2>5. \/ q.seen = p.seen /\ q.valid = p.valid /\ q.invalid = p.invalid + 1 /\ q.duplicate = p.duplicate
        \/ q.seen = p.seen /\ q.valid = p.valid /\ q.invalid = p.invalid /\ q.duplicate = p.duplicate + 1
        \/ q.valid = p.valid + 1 /\ q.invalid = p.invalid /\ q.duplicate = p.duplicate
    BY <2>3, PreviewStepFields
  <2>6. Detected(q) = k
    BY <2>2, <2>3, <2>4, <2>5 DEF Detected
  <2>7. q.valid = 0 => q.seen = {}
    BY <2>3, <2>4, <2>5
  <2> QED
    BY <1>4, <2>1, <2>2, <2>6, <2>7
<1>7. \A k \in 0..N : k \in T
  BY <1>2, <1>5, <1>6, InductionTo
<1> QED
  BY <1>1, <1>2, <1>3, <1>4, <1>7

\* What a preview holds in the end is of its type.
LEMMA PreviewType ==
    ASSUME NEW file \in File
    PROVE  previewLeadFile(file) \in Preview
<1>1. Len(previewValues(file)) \in 0..Len(previewValues(file))
  BY ReadersAgree
<1> QED
  BY <1>1, PreviewsCount DEF previewLeadFile

-----------------------------------------------------------------------------
(* The loop beside the preview *)

\* The file of a request that reached the loop.
Accepted(f) ==
    /\ f \in File /\ ~Malformed(f) /\ Len(Candidates(f)) <= maxLeads
    /\ parse.at \in 0..Len(Candidates(f))

\* Such a request is where the preview was after as many values, if both read the
\* same: as many of them are invalid, and every lead has been seen in lower case.
Beside(f) ==
    SplitAlike(f) =>
        /\ Previews(f)[parse.at].invalid = parse.invalidCount
        /\ Previews(f)[parse.at].valid <= Len(parse.leads)
        /\ \A lead \in parse.seen : Lowered(lead) \in Previews(f)[parse.at].seen

AgreeInv ==
    /\ parse.outcome # "none" => parse.file \in File
    /\ parse.outcome \in {"running", "parsed", "NO_VALID_RECIPIENTS"} => Accepted(parse.file) /\ Beside(parse.file)
    /\ parse.outcome \in {"parsed", "NO_VALID_RECIPIENTS"} =>
         /\ parse.at = Len(Candidates(parse.file))
         /\ parse.leads = <<>> <=> parse.outcome = "NO_VALID_RECIPIENTS"
    /\ parse.outcome = "INVALID_FILE" /\ parse.file.utf8 => Malformed(parse.file)
    /\ parse.outcome = "TOO_MANY_LEADS" => Len(Candidates(parse.file)) > maxLeads

\* The dialog has one of the user's files.
DialogInv ==
    /\ disk \subseteq File
    /\ dialog.file # NoFile => dialog.file \in disk

\* Every step keeps the dialog's file one of them.
LEMMA DialogNext == DialogInv /\ [Next]_vars => DialogInv'
<1> SUFFICES ASSUME DialogInv, [Next]_vars PROVE DialogInv'
  OBVIOUS
<1>1. CASE UNCHANGED <<disk, dialog>>
  BY <1>1 DEF DialogInv
<1>2. ASSUME NEW f \in disk, selectFile(f) PROVE DialogInv'
  BY <1>2 DEF selectFile, DialogInv
<1>3. ASSUME NEW f \in disk, Previewed(f) PROVE DialogInv'
  BY <1>3 DEF Previewed, DialogInv
<1>4. ASSUME NEW f, parseLeadFile(f) PROVE UNCHANGED <<disk, dialog>>
  BY <1>4 DEF parseLeadFile
<1>5. CASE InvalidCandidate \/ DuplicateCandidate \/ NewCandidate \/ Parsed
  BY <1>1, <1>5 DEF InvalidCandidate, DuplicateCandidate, NewCandidate, Parsed
<1> QED
  BY <1>1, <1>2, <1>3, <1>4, <1>5 DEF Next, vars, submit

\* A request begins where the preview does.
LEMMA AgreeFresh ==
    ASSUME NEW f \in File, parseLeadFile(f)
    PROVE  AgreeInv'
<1>1. PICK o : o = IF ~f.supported \/ f.extension = "other" THEN "UNSUPPORTED_FILE"
                   ELSE IF ~f.utf8 \/ Malformed(f) THEN "INVALID_FILE"
                   ELSE IF Len(Candidates(f)) > maxLeads THEN "TOO_MANY_LEADS"
                   ELSE "running"
  OBVIOUS
<1>2. /\ parse'.outcome = o /\ parse'.file = f /\ parse'.at = 0 /\ parse'.leads = <<>>
      /\ parse'.seen = {} /\ parse'.invalidCount = 0
  BY <1>1 DEF parseLeadFile, NoParse
<1>3. PICK n \in Nat : n = Len(Candidates(f))
  BY ReadersAgree
<1>4. Previews(f)[0].invalid = 0 /\ Previews(f)[0].valid = 0
  BY PreviewsSteps DEF After, NoPreview
<1>5. o \in {"UNSUPPORTED_FILE", "INVALID_FILE", "TOO_MANY_LEADS", "running"}
  BY <1>1
<1>6. o = "running" => ~Malformed(f) /\ n <= maxLeads
  BY <1>1, <1>3, LimitAssumption
<1>7. o = "INVALID_FILE" /\ f.utf8 => Malformed(f)
  BY <1>1
<1>8. o = "TOO_MANY_LEADS" => n > maxLeads
  BY <1>1, <1>3
<1>9. parse'.outcome = "running" => Accepted(f)' /\ Beside(f)'
  <2>1. 0 \in 0..n /\ Len(<<>>) = 0
    BY <1>3
  <2> QED
    BY <1>2, <1>3, <1>4, <1>6, <2>1 DEF Accepted, Beside
<1> QED
  BY <1>2, <1>3, <1>5, <1>7, <1>8, <1>9 DEF AgreeInv

\* There is a next candidate, of which the row is a number.
LEMMA CandidateType ==
    ASSUME LoopInv, AgreeInv, Running
    PROVE  /\ Accepted(parse.file) /\ parse.at + 1 \in 0..Len(Candidates(parse.file))
           /\ candidate \in Candidate
<1>1. PICK f, t, k : f = parse.file /\ t = Candidates(f) /\ k = parse.at
  OBVIOUS
<1>2. Accepted(f)
  BY <1>1 DEF AgreeInv, Running
<1>3. f \in File /\ k \in Nat /\ k < Len(t)
  BY <1>1, <1>2 DEF Accepted, Running, LoopInv, LoopType
<1>4. t \in Seq(Candidate)
  BY <1>1, <1>3, ReadersAgree
<1>5. PICK n \in Nat : n = Len(t)
  BY <1>4
<1>6. k + 1 \in 1..n /\ k + 1 \in 0..n
  BY <1>3, <1>5
<1>7. t[k + 1] \in Candidate
  BY <1>4, <1>5, <1>6
<1>8. candidate = t[k + 1]
  BY <1>1 DEF candidate
<1> QED
  BY <1>1, <1>2, <1>5, <1>6, <1>7, <1>8

\* The next value of the preview is its value, and what it adds there.
LEMMA BesideNext ==
    ASSUME LoopInv, AgreeInv, Running, SplitAlike(parse.file)
    PROVE  LET f == parse.file
               p == Previews(f)[parse.at]
               q == Previews(f)[parse.at + 1]
           IN  p \in Preview /\ q = PreviewStep(p, candidate.value)
<1>1. PICK f, s, t, k : f = parse.file /\ s = previewValues(f) /\ t = Candidates(f) /\ k = parse.at
  OBVIOUS
<1>2. f \in File /\ k \in Nat /\ k < Len(t)
  BY <1>1, CandidateType DEF Accepted, Running, LoopInv, LoopType
<1>3. s \in Seq(Cell) /\ t \in Seq(Candidate) /\ Agree(s, t)
  BY <1>1, <1>2, ReadersAgree
<1>4. PICK n \in Nat : n = Len(t) /\ n = Len(s)
  BY <1>3 DEF Agree
<1>5. k + 1 \in 1..n /\ k \in 0..n /\ k + 1 \in 0..n
  BY <1>2, <1>4
<1>6. t[k + 1].value = s[k + 1]
  BY <1>3, <1>4, <1>5 DEF Agree
<1>7. candidate = t[k + 1]
  BY <1>1 DEF candidate
<1>8. Previews(f) \in [0..n -> Preview] /\ Previews(f)[k + 1] = PreviewStep(Previews(f)[k + 1 - 1], s[k + 1])
  BY <1>1, <1>2, <1>4, <1>5, PreviewsSteps DEF After
<1>9. k + 1 - 1 = k /\ Previews(f)[k] \in Preview
  BY <1>2, <1>5, <1>8
<1> QED
  BY <1>1, <1>6, <1>7, <1>8, <1>9

\* The loop and the preview go on together.
LEMMA AgreeCandidate ==
    ASSUME LoopInv, ParseFields, AgreeInv, InvalidCandidate \/ DuplicateCandidate \/ NewCandidate
    PROVE  AgreeInv'
<1>1. Running
  BY DEF InvalidCandidate, DuplicateCandidate, NewCandidate
<1>2. PICK f, k, c, p, q : /\ f = parse.file /\ k = parse.at /\ c = candidate
                           /\ p = Previews(f)[k] /\ q = Previews(f)[k + 1]
  OBVIOUS
<1>3. Accepted(f) /\ k + 1 \in 0..Len(Candidates(f)) /\ c \in Candidate /\ f \in File /\ Beside(f)
  BY <1>1, <1>2, CandidateType DEF Accepted, AgreeInv, Running
<1>4. /\ parse'.outcome = "running" /\ parse'.file = f /\ parse'.at = k + 1
  BY <1>1, <1>2 DEF InvalidCandidate, DuplicateCandidate, NewCandidate, Running, ParseFields
<1>5. Accepted(f)'
  BY <1>3, <1>4 DEF Accepted
<1>6. SUFFICES ASSUME SplitAlike(f)
               PROVE  /\ q.invalid = parse'.invalidCount /\ q.valid <= Len(parse'.leads)
                      /\ \A lead \in parse'.seen : Lowered(lead) \in q.seen
  <2>1. ASSUME SplitAlike(f) => /\ q.invalid = parse'.invalidCount /\ q.valid <= Len(parse'.leads)
                                /\ \A lead \in parse'.seen : Lowered(lead) \in q.seen
        PROVE  Beside(f)'
    BY <1>2, <1>4, <2>1 DEF Beside
  <2> QED
    BY <1>3, <1>4, <1>5, <2>1 DEF AgreeInv
<1>7. p \in Preview /\ q = PreviewStep(p, c.value)
  BY <1>1, <1>2, <1>6, BesideNext
<1>8. /\ p.invalid = parse.invalidCount /\ p.valid <= Len(parse.leads)
      /\ \A lead \in parse.seen : Lowered(lead) \in p.seen
  BY <1>2, <1>3, <1>6 DEF Beside
<1>9. /\ p.valid \in Nat /\ p.invalid \in Nat /\ Len(parse.leads) \in Nat
      /\ parse.leads \in Seq(Lead) /\ parse.invalidCount \in Nat
  BY <1>7 DEF Preview, LoopInv, LoopType
<1>10. ASSUME c.value \in Address
       PROVE  /\ normalizeEmail(c.value) \in Lead
              /\ Lowered(normalizeEmail(c.value)) = Lowered(c.value)
  <2>1. c.value \in Lead
    BY <1>10, CellAssumption DEF Lead
  <2> QED
    BY <1>10, <2>1, LoweredType, NormalizeNormal DEF normalizeEmail
<1>11. CASE InvalidCandidate
  <2>1. c.value \notin Address /\ parse'.invalidCount = parse.invalidCount + 1
        /\ parse'.leads = parse.leads /\ parse'.seen = parse.seen
    BY <1>2, <1>11 DEF InvalidCandidate, ParseFields
  <2>2. q.seen = p.seen /\ q.valid = p.valid /\ q.invalid = p.invalid + 1
    BY <1>7, <2>1, PreviewStepFields
  <2> QED
    BY <1>8, <2>1, <2>2
<1>12. CASE DuplicateCandidate
  <2>1. /\ c.value \in Address /\ normalizeEmail(c.value) \in parse.seen
        /\ parse'.invalidCount = parse.invalidCount
        /\ parse'.leads = parse.leads /\ parse'.seen = parse.seen
    BY <1>2, <1>12 DEF DuplicateCandidate, ParseFields
  <2>2. Lowered(c.value) \in p.seen
    BY <1>8, <1>10, <2>1
  <2>3. q.seen = p.seen /\ q.valid = p.valid /\ q.invalid = p.invalid
    BY <1>7, <2>1, <2>2, PreviewStepFields
  <2> QED
    BY <1>8, <2>1, <2>3
<1>13. CASE NewCandidate
  <2>1. PICK lead : lead = normalizeEmail(c.value)
    OBVIOUS
  <2>2. /\ c.value \in Address /\ parse'.invalidCount = parse.invalidCount
        /\ parse'.leads = Append(parse.leads, lead) /\ parse'.seen = parse.seen \cup {lead}
    BY <1>2, <1>13, <2>1 DEF NewCandidate, ParseFields
  <2>3. lead \in Lead /\ Lowered(lead) = Lowered(c.value)
    BY <1>10, <2>1, <2>2
  <2>4. Len(parse'.leads) = Len(parse.leads) + 1
    BY <1>9, <2>2, <2>3, AppendProperties
  <2>5. q.invalid = p.invalid /\ q.valid <= p.valid + 1 /\ q.seen = p.seen \cup {Lowered(c.value)}
    <3>1. CASE Lowered(c.value) \in p.seen
      BY <1>7, <1>9, <2>2, <3>1, PreviewStepFields
    <3>2. CASE Lowered(c.value) \notin p.seen
      BY <1>7, <1>9, <2>2, <3>2, PreviewStepFields
    <3> QED
      BY <3>1, <3>2
  <2>6. q.valid <= Len(parse'.leads)
    <3>1. q.valid \in Nat
      BY <1>7, PreviewStepFields DEF Preview
    <3> QED
      BY <1>8, <1>9, <2>4, <2>5, <3>1
  <2>7. \A x \in parse'.seen : Lowered(x) \in q.seen
    BY <1>8, <2>2, <2>3, <2>5
  <2> QED
    BY <1>8, <2>2, <2>5, <2>6, <2>7
<1> QED
  BY <1>11, <1>12, <1>13

\* Every step keeps the loop beside the preview.
LEMMA AgreeNext == LoopInv /\ ParseFields /\ DialogInv /\ AgreeInv /\ [Next]_vars => AgreeInv'
<1> SUFFICES ASSUME LoopInv, ParseFields, DialogInv, AgreeInv, [Next]_vars PROVE AgreeInv'
  OBVIOUS
<1>1. CASE UNCHANGED parse
  BY <1>1 DEF AgreeInv, Accepted, Beside
<1>2. ASSUME NEW f \in disk, parseLeadFile(f) PROVE AgreeInv'
  BY <1>2, AgreeFresh DEF DialogInv
<1>3. CASE submit
  <2>1. PICK f : f = dialog.file
    OBVIOUS
  <2>2. f \in disk /\ parseLeadFile(f)
    BY <1>3, <2>1 DEF submit, DialogInv
  <2> QED
    BY <1>2, <2>2
<1>4. CASE InvalidCandidate \/ DuplicateCandidate \/ NewCandidate
  BY <1>4, AgreeCandidate
<1>5. CASE Parsed
  <2>1. PICK o : o = IF parse.leads = <<>> THEN "NO_VALID_RECIPIENTS" ELSE "parsed"
    OBVIOUS
  <2>2. /\ parse'.outcome = o /\ parse'.file = parse.file /\ parse'.at = parse.at /\ parse'.leads = parse.leads
        /\ parse'.seen = parse.seen /\ parse'.invalidCount = parse.invalidCount
        /\ parse.outcome = "running" /\ parse.at = Len(Candidates(parse.file))
    BY <1>5, <2>1 DEF Parsed, ParseFields
  <2>3. PICK f \in File : f = parse.file /\ Accepted(f) /\ Beside(f)
    BY <2>2 DEF AgreeInv
  <2>4. Accepted(f)' /\ Beside(f)' /\ f = parse'.file
    BY <2>2, <2>3 DEF Accepted, Beside
  <2>5. o \in {"NO_VALID_RECIPIENTS", "parsed"} /\ (parse.leads = <<>> <=> o = "NO_VALID_RECIPIENTS")
    BY <2>1
  <2> QED
    BY <2>2, <2>3, <2>4, <2>5 DEF AgreeInv
<1>6. ASSUME NEW f, selectFile(f) \/ Previewed(f) PROVE UNCHANGED parse
  BY <1>6 DEF selectFile, Previewed
<1> QED
  BY <1>1, <1>2, <1>3, <1>4, <1>5, <1>6 DEF Next, vars

UploadInv == LoopInv /\ ParseFields /\ DialogInv /\ AgreeInv

\* The inductive invariant holds initially and in every step.
LEMMA UploadInvariant == Spec => []UploadInv
<1>1. Init => UploadInv
  <2> SUFFICES ASSUME Init PROVE DialogInv /\ AgreeInv
    BY LoopInit DEF UploadInv
  <2>1. disk \subseteq File
    BY FileAssumption DEF Init
  <2> QED
    BY <2>1 DEF Init, DialogInv, AgreeInv, NoParse
<1>2. UploadInv /\ [Next]_vars => UploadInv'
  BY LoopNext, DialogNext, AgreeNext DEF UploadInv
<1> QED
  BY <1>1, <1>2, PTL DEF Spec

\* The two readers agree on every file that csv-parse and Papa split alike: what the
\* dialog offers the API parses with as many rows and invalid rows and no fewer
\* leads; what it blocks is not parsed.
THEOREM PreviewCorrect == Spec => []PreviewAgrees
<1>1. UploadInv => PreviewAgrees
  <2> SUFFICES ASSUME UploadInv, parse.outcome # "none", SplitAlike(parse.file)
               PROVE  PreviewAgrees
    BY DEF PreviewAgrees
  <2>1. PICK f \in File : f = parse.file /\ SplitAlike(f)
    BY DEF UploadInv, AgreeInv
  <2>2. PICK n \in Nat : n = Len(Candidates(f)) /\ n = Len(previewValues(f))
    BY <2>1, ReadersAgree DEF Agree
  <2>3. PICK preview \in Preview : /\ preview = previewLeadFile(f) /\ preview = Previews(f)[n]
                                   /\ Detected(preview) = n /\ (preview.valid = 0 => preview.seen = {})
    <3>1. n \in 0..Len(previewValues(f))
      BY <2>2
    <3> QED
      BY <2>2, <3>1, PreviewsCount DEF previewLeadFile
  <2>4. PreviewThrows(f) <=> Malformed(f) \/ n > maxLeads
    BY <2>1, <2>2, ReadersAgree
  <2>5. ASSUME parse.outcome \in {"parsed", "NO_VALID_RECIPIENTS"}
        PROVE  /\ ~Malformed(f) /\ n <= maxLeads /\ parse.at = n
               /\ preview.invalid = parse.invalidCount /\ preview.valid <= Len(parse.leads)
               /\ \A lead \in parse.seen : Lowered(lead) \in preview.seen
               /\ parse.leads = <<>> <=> parse.outcome = "NO_VALID_RECIPIENTS"
    <3>1. /\ Accepted(f) /\ Beside(f) /\ parse.at = n
          /\ (parse.leads = <<>> <=> parse.outcome = "NO_VALID_RECIPIENTS")
      BY <2>1, <2>2, <2>5 DEF UploadInv, AgreeInv
    <3> QED
      BY <2>1, <2>2, <2>3, <3>1 DEF Accepted, Beside
  <2>6. ASSUME parse.outcome = "parsed"
        PROVE  ~Blocked(f) /\ parse.at = Detected(preview) /\ parse.invalidCount = preview.invalid
               /\ preview.valid <= Len(parse.leads)
    <3>1. parse.leads # <<>>
      BY <2>5, <2>6
    <3>2. PICK lead \in parse.seen : TRUE
      <4>1. parse.leads \in Seq(Lead)
        BY DEF UploadInv, LoopInv, LoopType
      <4>2. 1 \in DOMAIN parse.leads
        BY <3>1, <4>1, EmptySeq
      <4> QED
        BY <4>2 DEF UploadInv, LoopInv
    <3>3. preview.valid # 0
      BY <2>3, <2>5, <2>6, <3>2
    <3>4. ~PreviewThrows(f)
      BY <2>2, <2>4, <2>5, <2>6, LimitAssumption
    <3> QED
      BY <2>3, <2>5, <2>6, <3>3, <3>4 DEF Blocked
  <2>7. ASSUME parse.outcome \in {"INVALID_FILE", "TOO_MANY_LEADS", "NO_VALID_RECIPIENTS"}, f.utf8
        PROVE  Blocked(f)
    <3>1. CASE parse.outcome = "INVALID_FILE"
      BY <2>1, <2>4, <2>7, <3>1 DEF UploadInv, AgreeInv, Blocked
    <3>2. CASE parse.outcome = "TOO_MANY_LEADS"
      BY <2>1, <2>2, <2>4, <3>2 DEF UploadInv, AgreeInv, Blocked
    <3>3. CASE parse.outcome = "NO_VALID_RECIPIENTS"
      <4>1. preview.valid <= Len(parse.leads) /\ parse.leads = <<>>
        BY <2>5, <3>3
      <4>2. preview.valid = 0
        BY <4>1 DEF Preview
      <4> QED
        BY <2>3, <4>2 DEF Blocked
    <3> QED
      BY <2>7, <3>1, <3>2, <3>3
  <2> QED
    BY <2>1, <2>3, <2>6, <2>7 DEF PreviewAgrees
<1> QED
  BY <1>1, UploadInvariant, PTL

-----------------------------------------------------------------------------
(* Types *)

TypeInv ==
    /\ disk \subseteq File
    /\ reading \in [disk -> 0..MaxReading]
    /\ dialog \in [file : disk \cup {NoFile}, preview : Preview]
    /\ parse \in Parse
    /\ Len(parse.invalidRows) <= invalidDetailLimit

\* What an invalid candidate adds to the details is a row, while there is room.
LEMMA DetailType ==
    ASSUME TypeInv, LoopInv, AgreeInv, InvalidCandidate
    PROVE  parse' \in Parse /\ Len(parse'.invalidRows) <= invalidDetailLimit
<1>1. PICK rows : rows = IF RoomForDetail(parse.invalidRows) THEN Append(parse.invalidRows, candidate.row)
                         ELSE parse.invalidRows
  OBVIOUS
<1>2. parse' = [parse EXCEPT !.at = parse.at + 1, !.invalidCount = parse.invalidCount + 1, !.invalidRows = rows]
  BY <1>1 DEF InvalidCandidate
<1>3. candidate.row \in Nat
  BY CandidateType DEF InvalidCandidate, Candidate
<1>4. parse.invalidRows \in Seq(Nat) /\ parse.at \in Nat /\ parse.invalidCount \in Nat
  BY DEF TypeInv, Parse
<1>5. rows \in Seq(Nat) /\ Len(rows) <= invalidDetailLimit
  <2>1. CASE RoomForDetail(parse.invalidRows)
    <3>1. rows = Append(parse.invalidRows, candidate.row)
      BY <1>1, <2>1
    <3>2. rows \in Seq(Nat) /\ Len(rows) = Len(parse.invalidRows) + 1
      BY <1>3, <1>4, <3>1, AppendProperties
    <3> QED
      BY <1>4, <2>1, <3>2, LimitAssumption DEF RoomForDetail
  <2>2. CASE ~RoomForDetail(parse.invalidRows)
    BY <1>1, <1>4, <2>2 DEF TypeInv
  <2> QED
    BY <2>1, <2>2
<1>6. parse' \in Parse /\ parse'.invalidRows = rows
  <2>1. PICK at, count \in Nat : at = parse.at + 1 /\ count = parse.invalidCount + 1
    BY <1>4
  <2>2. parse' = [parse EXCEPT !.at = at, !.invalidCount = count, !.invalidRows = rows]
    BY <1>2, <2>1
  <2> QED
    BY <1>5, <2>1, <2>2 DEF TypeInv, Parse
<1> QED
  BY <1>5, <1>6

\* Every step keeps the types.
LEMMA TypeNext == TypeInv /\ UploadInv /\ [Next]_vars => TypeInv'
<1> SUFFICES ASSUME TypeInv, UploadInv, [Next]_vars PROVE TypeInv'
  OBVIOUS
<1>1. CASE UNCHANGED vars
  BY <1>1 DEF vars, TypeInv
<1>2. ASSUME NEW f \in disk, selectFile(f) PROVE TypeInv'
  <2>1. reading' \in [disk -> 0..MaxReading]
    BY <1>2, LimitAssumption DEF selectFile, TypeInv
  <2>2. dialog' \in [file : disk \cup {NoFile}, preview : Preview]
    BY <1>2 DEF selectFile, NoPreview, Preview
  <2> QED
    BY <1>2, <2>1, <2>2 DEF selectFile, TypeInv
<1>3. ASSUME NEW f \in disk, Previewed(f) PROVE TypeInv'
  <2>1. reading' \in [disk -> 0..MaxReading]
    BY <1>3, LimitAssumption DEF Previewed, TypeInv
  <2>2. dialog' \in [file : disk \cup {NoFile}, preview : Preview]
    <3>1. previewLeadFile(f) \in Preview
      BY PreviewType DEF TypeInv
    <3> QED
      BY <1>3, <3>1 DEF Previewed, TypeInv
  <2> QED
    BY <1>3, <2>1, <2>2 DEF Previewed, TypeInv
<1>4. ASSUME NEW f \in disk, parseLeadFile(f) PROVE TypeInv'
  <2>1. PICK o : o = IF ~f.supported \/ f.extension = "other" THEN "UNSUPPORTED_FILE"
                     ELSE IF ~f.utf8 \/ Malformed(f) THEN "INVALID_FILE"
                     ELSE IF Len(Candidates(f)) > maxLeads THEN "TOO_MANY_LEADS"
                     ELSE "running"
    OBVIOUS
  <2>2. o \in Outcome /\ f \in File
    BY <2>1 DEF Outcome, TypeInv
  <2>3. parse' = [NoParse EXCEPT !.file = f, !.outcome = o]
    BY <1>4, <2>1 DEF parseLeadFile
  <2>4. <<>> \in Seq(Lead) /\ <<>> \in Seq(Nat) /\ Len(<<>>) <= invalidDetailLimit
    BY LimitAssumption
  <2>5. parse' \in Parse /\ parse'.invalidRows = <<>>
    BY <2>2, <2>3, <2>4 DEF NoParse, Parse
  <2> QED
    BY <1>4, <2>4, <2>5 DEF parseLeadFile, TypeInv
<1>5. CASE submit
  <2>1. PICK f : f = dialog.file
    OBVIOUS
  <2>2. f \in disk /\ parseLeadFile(f)
    BY <1>5, <2>1 DEF submit, UploadInv, DialogInv
  <2> QED
    BY <1>4, <2>2
<1>6. CASE InvalidCandidate
  BY <1>6, DetailType DEF InvalidCandidate, TypeInv, UploadInv
<1>7. CASE DuplicateCandidate
  <2>0. PICK at, count \in Nat : at = parse.at + 1 /\ count = parse.duplicateCount + 1
    BY DEF TypeInv, Parse
  <2>1. parse' = [parse EXCEPT !.at = at, !.duplicateCount = count]
    BY <1>7, <2>0 DEF DuplicateCandidate
  <2>2. parse' \in Parse /\ parse'.invalidRows = parse.invalidRows
    BY <2>0, <2>1 DEF TypeInv, Parse
  <2> QED
    BY <1>7, <2>2 DEF DuplicateCandidate, TypeInv
<1>8. CASE NewCandidate
  <2>1. PICK lead, seen, leads : lead = normalizeEmail(candidate.value) /\ seen = parse.seen \cup {lead}
                                 /\ leads = Append(parse.leads, lead)
    OBVIOUS
  <2>2. lead \in Lead
    BY <1>8, <2>1, NormalizeNormal DEF NewCandidate
  <2>3. seen \in SUBSET Lead /\ leads \in Seq(Lead)
    BY <2>1, <2>2, AppendProperties DEF TypeInv, Parse
  <2>0. PICK at \in Nat : at = parse.at + 1
    BY DEF TypeInv, Parse
  <2>4. parse' = [parse EXCEPT !.at = at, !.seen = seen, !.leads = leads]
    BY <1>8, <2>0, <2>1 DEF NewCandidate
  <2>5. parse' \in Parse /\ parse'.invalidRows = parse.invalidRows
    BY <2>0, <2>3, <2>4 DEF TypeInv, Parse
  <2> QED
    BY <1>8, <2>5 DEF NewCandidate, TypeInv
<1>9. CASE Parsed
  <2>1. PICK o \in Outcome : parse' = [parse EXCEPT !.outcome = o]
    BY <1>9 DEF Parsed, Outcome
  <2>2. parse' \in Parse /\ parse'.invalidRows = parse.invalidRows
    BY <2>1 DEF TypeInv, Parse
  <2> QED
    BY <1>9, <2>2 DEF Parsed, TypeInv
<1> QED
  BY <1>1, <1>2, <1>3, <1>4, <1>5, <1>6, <1>7, <1>8, <1>9 DEF Next

\* Every variable keeps its type, and the list of details its limit.
THEOREM TypeCorrect == Spec => []TypeOK
<1>1. Init => TypeInv
  <2> SUFFICES ASSUME Init PROVE TypeInv
    OBVIOUS
  <2>1. disk \subseteq File /\ reading \in [disk -> 0..MaxReading]
    BY FileAssumption, LimitAssumption DEF Init
  <2>2. dialog \in [file : disk \cup {NoFile}, preview : Preview]
    BY DEF Init, NoPreview, Preview
  <2>3. <<>> \in Seq(Lead) /\ <<>> \in Seq(Nat) /\ Len(<<>>) <= invalidDetailLimit
    BY LimitAssumption
  <2>4. parse \in Parse /\ parse.invalidRows = <<>>
    BY <2>3 DEF Init, NoParse, Parse, Outcome
  <2> QED
    BY <2>1, <2>2, <2>3, <2>4 DEF TypeInv
<1>2. TypeInv => TypeOK
  BY DEF TypeInv, TypeOK
<1> QED
  BY <1>1, <1>2, TypeNext, UploadInvariant, PTL DEF Spec
=============================================================================

-------------------------- MODULE Vectors_proofs ---------------------------
(***************************************************************************)
(* Vectors of unknown element type, under push() and assignment; and       *)
(* induction, stated with sets, which is how proofs about loops use it.    *)
(***************************************************************************)
EXTENDS Vectors, SequencesExt, SequenceTheorems, WellFoundedInduction, TLAPS

\* Every set of numbers that is not empty has a smallest element.
LEMMA SmallestNat ==
    ASSUME NEW S, S \subseteq Nat, S # {}
    PROVE  \E m \in S : m \in Nat /\ \A n \in S : n \in Nat /\ m <= n
<1> DEFINE R == OpToRel(<, Nat)
<1>1. IsWellFoundedOn(R, Nat)
  BY NatLessThanWellFounded, Zenon
<1>2. PICK m \in S : \A n \in S : ~(<<n, m>> \in R)
  <2> HIDE DEF R
  <2> QED
    BY <1>1, WFMin
<1>3. \A n \in S : n \in Nat /\ m \in Nat /\ (n < m => <<n, m>> \in R)
  BY DEF OpToRel
<1> HIDE DEF R
<1>4. ASSUME NEW n \in S PROVE n \in Nat /\ m <= n
  <2>1. n \in Nat /\ m \in Nat /\ ~(n < m)
    BY <1>2, <1>3
  <2> QED
    BY <2>1
<1> QED
  BY <1>3, <1>4

\* Induction: a set that has 0, and with each number the next one, has all.
LEMMA Induction ==
    ASSUME NEW S, 0 \in S, \A n \in Nat : n \in S => n + 1 \in S
    PROVE  \A n \in Nat : n \in S
<1> DEFINE Bad == Nat \ S
<1>1. Bad \subseteq Nat
  OBVIOUS
<1> SUFFICES ASSUME Bad # {} PROVE FALSE
  OBVIOUS
<1>2. PICK m \in Bad : m \in Nat /\ \A n \in Bad : n \in Nat /\ m <= n
  <2> HIDE DEF Bad
  <2> QED
    BY <1>1, SmallestNat
<1>3. m - 1 \in Nat /\ m - 1 \notin Bad
  BY <1>2
<1> QED
  BY <1>2, <1>3

\* Every sequence is a sequence of its own elements.
LEMMA SeqIsSeq ==
    ASSUME NEW T, NEW t \in Seq(T)
    PROVE  IsSeq(t)
<1>1. /\ t \in [1..Len(t) -> {t[i] : i \in DOMAIN t}]
      /\ Len(t) \in Nat
      /\ DOMAIN t = 1..Len(t)
  BY LenProperties
<1> QED
  BY <1>1 DEF IsSeq

\* Vec::new()
LEMMA EmptyIsSeq == IsSeq(<< >>) /\ Len(<< >>) = 0
BY DEF IsSeq

\* push(): the vector grows at its end and keeps what it had.
LEMMA AppendIsSeq ==
    ASSUME NEW s, IsSeq(s), NEW e
    PROVE  /\ IsSeq(Append(s, e)) /\ Append(s, e) # << >>
           /\ \A i \in 1..Len(Append(s, e)) :
                Append(s, e)[i] = e \/ \E j \in 1..Len(s) : Append(s, e)[i] = s[j]
<1> DEFINE T == {s[i] : i \in DOMAIN s} \cup {e}
<1>1. s \in Seq(T) /\ e \in T
  BY DEF IsSeq
<1> HIDE DEF T
<1>2. Append(s, e) \in Seq(T) /\ Append(s, e) # << >>
  BY <1>1, AppendProperties
<1>3. ASSUME NEW i \in 1..Len(Append(s, e)), Append(s, e)[i] # e
      PROVE  \E j \in 1..Len(s) : Append(s, e)[i] = s[j]
  <2>1. /\ Len(Append(s, e)) = Len(s) + 1 /\ Len(s) \in Nat
        /\ \A j \in 1..Len(s) : Append(s, e)[j] = s[j]
        /\ Append(s, e)[Len(s) + 1] = e
    BY <1>1, AppendProperties, LenProperties
  <2>2. i \in 1..Len(s)
    BY <2>1, <1>3
  <2> QED
    BY <2>1, <2>2
<1> QED
  BY <1>2, <1>3, SeqIsSeq

LEMMA AppendCells ==
    ASSUME NEW s, IsSeq(s), NEW e
    PROVE  /\ IsSeq(Append(s, e)) /\ Len(Append(s, e)) = Len(s) + 1
           /\ \A i \in 1..Len(s) : Append(s, e)[i] = s[i]
           /\ Append(s, e)[Len(s) + 1] = e
<1> DEFINE T == {s[i] : i \in DOMAIN s} \cup {e}
<1>1. s \in Seq(T) /\ e \in T
  BY DEF IsSeq
<1> HIDE DEF T
<1> QED
  BY <1>1, AppendProperties, AppendIsSeq

\* Vectors with the same elements in the same order are the same.
LEMMA SameCells ==
    ASSUME NEW s, IsSeq(s), NEW t, IsSeq(t), Len(s) = Len(t),
           \A i \in 1..Len(s) : s[i] = t[i]
    PROVE  s = t
<1> DEFINE T == {s[i] : i \in DOMAIN s} \cup {t[i] : i \in DOMAIN t}
<1>1. s \in Seq(T) /\ t \in Seq(T)
  BY DEF IsSeq
<1> HIDE DEF T
<1> QED
  BY <1>1, SeqEqual

\* extend(): the elements of two vectors.
LEMMA ConcatIsSeq ==
    ASSUME NEW s, IsSeq(s), NEW t, IsSeq(t)
    PROVE  IsSeq(s \o t) /\ Len(s \o t) = Len(s) + Len(t)
<1> DEFINE T == {s[i] : i \in DOMAIN s} \cup {t[i] : i \in DOMAIN t}
<1>1. s \in Seq(T) /\ t \in Seq(T)
  BY DEF IsSeq
<1> HIDE DEF T
<1>2. s \o t \in Seq(T) /\ Len(s \o t) = Len(s) + Len(t)
  BY <1>1, ConcatProperties
<1> QED
  BY <1>2, SeqIsSeq

\* The elements of one vector behind those of another.
LEMMA ConcatCells ==
    ASSUME NEW s, IsSeq(s), NEW t, IsSeq(t)
    PROVE  \A j \in 1..Len(s) + Len(t) :
             (s \o t)[j] = IF j <= Len(s) THEN s[j] ELSE t[j - Len(s)]
<1> DEFINE T == {s[i] : i \in DOMAIN s} \cup {t[i] : i \in DOMAIN t}
<1>1. s \in Seq({s[i] : i \in DOMAIN s}) /\ t \in Seq({t[i] : i \in DOMAIN t})
  BY DEF IsSeq
<1>2. s \in Seq(T) /\ t \in Seq(T)
  BY <1>1, SeqMonotonic
<1> HIDE DEF T
<1> QED
  BY <1>2, ConcatProperties

\* Nothing more is nothing more.
LEMMA ConcatNothing == ASSUME NEW s, IsSeq(s) PROVE s \o << >> = s
BY ConcatEmptySeq DEF IsSeq

\* A vector of one element.
LEMMA SingleIsSeq ==
    ASSUME NEW e
    PROVE  IsSeq(<<e>>) /\ Len(<<e>>) = 1
<1>1. <<e>> \in Seq({e}) /\ Len(<<e>>) = 1
  OBVIOUS
<1> QED
  BY <1>1, SeqIsSeq

\* A vector given by its elements.
LEMMA FunctionIsSeq ==
    ASSUME NEW n \in Nat, NEW v, v = [i \in 1..n |-> v[i]]
    PROVE  IsSeq(v) /\ Len(v) = n
<1> DEFINE T == {v[i] : i \in DOMAIN v}
<1>1. v \in [1..n -> T]
  OBVIOUS
<1> HIDE DEF T
<1>2. v \in Seq(T) /\ DOMAIN v = 1..n
  BY <1>1
<1>3. Len(v) = n
  BY <1>2, LenProperties
<1> QED
  BY <1>2, <1>3, SeqIsSeq

\* A vector has a length, which is 0 for the empty one only.
LEMMA LenIsNat ==
    ASSUME NEW s, IsSeq(s)
    PROVE  /\ Len(s) \in Nat
           /\ s # << >> => Len(s) \in Nat \ {0}
BY LenProperties, EmptySeq DEF IsSeq

\* A part of a vector is a vector of the same elements, in their order.
LEMMA SubSeqCells ==
    ASSUME NEW d, IsSeq(d), NEW p \in Nat, NEW e \in Nat, e <= Len(d)
    PROVE  /\ IsSeq(SubSeq(d, p + 1, e))
           /\ Len(SubSeq(d, p + 1, e)) = IF p + 1 <= e THEN e - p ELSE 0
           /\ \A i \in 1..Len(SubSeq(d, p + 1, e)) :
                SubSeq(d, p + 1, e)[i] = d[p + i] /\ p + i \in 1..Len(d)
<1> DEFINE T == {d[i] : i \in DOMAIN d}
           r == SubSeq(d, p + 1, e)
<1>1. d \in Seq(T)
  BY DEF IsSeq
<1> HIDE DEF T
<1>2. Len(d) \in Nat /\ \A i \in 1..Len(d) : d[i] \in T
  BY <1>1, LenProperties
<1>3. \A i \in p + 1..e : d[i] \in T
  BY <1>2
<1>4. /\ r \in Seq(T) /\ Len(r) = IF p + 1 <= e THEN e - (p + 1) + 1 ELSE 0
      /\ \A i \in 1..e - (p + 1) + 1 : r[i] = d[p + 1 + i - 1]
  BY <1>3, SubSeqProperties
<1> HIDE DEF r
<1>5. IsSeq(r)
  BY <1>4, SeqIsSeq
<1>6. Len(r) = IF p + 1 <= e THEN e - p ELSE 0
  BY <1>4
<1>7. ASSUME NEW i \in 1..Len(r) PROVE r[i] = d[p + i] /\ p + i \in 1..Len(d)
  <2>1. p + 1 <= e /\ i \in 1..e - p
    BY <1>6
  <2>2. r[i] = d[p + 1 + i - 1] /\ p + 1 + i - 1 = p + i
    BY <1>4, <2>1
  <2> QED
    BY <1>2, <2>1, <2>2
<1> QED
  BY <1>5, <1>6, <1>7 DEF r

\* A front part.
LEMMA PrefixCells ==
    ASSUME NEW d, IsSeq(d), NEW k \in Nat, k <= Len(d)
    PROVE  /\ IsSeq(SubSeq(d, 1, k)) /\ Len(SubSeq(d, 1, k)) = k
           /\ DOMAIN SubSeq(d, 1, k) = 1..k
           /\ \A i \in 1..k : SubSeq(d, 1, k)[i] = d[i]
<1> DEFINE r == SubSeq(d, 1, k)
<1>1. 0 + 1 = 1 /\ \A i \in Nat : 0 + i = i
  OBVIOUS
<1>2. /\ IsSeq(r) /\ Len(r) = IF 1 <= k THEN k - 0 ELSE 0
      /\ \A i \in 1..Len(r) : r[i] = d[0 + i]
  BY <1>1, SubSeqCells
<1> HIDE DEF r
<1>3. Len(r) = k
  BY <1>2
<1>4. DOMAIN r = 1..k
  BY <1>2, <1>3, LenProperties DEF IsSeq
<1> QED
  BY <1>1, <1>2, <1>3, <1>4 DEF r

-----------------------------------------------------------------------------
(***************************************************************************)
(* Vectors put together.                                                   *)
(***************************************************************************)
\* The first elements of v put together, one more for each index: the
\* function that FlattenSeq defines by recursion.
IsFlat(flat, v, n) ==
    flat = [i \in 1..n |-> IF i = 1 THEN v[i] ELSE flat[i - 1] \o v[i]]

LEMMA FlatExists ==
    ASSUME NEW v, NEW n \in Nat
    PROVE  \E flat : IsFlat(flat, v, n)
<1> DEFINE S == {m \in Nat : \E flat : IsFlat(flat, v, m)}
<1>1. 0 \in S
  <2> DEFINE g == [i \in 1..0 |-> << >>]
  <2>1. IsFlat(g, v, 0)
    BY DEF IsFlat
  <2> QED
    BY <2>1
<1>2. ASSUME NEW m \in Nat, m \in S PROVE m + 1 \in S
  <2>1. PICK g : IsFlat(g, v, m)
    BY <1>2
  <2> DEFINE last == IF m = 0 THEN v[m + 1] ELSE g[m] \o v[m + 1]
             h == [i \in 1..m + 1 |-> IF i = m + 1 THEN last ELSE g[i]]
  <2>2. ASSUME NEW i \in 1..m + 1
        PROVE  h[i] = IF i = 1 THEN v[i] ELSE h[i - 1] \o v[i]
    <3>1. CASE i = m + 1
      <4>1. h[i] = last /\ (i # 1 => h[i - 1] = g[m]) /\ (i = 1 <=> m = 0)
        BY <3>1
      <4> HIDE DEF h
      <4> QED
        BY <3>1, <4>1
    <3>2. CASE i # m + 1
      <4>1. i \in 1..m /\ h[i] = g[i] /\ (i # 1 => h[i - 1] = g[i - 1])
        BY <3>2
      <4> HIDE DEF h
      <4>2. g[i] = IF i = 1 THEN v[i] ELSE g[i - 1] \o v[i]
        BY <2>1, <4>1 DEF IsFlat
      <4> QED
        BY <4>1, <4>2
    <3> QED
      BY <3>1, <3>2
  <2>3. h = [i \in 1..m + 1 |-> h[i]]
    OBVIOUS
  <2> HIDE DEF h
  <2>4. IsFlat(h, v, m + 1)
    BY <2>2, <2>3 DEF IsFlat
  <2> QED
    BY <2>4
<1> HIDE DEF S
<1>3. n \in S
  BY <1>1, <1>2, Induction
<1> QED
  BY <1>3 DEF S

LEMMA FlattenIsFlat ==
    ASSUME NEW n \in Nat \ {0}, NEW v, v = [i \in 1..n |-> v[i]]
    PROVE  \E flat : IsFlat(flat, v, n) /\ FlattenSeq(v) = flat[n]
<1> DEFINE flatten[i \in 1..n] ==
             IF i = 1 THEN v[i] ELSE flatten[i - 1] \o v[i]
<1>1. Len(v) = n
  BY FunctionIsSeq
<1>2. IsFlat(flatten, v, n)
  <2>1. flatten = CHOOSE g : IsFlat(g, v, n)
    BY DEF IsFlat
  <2> HIDE DEF flatten
  <2> QED
    BY <2>1, FlatExists, Zenon
<1>3. FlattenSeq(v) = flatten[n]
  <2>1. Len(v) # 0
    BY <1>1
  <2> QED
    BY <1>1, <2>1 DEF FlattenSeq
<1> QED
  BY <1>2, <1>3

\* Vectors that begin alike are put together alike.
FlatsOf(n, v, flat, m, w, all) ==
    /\ n \in Nat /\ m \in Nat /\ n <= m /\ \A i \in 1..n : v[i] = w[i]
    /\ IsFlat(flat, v, n) /\ IsFlat(all, w, m)

LEMMA FlatAgree ==
    ASSUME NEW n, NEW m, NEW v, NEW w, NEW flat, NEW all,
           FlatsOf(n, v, flat, m, w, all)
    PROVE  \A i \in 1..n : flat[i] = all[i]
<1> USE DEF FlatsOf
<1> DEFINE S == {k \in Nat : \A i \in 1..n : i <= k => flat[i] = all[i]}
<1>1. 0 \in S
  OBVIOUS
<1>2. ASSUME NEW k \in Nat, k \in S PROVE k + 1 \in S
  <2>1. \A i \in 1..n : i <= k => flat[i] = all[i]
    BY <1>2
  <2> SUFFICES ASSUME k + 1 <= n PROVE flat[k + 1] = all[k + 1]
    BY <2>1
  <2> DEFINE j == k + 1
  <2>2. j \in 1..n /\ j \in 1..m /\ j - 1 = k /\ (j # 1 => k \in 1..n)
    OBVIOUS
  <2> HIDE DEF j
  <2>3. flat[j] = IF j = 1 THEN v[j] ELSE flat[j - 1] \o v[j]
    BY <2>2 DEF IsFlat
  <2>4. all[j] = IF j = 1 THEN w[j] ELSE all[j - 1] \o w[j]
    BY <2>2 DEF IsFlat
  <2>5. v[j] = w[j] /\ (j # 1 => flat[j - 1] = all[j - 1])
    BY <2>1, <2>2
  <2> QED
    BY <2>3, <2>4, <2>5 DEF j
<1> HIDE DEF S
<1>3. n \in S
  BY <1>1, <1>2, Induction
<1> QED
  BY <1>3 DEF S

=============================================================================

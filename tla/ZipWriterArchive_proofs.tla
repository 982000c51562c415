---------------------- MODULE ZipWriterArchive_proofs ----------------------
(***************************************************************************)
(* What ZipWriter is given is what a reader finds, for every value of its  *)
(* constants: the data behind each local header, on its way through        *)
(* encoder and cipher to the sink, and with the directory the archive that *)
(* Archive promises.                                                       *)
(***************************************************************************)
EXTENDS ZipWriterArchive, ZipWriterSink_proofs

-----------------------------------------------------------------------------
(***************************************************************************)
(* Parts put together.                                                     *)
(***************************************************************************)
LEMMA FlatIsSeq ==
    ASSUME NEW n \in Nat, NEW v, \A i \in 1..n : IsSeq(v[i]),
           NEW flat, IsFlat(flat, v, n)
    PROVE  \A i \in 1..n : IsSeq(flat[i])
<1> DEFINE S == {m \in Nat : m \in 1..n => IsSeq(flat[m])}
<1>1. 0 \in S
  OBVIOUS
<1>2. ASSUME NEW m \in Nat, m \in S PROVE m + 1 \in S
  <2> SUFFICES ASSUME m + 1 \in 1..n PROVE IsSeq(flat[m + 1])
    OBVIOUS
  <2> DEFINE k == m + 1
  <2>1. k \in 1..n /\ k - 1 = m /\ (k # 1 => m \in 1..n) /\ IsSeq(v[k])
    OBVIOUS
  <2>2. k # 1 => IsSeq(flat[k - 1])
    BY <1>2, <2>1
  <2> HIDE DEF k
  <2>3. flat[k] = IF k = 1 THEN v[k] ELSE flat[k - 1] \o v[k]
    BY <2>1 DEF IsFlat
  <2>4. IsSeq(flat[k])
    BY <2>1, <2>2, <2>3, ConcatIsSeq
  <2> QED
    BY <2>4 DEF k
<1> HIDE DEF S
<1>3. \A m \in Nat : m \in S
  BY <1>1, <1>2, Induction
<1> QED
  BY <1>3 DEF S

\* One part more is put behind the others.
LEMMA FlattenMore ==
    ASSUME NEW n \in Nat, NEW v, v = [i \in 1..n |-> v[i]],
           \A i \in 1..n : IsSeq(v[i]),
           NEW w, w = [i \in 1..n + 1 |-> w[i]],
           \A i \in 1..n : w[i] = v[i], IsSeq(w[n + 1])
    PROVE  /\ FlattenSeq(w) = FlattenSeq(v) \o w[n + 1]
           /\ IsSeq(FlattenSeq(v)) /\ IsSeq(FlattenSeq(w))
<1>1. IsSeq(v) /\ Len(v) = n /\ n + 1 \in Nat \ {0} /\ n + 1 \in 1..n + 1
      /\ n + 1 - 1 = n
  BY FunctionIsSeq
<1>2. PICK all : IsFlat(all, w, n + 1) /\ FlattenSeq(w) = all[n + 1]
  BY <1>1, FlattenIsFlat
<1>3. all[n + 1] = IF n + 1 = 1 THEN w[n + 1] ELSE all[n] \o w[n + 1]
  <2> DEFINE m == n + 1
  <2>1. m \in 1..m /\ m - 1 = n
    BY <1>1
  <2>2. IsFlat(all, w, m)
    BY <1>2
  <2> HIDE DEF m
  <2>3. all[m] = IF m = 1 THEN w[m] ELSE all[m - 1] \o w[m]
    BY <2>1, <2>2 DEF IsFlat
  <2> QED
    BY <2>1, <2>3 DEF m
<1>4. CASE n = 0
  <2>1. FlattenSeq(v) = << >>
    BY <1>1, <1>4, EmptySeq DEF FlattenSeq, IsSeq
  <2>2. FlattenSeq(w) = w[n + 1]
    BY <1>2, <1>3, <1>4
  <2>3. << >> \o w[n + 1] = w[n + 1]
    BY ConcatEmptySeq DEF IsSeq
  <2> QED
    BY <2>1, <2>2, <2>3, EmptyIsSeq
<1>5. CASE n # 0
  <2>1. PICK flat : IsFlat(flat, v, n) /\ FlattenSeq(v) = flat[n]
    <3>1. n \in Nat \ {0}
      BY <1>5
    <3> QED
      BY <3>1, FlattenIsFlat
  <2>2. n \in 1..n
    BY <1>5
  <2>3. FlatsOf(n, v, flat, n + 1, w, all)
    <3>1. n + 1 \in Nat /\ n <= n + 1 /\ \A i \in 1..n : v[i] = w[i]
      OBVIOUS
    <3> QED
      BY <1>2, <2>1, <3>1 DEF FlatsOf
  <2>4. flat[n] = all[n]
    BY <2>2, <2>3, FlatAgree
  <2>5. IsSeq(flat[n])
    BY <2>1, <2>2, FlatIsSeq
  <2>6. n + 1 # 1
    BY <1>5
  <2>7. FlattenSeq(w) = FlattenSeq(v) \o w[n + 1]
    BY <1>2, <1>3, <2>1, <2>4, <2>6
  <2>8. IsSeq(FlattenSeq(v))
    BY <2>1, <2>5
  <2>9. IsSeq(FlattenSeq(v) \o w[n + 1])
    BY <2>8, ConcatIsSeq
  <2> QED
    BY <2>7, <2>8, <2>9
<1> QED
  BY <1>4, <1>5

\* An empty part in front changes nothing.
BehindNothing(n, v, w) ==
    /\ n \in Nat /\ v = [i \in 1..n |-> v[i]] /\ \A i \in 1..n : IsSeq(v[i])
    /\ w = [i \in 1..n + 1 |-> w[i]] /\ w[1] = << >>
    /\ \A i \in 1..n : w[i + 1] = v[i]

LEMMA FlattenBehindNothing ==
    ASSUME NEW n, NEW v, NEW w, BehindNothing(n, v, w)
    PROVE  FlattenSeq(w) = FlattenSeq(v)
<1> USE DEF BehindNothing
<1>1. IsSeq(v) /\ Len(v) = n /\ n + 1 \in Nat \ {0}
  BY FunctionIsSeq
<1>2. PICK all : IsFlat(all, w, n + 1) /\ FlattenSeq(w) = all[n + 1]
  BY <1>1, FlattenIsFlat
<1>3. CASE n = 0
  <2>1. FlattenSeq(v) = << >>
    BY <1>1, <1>3, EmptySeq DEF FlattenSeq, IsSeq
  <2>2. all[1] = w[1]
    BY <1>2, <1>3 DEF IsFlat
  <2> QED
    BY <1>2, <1>3, <2>1, <2>2
<1>4. CASE n # 0
  <2>1. n \in Nat \ {0}
    BY <1>4
  <2>2. PICK flat : IsFlat(flat, v, n) /\ FlattenSeq(v) = flat[n]
    BY <2>1, FlattenIsFlat
  <2> DEFINE S == {m \in Nat : m \in 1..n => all[m + 1] = flat[m]}
  <2>3. 0 \in S
    OBVIOUS
  <2>4. ASSUME NEW m \in Nat, m \in S PROVE m + 1 \in S
    <3> SUFFICES ASSUME m + 1 \in 1..n PROVE all[m + 2] = flat[m + 1]
      OBVIOUS
    <3> DEFINE j == m + 1
               k == m + 2
    <3>1. /\ j \in 1..n /\ k \in 1..n + 1 /\ k - 1 = j /\ j - 1 = m /\ k # 1
          /\ (j # 1 => m \in 1..n) /\ w[k] = v[j] /\ IsSeq(v[j])
      <4>1. j \in 1..n /\ j + 1 = k
        OBVIOUS
      <4>2. w[j + 1] = v[j]
        BY <4>1
      <4> QED
        BY <4>1, <4>2
    <3>2. j # 1 => all[j] = flat[m]
      BY <2>4, <3>1
    <3> HIDE DEF j, k
    <3>3. all[k] = all[j] \o v[j]
      <4>1. all[k] = all[k - 1] \o w[k]
        BY <1>2, <3>1 DEF IsFlat
      <4> QED
        BY <3>1, <4>1
    <3>4. flat[j] = IF j = 1 THEN v[j] ELSE flat[j - 1] \o v[j]
      BY <2>2, <3>1 DEF IsFlat
    <3>5. CASE j # 1
      <4>1. all[k] = flat[j]
        BY <3>1, <3>2, <3>3, <3>4, <3>5
      <4> QED
        BY <4>1 DEF j, k
    <3>6. CASE j = 1
      <4>1. all[1] = << >>
        <5>1. 1 \in 1..n + 1
          OBVIOUS
        <5> QED
          BY <1>2, <5>1 DEF IsFlat
      <4>2. << >> \o v[j] = v[j]
        BY <3>1, ConcatEmptySeq DEF IsSeq
      <4>3. all[k] = flat[j]
        BY <3>3, <3>4, <3>6, <4>1, <4>2
      <4> QED
        BY <4>3 DEF j, k
    <3> QED
      BY <3>5, <3>6
  <2> HIDE DEF S
  <2>5. n \in S
    BY <2>3, <2>4, Induction
  <2>6. n \in 1..n
    BY <2>1
  <2>7. all[n + 1] = flat[n]
    BY <2>5, <2>6 DEF S
  <2> QED
    BY <1>2, <2>2, <2>7
<1> QED
  BY <1>3, <1>4

\* push() as extend().
LEMMA AppendConcat ==
    ASSUME NEW s, IsSeq(s), NEW e
    PROVE  s \o <<e>> = Append(s, e)
<1> DEFINE T == {s[i] : i \in DOMAIN s} \cup {e}
<1>1. s \in Seq(T) /\ e \in T
  BY DEF IsSeq
<1> HIDE DEF T
<1> QED
  BY <1>1, AppendIsConcat

-----------------------------------------------------------------------------
(***************************************************************************)
(* Extra fields.                                                           *)
(***************************************************************************)
CustomParts(x) ==
    [i \in 1..Len(x) |-> IF IsCustomExtra(x[i]) THEN <<x[i]>> ELSE << >>]

LEMMA CustomPartsAre ==
    ASSUME NEW x, IsSeq(x)
    PROVE  /\ CustomExtra(x) = FlattenSeq(CustomParts(x))
           /\ Len(x) \in Nat
           /\ CustomParts(x) = [i \in 1..Len(x) |-> CustomParts(x)[i]]
           /\ \A i \in 1..Len(x) : IsSeq(CustomParts(x)[i])
<1>1. CustomExtra(x) = FlattenSeq(CustomParts(x))
  BY DEF CustomExtra, CustomParts
<1>2. ASSUME NEW i \in 1..Len(x) PROVE IsSeq(CustomParts(x)[i])
  <2>1. CustomParts(x)[i] = <<x[i]>> \/ CustomParts(x)[i] = << >>
    BY DEF CustomParts
  <2> QED
    BY <2>1, EmptyIsSeq, SingleIsSeq
<1>3. CustomParts(x) = [i \in 1..Len(x) |-> CustomParts(x)[i]]
  BY DEF CustomParts
<1> QED
  BY <1>1, <1>2, <1>3, LenIsNat

\* One more cell of the caller's.
LEMMA CustomExtraGrows ==
    ASSUME NEW x, IsSeq(x), NEW cell, IsCustomExtra(cell)
    PROVE  CustomExtra(Append(x, cell)) = Append(CustomExtra(x), cell)
<1> DEFINE n == Len(x)
           y == Append(x, cell)
           v == CustomParts(x)
           w == CustomParts(y)
<1>1. /\ IsSeq(y) /\ Len(y) = n + 1 /\ n \in Nat /\ y[n + 1] = cell
      /\ \A i \in 1..n : y[i] = x[i]
  BY AppendCells, LenIsNat
<1>2. /\ CustomExtra(x) = FlattenSeq(v) /\ v = [i \in 1..n |-> v[i]]
      /\ \A i \in 1..n : IsSeq(v[i])
  BY CustomPartsAre
<1>3. CustomExtra(y) = FlattenSeq(w) /\ w = [i \in 1..n + 1 |-> w[i]]
  <2> HIDE DEF y, n
  <2> QED
    BY <1>1, CustomPartsAre
<1>4. \A i \in 1..n : w[i] = v[i]
  <2> HIDE DEF y
  <2> QED
    BY <1>1 DEF CustomParts
<1>5. w[n + 1] = <<cell>>
  <2> HIDE DEF y
  <2>1. n + 1 \in 1..Len(y) /\ y[n + 1] = cell
    BY <1>1
  <2> HIDE DEF n
  <2> QED
    BY <2>1 DEF CustomParts
<1> HIDE DEF v, w, n, y
<1>6. IsSeq(w[n + 1])
  BY <1>5, SingleIsSeq
<1>7. FlattenSeq(w) = FlattenSeq(v) \o <<cell>> /\ IsSeq(FlattenSeq(v))
  <2>1. FlattenSeq(w) = FlattenSeq(v) \o w[n + 1] /\ IsSeq(FlattenSeq(v))
    BY <1>1, <1>2, <1>3, <1>4, <1>6, FlattenMore, Zenon
  <2> QED
    BY <1>5, <2>1
<1>8. \A s : IsSeq(s) => s \o <<cell>> = Append(s, cell)
  BY AppendConcat
<1> QED
  BY <1>2, <1>3, <1>7, <1>8 DEF y

\* The ZIP64 record in front is none of the caller's.
LEMMA CustomExtraBehind ==
    ASSUME NEW x, IsSeq(x), NEW cell, ~IsCustomExtra(cell)
    PROVE  CustomExtra(<<cell>> \o x) = CustomExtra(x)
<1> DEFINE n == Len(x)
           y == <<cell>> \o x
           v == CustomParts(x)
           w == CustomParts(y)
<1>1. /\ IsSeq(y) /\ Len(y) = n + 1 /\ n \in Nat /\ y[1] = cell
      /\ \A i \in 1..n : y[i + 1] = x[i]
  <2>1. /\ IsSeq(y) /\ Len(y) = 1 + Len(x) /\ y[1] = cell
        /\ \A j \in 1..Len(x) : y[1 + j] = x[j]
    BY HeadedCells
  <2>2. Len(x) \in Nat
    BY LenIsNat
  <2> HIDE DEF y
  <2>3. \A i \in 1..Len(x) : i + 1 = 1 + i
    OBVIOUS
  <2> QED
    BY <2>1, <2>2, <2>3
<1>2. /\ CustomExtra(x) = FlattenSeq(v) /\ v = [i \in 1..n |-> v[i]]
      /\ \A i \in 1..n : IsSeq(v[i])
  BY CustomPartsAre
<1>3. CustomExtra(y) = FlattenSeq(w) /\ w = [i \in 1..n + 1 |-> w[i]]
  <2> HIDE DEF y, n
  <2> QED
    BY <1>1, CustomPartsAre
<1>4. \A i \in 1..n : w[i + 1] = v[i]
  <2> HIDE DEF y
  <2>1. \A i \in 1..n : i + 1 \in 1..Len(y) /\ y[i + 1] = x[i]
    BY <1>1
  <2> QED
    BY <2>1 DEF CustomParts
<1>5. w[1] = << >>
  <2> HIDE DEF y
  <2>1. 1 \in 1..Len(y) /\ y[1] = cell
    BY <1>1
  <2> QED
    BY <2>1 DEF CustomParts
<1> HIDE DEF v, w, n, y
<1>6. FlattenSeq(w) = FlattenSeq(v)
  <2>1. BehindNothing(n, v, w)
    BY <1>1, <1>2, <1>3, <1>4, <1>5 DEF BehindNothing
  <2> QED
    BY <2>1, FlattenBehindNothing
<1> QED
  BY <1>2, <1>3, <1>6 DEF y

LEMMA NoExtraIsCustom == CustomExtra(<< >>) = << >>
<1>1. Len(<< >>) = 0 /\ CustomParts(<< >>) = << >>
  BY DEF CustomParts
<1>2. CustomExtra(<< >>) = FlattenSeq(CustomParts(<< >>))
  BY EmptyIsSeq, CustomPartsAre
<1>3. FlattenSeq(<< >>) = << >>
  BY <1>1 DEF FlattenSeq
<1> QED
  BY <1>1, <1>2, <1>3

\* What the directory adds to an extra field, a reader does not show.
LEMMA CentralExtraIsCustom ==
    ASSUME NEW f, IsSeq(f.extra_field)
    PROVE  CustomExtra(CentralExtra(f)) = CustomExtra(f.extra_field)
<1> DEFINE payload == Zip64Payload(f.uncompressed_size, f.compressed_size,
                                   f.header_start)
           cell == <<"zip64", payload>>
<1>1. ~IsCustomExtra(cell)
  BY DEF IsCustomExtra
<1>2. CASE payload = << >>
  <2>1. CentralExtra(f) = << >> \o f.extra_field
    BY <1>2 DEF CentralExtra
  <2>2. << >> \o f.extra_field = f.extra_field
    BY ConcatEmptySeq DEF IsSeq
  <2> QED
    BY <2>1, <2>2
<1>3. CASE payload # << >>
  <2>1. CentralExtra(f) = <<cell>> \o f.extra_field
    BY <1>3 DEF CentralExtra
  <2> HIDE DEF cell
  <2> QED
    BY <1>1, <2>1, CustomExtraBehind
<1> QED
  BY <1>2, <1>3

-----------------------------------------------------------------------------
(***************************************************************************)
(* The blocks of a compressor, and what they carry.                        *)
(***************************************************************************)
Blocks(m, cells) ==
    \A i \in 1..Len(cells) : /\ cells[i] = <<"z", m, cells[i][3]>>
                             /\ IsSeq(cells[i][3])

Payloads(cells) == [i \in 1..Len(cells) |-> cells[i][3]]

Unpacked(cells) == FlattenSeq(Payloads(cells))

LEMMA NoBlocks ==
    ASSUME NEW m
    PROVE  Blocks(m, << >>) /\ Unpacked(<< >>) = << >>
<1>1. Len(<< >>) = 0 /\ Payloads(<< >>) = << >>
  BY DEF Payloads
<1> QED
  BY <1>1 DEF Blocks, Unpacked, FlattenSeq

\* One block more.
LEMMA BlockAdded ==
    ASSUME NEW m, NEW cells, IsSeq(cells), Blocks(m, cells), NEW b, IsSeq(b)
    PROVE  LET more == cells \o << <<"z", m, b>> >>
           IN  /\ IsSeq(more) /\ Blocks(m, more)
               /\ Unpacked(more) = Unpacked(cells) \o b
               /\ IsSeq(Unpacked(cells)) /\ IsSeq(Unpacked(more))
<1> DEFINE n == Len(cells)
           e == <<"z", m, b>>
           more == Append(cells, e)
           v == Payloads(cells)
           w == Payloads(more)
<1>1. cells \o <<e>> = more
  BY AppendConcat
<1>2. /\ IsSeq(more) /\ Len(more) = n + 1 /\ n \in Nat /\ more[n + 1] = e
      /\ \A i \in 1..n : more[i] = cells[i]
  <2> HIDE DEF e
  <2> QED
    BY AppendCells, LenIsNat
<1>3. e = <<"z", m, e[3]>> /\ e[3] = b
  OBVIOUS
<1> HIDE DEF more, e
<1>4. v = [i \in 1..n |-> v[i]] /\ w = [i \in 1..n + 1 |-> w[i]]
  BY <1>2 DEF Payloads
<1>5. /\ \A i \in 1..n : w[i] = v[i] /\ v[i] = cells[i][3]
      /\ w[n + 1] = b
  <2>1. n + 1 \in 1..Len(more) /\ \A i \in 1..n : i \in 1..Len(more)
    BY <1>2
  <2> HIDE DEF n
  <2>2. w[n + 1] = more[n + 1][3]
    BY <2>1 DEF Payloads
  <2> QED
    BY <1>2, <1>3, <2>1, <2>2 DEF Payloads, n
<1>6. \A i \in 1..n : IsSeq(v[i])
  BY <1>5 DEF Blocks
<1>7. Blocks(m, more)
  <2> SUFFICES ASSUME NEW i \in 1..Len(more)
               PROVE  more[i] = <<"z", m, more[i][3]>> /\ IsSeq(more[i][3])
    BY DEF Blocks
  <2>1. CASE i \in 1..n
    BY <1>2, <2>1 DEF Blocks
  <2>2. CASE i = n + 1
    BY <1>2, <1>3, <2>2
  <2> QED
    BY <1>2, <2>1, <2>2
<1> HIDE DEF v, w, n
<1>8. /\ FlattenSeq(w) = FlattenSeq(v) \o b
      /\ IsSeq(FlattenSeq(v)) /\ IsSeq(FlattenSeq(w))
  <2>1. \A i \in 1..n : w[i] = v[i]
    BY <1>5
  <2>2. IsSeq(w[n + 1]) /\ n \in Nat
    BY <1>2, <1>5
  <2>3. /\ FlattenSeq(w) = FlattenSeq(v) \o w[n + 1]
        /\ IsSeq(FlattenSeq(v)) /\ IsSeq(FlattenSeq(w))
    BY <1>4, <1>6, <2>1, <2>2, FlattenMore, Zenon
  <2> QED
    BY <1>5, <2>3
<1> QED
  BY <1>1, <1>2, <1>7, <1>8 DEF Unpacked, v, w, e

\* extend() twice.
LEMMA ConcatConcat ==
    ASSUME NEW s, IsSeq(s), NEW t, IsSeq(t), NEW u, IsSeq(u)
    PROVE  (s \o t) \o u = s \o (t \o u)
<1> DEFINE T == {s[i] : i \in DOMAIN s} \cup {t[i] : i \in DOMAIN t}
                  \cup {u[i] : i \in DOMAIN u}
<1>1. s \in Seq({s[i] : i \in DOMAIN s}) /\ t \in Seq({t[i] : i \in DOMAIN t})
      /\ u \in Seq({u[i] : i \in DOMAIN u})
  BY DEF IsSeq
<1>2. s \in Seq(T) /\ t \in Seq(T) /\ u \in Seq(T)
  BY <1>1, SeqMonotonic
<1> HIDE DEF T
<1> QED
  BY <1>2, ConcatAssociative

LEMMA NothingConcat == ASSUME NEW s, IsSeq(s) PROVE << >> \o s = s
BY ConcatEmptySeq DEF IsSeq

LEMMA ConcatPush ==
    ASSUME NEW s, IsSeq(s), NEW t, IsSeq(t), NEW e
    PROVE  s \o Append(t, e) = Append(s \o t, e)
<1>1. IsSeq(<<e>>) /\ IsSeq(s \o t)
  BY SingleIsSeq, ConcatIsSeq
<1>2. t \o <<e>> = Append(t, e) /\ (s \o t) \o <<e>> = Append(s \o t, e)
  BY <1>1, AppendConcat
<1>3. (s \o t) \o <<e>> = s \o (t \o <<e>>)
  BY <1>1, ConcatConcat
<1> QED
  BY <1>2, <1>3, Zenon

-----------------------------------------------------------------------------
(***************************************************************************)
(* Parts of the disk.                                                      *)
(***************************************************************************)
LEMMA RegionCells ==
    ASSUME NEW d, IsSeq(d), NEW p \in Nat, NEW n \in Nat, p + n <= Len(d)
    PROVE  /\ IsSeq(Region(d, p, n)) /\ Len(Region(d, p, n)) = n
           /\ \A j \in 1..n : Region(d, p, n)[j] = At(d, p + j - 1)
<1> DEFINE e == p + n
           r == SubSeq(d, p + 1, e)
<1>1. Len(d) \in Nat /\ e \in Nat /\ e <= Len(d) /\ p <= e /\ e - p = n
  BY LenIsNat
<1>2. Min({e, Len(d)}) = e
  BY <1>1, MinOfTwo
<1>3. Region(d, p, n) = r
  BY <1>2 DEF Region
<1> HIDE DEF e
<1>4. /\ IsSeq(r) /\ Len(r) = IF p + 1 <= e THEN e - p ELSE 0
      /\ \A i \in 1..Len(r) : r[i] = d[p + i]
  BY <1>1, SubSeqCells
<1> HIDE DEF r
<1>5. Len(r) = n
  BY <1>1, <1>4
<1>6. ASSUME NEW j \in 1..n PROVE r[j] = At(d, p + j - 1)
  <2>1. p + j - 1 >= 0 /\ p + j - 1 < Len(d) /\ p + j - 1 + 1 = p + j
    BY <1>1
  <2>2. r[j] = d[p + j]
    BY <1>4, <1>5
  <2> QED
    BY <2>1, <2>2 DEF At
<1> QED
  BY <1>3, <1>4, <1>5, <1>6

\* Disks that agree in front of p have the same parts there.
LEMMA RegionKept ==
    ASSUME NEW d, IsSeq(d), NEW e, IsSeq(e), NEW p \in Nat, NEW n \in Nat,
           p + n <= Len(d), p + n <= Len(e),
           \A q \in Nat : q < p + n => At(e, q) = At(d, q)
    PROVE  Region(e, p, n) = Region(d, p, n)
<1>1. /\ IsSeq(Region(d, p, n)) /\ Len(Region(d, p, n)) = n
      /\ \A j \in 1..n : Region(d, p, n)[j] = At(d, p + j - 1)
  BY RegionCells
<1>2. /\ IsSeq(Region(e, p, n)) /\ Len(Region(e, p, n)) = n
      /\ \A j \in 1..n : Region(e, p, n)[j] = At(e, p + j - 1)
  BY RegionCells
<1>3. \A j \in 1..n : p + j - 1 \in Nat /\ p + j - 1 < p + n
  OBVIOUS
<1>4. \A j \in 1..n : Region(e, p, n)[j] = Region(d, p, n)[j]
  BY <1>1, <1>2, <1>3
<1> QED
  BY <1>1, <1>2, <1>4, SameCells

\* The cells from file offset `from' up to `to'.
Between(d, from, to) == Region(d, from, to - from)

\* What is written at the end of a part continues it.
LEMMA RegionGrows ==
    ASSUME NEW d, IsSeq(d), NEW start \in Nat, NEW p \in Nat,
           start <= p, p <= Len(d), NEW out, IsSeq(out)
    PROVE  Between(WriteAt(d, p, out), start, p + Len(out))
             = Between(d, start, p) \o out
<1> DEFINE w == WriteAt(d, p, out)
           n == p - start
           k == Len(out)
           old == Region(d, start, n)
           new == Region(w, start, n + k)
<1>1. k \in Nat /\ n \in Nat /\ start + n = p /\ p + k - start = n + k
      /\ n + k \in Nat /\ start + (n + k) = p + k
  BY LenIsNat
<1>2. IsSeq(w) /\ p + k <= Len(w)
  BY WriteAtKeeps
<1>3. \A q \in Nat : At(w, q) = IF p <= q /\ q < p + k THEN out[q - p + 1]
                                                       ELSE At(d, q)
  BY WriteAtCells
<1> HIDE DEF w, n, k
<1>4. IsSeq(old) /\ Len(old) = n /\ \A j \in 1..n : old[j] = At(d, start + j - 1)
  <2>1. n \in Nat /\ start + n <= Len(d)
    BY <1>1
  <2> QED
    BY <2>1, RegionCells
<1>5. /\ IsSeq(new) /\ Len(new) = n + k
      /\ \A j \in 1..n + k : new[j] = At(w, start + j - 1)
  BY <1>1, <1>2, RegionCells
<1>6. /\ IsSeq(old \o out) /\ Len(old \o out) = n + k
      /\ \A j \in 1..n + k :
           (old \o out)[j] = IF j <= n THEN old[j] ELSE out[j - n]
  BY <1>1, <1>4, ConcatIsSeq, ConcatCells DEF k
<1> HIDE DEF old, new
<1>7. ASSUME NEW j \in 1..n + k PROVE new[j] = (old \o out)[j]
  <2> DEFINE q == start + j - 1
  <2>1. q \in Nat /\ q - p + 1 = j - n /\ (q < p + k) /\ (p <= q <=> ~(j <= n))
    BY <1>1
  <2>2. new[j] = At(w, q)
    BY <1>5
  <2>3. j <= n => old[j] = At(d, q)
    BY <1>1, <1>4
  <2> HIDE DEF q
  <2>4. At(w, q) = IF p <= q THEN out[j - n] ELSE At(d, q)
    BY <1>3, <2>1
  <2> QED
    BY <1>6, <2>1, <2>2, <2>3, <2>4
<1>8. new = old \o out
  BY <1>5, <1>6, <1>7, SameCells
<1> QED
  BY <1>1, <1>8 DEF new, old, w, n, k, Between

-----------------------------------------------------------------------------
(***************************************************************************)
(* An entry's data while it is written.                                    *)
(***************************************************************************)
\* `cells' is what has been emitted, `pending' what the compressor holds.
Coding(m, cells, pending, data) ==
    /\ IsSeq(cells) /\ IsSeq(pending) /\ IsSeq(data)
    /\ m = "stored" => cells = data /\ pending = << >>
    /\ m # "stored" => Blocks(m, cells) /\ data = Unpacked(cells) \o pending

\* The data is complete: a decoder makes `data' of it.
Coded(m, cells, data) ==
    Decompress([method |-> m], cells) = [ok |-> TRUE, data |-> data]

LEMMA CodingStarts ==
    ASSUME NEW m
    PROVE  Coding(m, << >>, << >>, << >>)
<1>1. IsSeq(<< >>) /\ << >> \o << >> = << >>
  BY EmptyIsSeq, ConcatNothing
<1> QED
  BY <1>1, NoBlocks DEF Coding

LEMMA UnpackedIsSeq ==
    ASSUME NEW m, NEW cells, IsSeq(cells), Blocks(m, cells)
    PROVE  IsSeq(Unpacked(cells))
<1>1. IsSeq(<< >>)
  BY EmptyIsSeq
<1> QED
  BY <1>1, BlockAdded

LEMMA StoredCoding ==
    ASSUME NEW cells, NEW pending, NEW data, Coding("stored", cells, pending, data),
           NEW cell
    PROVE  Coding("stored", cells \o <<cell>>, << >>, Append(data, cell))
<1>1. IsSeq(Append(data, cell)) /\ cells = data /\ IsSeq(cells)
  BY AppendIsSeq DEF Coding
<1>2. cells \o <<cell>> = Append(cells, cell)
  BY <1>1, AppendConcat
<1> QED
  BY <1>1, <1>2, EmptyIsSeq DEF Coding

\* A compressor holds the data back,
LEMMA HeldCoding ==
    ASSUME NEW m, m # "stored", NEW cells, NEW pending, NEW data,
           Coding(m, cells, pending, data), NEW cell
    PROVE  Coding(m, cells \o << >>, Append(pending, cell), Append(data, cell))
<1>1. IsSeq(Append(data, cell)) /\ IsSeq(Append(pending, cell))
  BY AppendIsSeq DEF Coding
<1>2. cells \o << >> = cells
  BY ConcatNothing DEF Coding
<1>3. IsSeq(Unpacked(cells)) /\ IsSeq(pending) /\ data = Unpacked(cells) \o pending
  BY UnpackedIsSeq DEF Coding
<1>4. Unpacked(cells) \o Append(pending, cell) = Append(data, cell)
  BY <1>3, ConcatPush
<1> QED
  BY <1>1, <1>2, <1>4 DEF Coding

\* or emits what it holds in a block.
LEMMA BlockCoding ==
    ASSUME NEW m, m # "stored", NEW cells, NEW pending, NEW data,
           Coding(m, cells, pending, data)
    PROVE  Coding(m, cells \o << <<"z", m, pending>> >>, << >>, data)
<1> DEFINE more == cells \o << <<"z", m, pending>> >>
<1>1. /\ IsSeq(more) /\ Blocks(m, more) /\ IsSeq(Unpacked(more))
      /\ Unpacked(more) = Unpacked(cells) \o pending
  BY BlockAdded DEF Coding
<1> HIDE DEF more
<1>2. Unpacked(more) \o << >> = Unpacked(more)
  BY <1>1, ConcatNothing
<1> QED
  BY <1>1, <1>2, EmptyIsSeq DEF Coding, more

LEMMA EmittedCoding ==
    ASSUME NEW w, w.method # "stored", NEW cells, NEW data,
           Coding(w.method, cells, w.pending, data)
    PROVE  Coding(w.method, cells \o Pending(w), << >>, data)
<1>1. CASE w.pending = << >>
  <2>1. cells \o Pending(w) = cells
    BY <1>1, ConcatNothing DEF Pending, Coding
  <2> QED
    BY <1>1, <2>1
<1>2. CASE w.pending # << >>
  BY <1>2, BlockCoding DEF Pending
<1> QED
  BY <1>1, <1>2

\* A sync marker is a block of nothing.
LEMMA FlushedCoding ==
    ASSUME NEW w, NEW cells, NEW data, Coding(w.method, cells, w.pending, data)
    PROVE  Coding(w.method, cells \o SyncFlush(w), << >>, data)
<1>1. CASE w.method = "stored"
  <2>1. cells \o SyncFlush(w) = cells
    BY <1>1, ConcatNothing DEF SyncFlush, Coding
  <2> QED
    BY <1>1, <2>1 DEF Coding
<1>2. CASE w.method # "stored"
  <2> DEFINE e == <<"z", w.method, << >>>>
             more == cells \o Pending(w)
  <2>1. Coding(w.method, more, << >>, data)
    BY <1>2, EmittedCoding
  <2>2. Coding(w.method, more \o <<e>>, << >>, data)
    BY <1>2, <2>1, BlockCoding
  <2>3. IsSeq(cells) /\ IsSeq(Pending(w)) /\ IsSeq(more)
    BY <2>1, PendingIsSeq DEF Coding
  <2>4. cells \o Append(Pending(w), e) = more \o <<e>>
    <3> HIDE DEF e
    <3>1. cells \o Append(Pending(w), e) = Append(more, e)
      BY <2>3, ConcatPush
    <3>2. more \o <<e>> = Append(more, e)
      BY <2>3, AppendConcat
    <3> QED
      BY <3>1, <3>2
  <2>5. SyncFlush(w) = Append(Pending(w), e)
    BY <1>2 DEF SyncFlush
  <2> QED
    BY <2>2, <2>4, <2>5
<1> QED
  BY <1>1, <1>2

\* A decoder looks at the method of an entry only.
LEMMA SameMethodDecodes ==
    ASSUME NEW f, NEW g, f.method = g.method, NEW cells
    PROVE  Decompress(f, cells) = Decompress(g, cells)
BY DEF Decompress, SelectInSeq

\* The end marker completes the data.
LEMMA EndedIsCoded ==
    ASSUME NEW w, w.method # "stored", NEW cells, NEW data,
           Coding(w.method, cells, w.pending, data)
    PROVE  LET tail == Append(Pending(w), <<"zend", w.method>>)
           IN  IsSeq(cells \o tail) /\ Coded(w.method, cells \o tail, data)
<1> DEFINE m == w.method
           z == <<"zend", m>>
           more == cells \o Pending(w)
           k == Len(more) + 1
           all == Append(more, z)
           ends == {i \in 1..Len(all) : all[i] = z}
<1>1. Coding(m, more, << >>, data)
  BY EmittedCoding
<1>2. IsSeq(cells) /\ IsSeq(Pending(w)) /\ IsSeq(more) /\ IsSeq(Unpacked(more))
      /\ Blocks(m, more)
  BY <1>1, PendingIsSeq, UnpackedIsSeq DEF Coding
<1>3. data = Unpacked(more)
  BY <1>1, <1>2, ConcatNothing DEF Coding
<1>4. cells \o Append(Pending(w), z) = all
  <2> HIDE DEF z
  <2> QED
    BY <1>2, ConcatPush
<1> HIDE DEF more
<1>5. /\ IsSeq(all) /\ Len(all) = k /\ k \in Nat \ {0} /\ all[k] = z
      /\ \A i \in 1..Len(more) : all[i] = more[i]
  <2> HIDE DEF z
  <2> QED
    BY <1>2, AppendCells, LenIsNat
<1>6. ASSUME NEW i \in 1..k - 1
      PROVE  /\ all[i][1] = "z" /\ all[i][2] = m /\ all[i] # z
             /\ all[i][3] = more[i][3]
  <2>1. i \in 1..Len(more)
    BY <1>5
  <2>2. more[i] = <<"z", m, more[i][3]>> /\ all[i] = more[i]
    BY <1>2, <1>5, <2>1 DEF Blocks
  <2>3. z[1] = "zend"
    OBVIOUS
  <2> HIDE DEF all, z, m
  <2>4. all[i][1] = "z" /\ all[i][2] = m
    BY <2>2
  <2> QED
    BY <2>2, <2>3, <2>4
<1>7. ends = {k}
  <2> HIDE DEF z
  <2>1. \A i \in 1..k : i = k \/ i \in 1..k - 1
    BY <1>5
  <2> HIDE DEF all, k
  <2> QED
    BY <1>5, <1>6, <2>1
<1>8. Min(ends) = k
  BY <1>5, <1>7, LowestIs
<1>9. ends # {} /\ ends = {i \in 1..Len(all) : all[i] = <<"zend", m>>}
  BY <1>7
<1>10. [i \in 1..k - 1 |-> all[i][3]] = Payloads(more)
  <2>1. k - 1 = Len(more)
    BY <1>5
  <2> HIDE DEF all, k
  <2> QED
    BY <1>6, <2>1 DEF Payloads
<1> HIDE DEF k, all, ends, z
<1>11. Coded(m, all, data)
  <2> DEFINE f == [method |-> m]
  <2>1. f.method = m
    OBVIOUS
  <2> HIDE DEF f, m
  <2>2. Decompress(f, all)
          = [ok |-> TRUE, data |-> FlattenSeq([i \in 1..k - 1 |-> all[i][3]])]
    <3>1. m # "stored" /\ k # 0
      BY <1>5 DEF m
    <3>2. \A i \in 1..k - 1 : all[i][1] = "z" /\ all[i][2] = m
      BY <1>6
    <3> QED
      BY <1>8, <1>9, <2>1, <3>1, <3>2 DEF Decompress, SelectInSeq
  <2> QED
    BY <1>3, <1>10, <2>2 DEF Coded, Unpacked, f
<1> QED
  BY <1>4, <1>5, <1>11 DEF m, z

\* What a Storer has written is complete.
LEMMA StoredIsCoded ==
    ASSUME NEW cells, NEW pending, NEW data, Coding("stored", cells, pending, data)
    PROVE  Coded("stored", cells, data)
BY DEF Coding, Coded, Decompress

-----------------------------------------------------------------------------
(***************************************************************************)
(* Entries on a disk.                                                      *)
(***************************************************************************)
\* The cells of f decrypt and decode to `data'.
Carries(f, cells, data) ==
    LET clear == Decrypt([encrypted |-> f.encrypted, crc32 |-> data,
                          using_data_descriptor |-> FALSE], cells)
    IN  clear.ok /\ Coded(f.method, clear.data, data)

LEMMA PlainCarries ==
    ASSUME NEW f, ~f.encrypted, NEW cells, NEW data, Coded(f.method, cells, data)
    PROVE  Carries(f, cells, data)
BY DEF Carries, Decrypt

\* ZipCryptoWriter::finish: the header and the cells it has kept.
LEMMA EncryptedCarries ==
    ASSUME NEW f, f.encrypted, NEW out, IsSeq(out), NEW data,
           Coded(f.method, out, data)
    PROVE  Carries(f, << <<"crypthdr", data>> >> \o Encrypted(out), data)
<1> DEFINE h == <<"crypthdr", data>>
           enc == Encrypted(out)
           raw == <<h>> \o enc
           n == Len(out)
           g == [encrypted |-> f.encrypted, crc32 |-> data,
                 using_data_descriptor |-> FALSE]
<1>1. n \in Nat /\ IsSeq(enc) /\ Len(enc) = n
      /\ \A j \in 1..n : enc[j] = <<"enc", out[j]>>
  <2>1. n \in Nat /\ enc = [i \in 1..n |-> enc[i]]
    BY LenIsNat DEF Encrypted
  <2> HIDE DEF n
  <2>2. IsSeq(enc) /\ Len(enc) = n
    BY <2>1, FunctionIsSeq
  <2> QED
    BY <2>1, <2>2 DEF Encrypted, n
<1>2. /\ IsSeq(raw) /\ Len(raw) = 1 + n /\ raw[1] = h
      /\ \A j \in 1..n : raw[1 + j] = <<"enc", out[j]>>
  <2> HIDE DEF h, enc
  <2>1. /\ IsSeq(raw) /\ Len(raw) = 1 + Len(enc) /\ raw[1] = h
        /\ \A j \in 1..Len(enc) : raw[1 + j] = enc[j]
    BY <1>1, HeadedCells
  <2> HIDE DEF raw
  <2> QED
    BY <1>1, <2>1
<1> HIDE DEF raw
<1>3. raw # << >>
  BY <1>1, <1>2
<1>4. /\ \A i \in 2..Len(raw) : raw[i][1] = "enc"
      /\ \A i \in 1..Len(raw) - 1 : raw[i + 1][2] = out[i]
  <2>1. ASSUME NEW j \in 1..n PROVE raw[1 + j][1] = "enc" /\ raw[1 + j][2] = out[j]
    BY <1>2
  <2>2. ASSUME NEW i \in 2..Len(raw) PROVE raw[i][1] = "enc"
    <3>1. i - 1 \in 1..n /\ 1 + (i - 1) = i
      BY <1>1, <1>2
    <3> QED
      BY <2>1, <3>1
  <2>3. ASSUME NEW i \in 1..Len(raw) - 1 PROVE raw[i + 1][2] = out[i]
    <3>1. i \in 1..n /\ i + 1 = 1 + i
      BY <1>1, <1>2
    <3> QED
      BY <2>1, <3>1
  <2> QED
    BY <2>2, <2>3
<1>5. [i \in 1..Len(raw) - 1 |-> raw[i + 1][2]] = out
  <2> DEFINE v == [i \in 1..Len(raw) - 1 |-> raw[i + 1][2]]
  <2>1. n \in Nat /\ v = [i \in 1..n |-> v[i]] /\ \A i \in 1..n : v[i] = out[i]
    BY <1>1, <1>2, <1>4
  <2> HIDE DEF v, n
  <2>2. IsSeq(v) /\ Len(v) = n
    BY <2>1, FunctionIsSeq
  <2>3. v = out
    BY <2>1, <2>2, SameCells DEF n
  <2> QED
    BY <2>3 DEF v
<1>6. g.encrypted = f.encrypted /\ g.crc32 = data /\ g.using_data_descriptor = FALSE
  OBVIOUS
<1> HIDE DEF g, n
<1>7. Decrypt(g, raw) = [ok |-> TRUE, data |-> out]
  BY <1>2, <1>3, <1>4, <1>5, <1>6 DEF Decrypt, h
<1>8. Carries(f, raw, data)
  BY <1>7 DEF Carries, g
<1> QED
  BY <1>8 DEF raw, enc, h

LengthCell(d, f) == At(d, f.header_start + EXTRA_LEN_OFFSET)

LocalAt(d, f) ==
    At(d, f.header_start)[1] = "local" /\ LengthCell(d, f)[1] = "extralen"

\* The entry f on disk d reads as `data' and ends by `end'.
EntryOn(d, f, data, end) ==
    /\ LocalAt(d, f) /\ EntryEndsBy(d, f, end)
    /\ f.crc32 = data /\ Carries(f, FindContent(d, f).data, data)

\* What a reader makes of it.
LEMMA EntryReads ==
    ASSUME NEW d, NEW f, NEW data, NEW end, EntryOn(d, f, data, end),
           NEW g, RecordedAs(f, g)
    PROVE  ReadEntry(d, g) = [ok |-> TRUE, data |-> data]
<1> DEFINE raw == FindContent(d, f)
           h == [encrypted |-> f.encrypted, crc32 |-> data,
                 using_data_descriptor |-> FALSE]
           clear == Decrypt(h, raw.data)
<1>1. FindContent(d, g) = raw /\ raw.ok
  BY DEF FindContent, EntryOn, LocalAt, LengthCell, RecordedAs
<1>2. clear.ok /\ Coded(f.method, clear.data, data) /\ f.crc32 = data
  BY DEF EntryOn, Carries
<1> HIDE DEF raw
<1>3. Decrypt(g, raw.data) = clear
  BY <1>2 DEF Decrypt, RecordedAs
<1> HIDE DEF clear
<1>4. Decompress(g, clear.data) = [ok |-> TRUE, data |-> data]
  <2> DEFINE m == [method |-> f.method]
  <2>1. m.method = g.method /\ Decompress(m, clear.data) = [ok |-> TRUE, data |-> data]
    BY <1>2 DEF Coded, RecordedAs
  <2> HIDE DEF m
  <2> QED
    BY <2>1, SameMethodDecodes
<1>5. g.crc32 = data
  BY <1>2 DEF RecordedAs
<1> QED
  BY <1>1, <1>2, <1>3, <1>4, <1>5 DEF ReadEntry

\* It stays as long as nothing in front of its end changes.
LEMMA EntryKept ==
    ASSUME NEW d, IsSeq(d), NEW e, IsSeq(e), NEW f, f.header_start \in Nat,
           NEW data, NEW end, EntryOn(d, f, data, end), end \in Nat,
           end <= Len(d), end <= Len(e),
           \A q \in Nat : q < end => At(e, q) = At(d, q)
    PROVE  EntryOn(e, f, data, end) /\ FindContent(e, f) = FindContent(d, f)
<1> DEFINE hs == f.header_start
           length == LengthCell(d, f)[2]
           p == hs + HEADER_LEN + length
           n == f.compressed_size
<1>1. length \in Nat /\ n \in Nat /\ p + n <= end /\ hs \in Nat
  BY DEF EntryOn, EntryEndsBy, LengthCell
<1>2. p \in Nat /\ hs < end /\ hs + EXTRA_LEN_OFFSET < end
      /\ hs + EXTRA_LEN_OFFSET \in Nat /\ Len(d) \in Nat /\ Len(e) \in Nat
  <2> HIDE DEF hs, length, n
  <2> QED
    BY <1>1, LenIsNat DEF HEADER_LEN, EXTRA_LEN_OFFSET
<1>3. At(e, hs) = At(d, hs) /\ LengthCell(e, f) = LengthCell(d, f)
  BY <1>1, <1>2 DEF LengthCell
<1>4. Region(e, p, n) = Region(d, p, n)
  <2>1. p + n <= Len(d) /\ p + n <= Len(e)
        /\ \A q \in Nat : q < p + n => At(e, q) = At(d, q)
    BY <1>1, <1>2
  <2> HIDE DEF p, n
  <2> QED
    BY <1>1, <1>2, <2>1, RegionKept
<1> HIDE DEF length
<1>5. FindContent(e, f) = FindContent(d, f)
  BY <1>3, <1>4 DEF FindContent, LengthCell, p, length
<1>6. LocalAt(e, f) /\ EntryEndsBy(e, f, end)
  BY <1>3 DEF EntryOn, LocalAt, EntryEndsBy, LengthCell
<1> QED
  BY <1>5, <1>6 DEF EntryOn

\* A later end is an end.
LEMMA EntryEndsLater ==
    ASSUME NEW d, NEW f, f.header_start \in Nat, NEW data,
           NEW end \in Nat, EntryOn(d, f, data, end), NEW later \in Nat, end <= later
    PROVE  EntryOn(d, f, data, later)
BY DEF EntryOn, EntryEndsBy, HEADER_LEN

\* An entry that reads well, and whose password byte is the checksum's.
LEMMA ReadableIsOn ==
    ASSUME NEW d, NEW f, ReadEntry(d, f).ok,
           f.encrypted => ~f.using_data_descriptor,
           NEW end, EntryEndsBy(d, f, end)
    PROVE  EntryOn(d, f, ReadEntry(d, f).data, end)
<1> DEFINE raw == FindContent(d, f)
           clear == Decrypt(f, raw.data)
           plain == Decompress(f, clear.data)
<1>1. /\ raw.ok /\ clear.ok /\ plain.ok /\ plain.data = f.crc32
      /\ ReadEntry(d, f) = plain
  BY DEF ReadEntry, NoContent
<1>2. LocalAt(d, f)
  BY <1>1 DEF FindContent, NoContent, LocalAt, LengthCell
<1>3. \E x : plain = [ok |-> TRUE, data |-> x]
  BY <1>1 DEF Decompress, NoContent
<1>4. plain = [ok |-> TRUE, data |-> f.crc32]
  BY <1>1, <1>3
<1> HIDE DEF raw
<1> DEFINE h == [encrypted |-> f.encrypted, crc32 |-> f.crc32,
                 using_data_descriptor |-> FALSE]
<1>5. Decrypt(h, raw.data) = clear
  BY DEF Decrypt
<1> HIDE DEF clear, h
<1>6. Coded(f.method, clear.data, f.crc32)
  <2> DEFINE m == [method |-> f.method]
  <2>1. m.method = f.method
    OBVIOUS
  <2>2. Coded(f.method, clear.data, f.crc32)
          <=> Decompress(m, clear.data) = [ok |-> TRUE, data |-> f.crc32]
    BY DEF Coded
  <2> HIDE DEF m
  <2> QED
    BY <1>4, <2>1, <2>2, SameMethodDecodes
<1> QED
  BY <1>1, <1>2, <1>4, <1>5, <1>6 DEF EntryOn, Carries, raw, h

(***************************************************************************)
(* Where the data of the last entry is, between two steps: part of it in   *)
(* the sink or in the ZipCryptoWriter, the rest in the compressor.         *)
(***************************************************************************)
\* What has left the compressor w.
Emitted(d, p, start, w) ==
    IF w.encrypted THEN w.buffer ELSE Between(d, start, p)

\* The data of f begins at `start', as its local header has it.
Placed(d, f, start) ==
    /\ LocalAt(d, f) /\ LengthCell(d, f)[2] \in Nat
    /\ f.header_start + HEADER_LEN + LengthCell(d, f)[2] = start

\* The writer takes data.
Flowing(d, p, start, w, f, data) ==
    /\ w.method = f.method /\ w.encrypted = f.encrypted
    /\ f.encrypted => p = start
    /\ Coding(f.method, Emitted(d, p, start, w), w.pending, data)

\* The compressor is done, and all its output waits to be encrypted.
Collected(p, start, w, f, data) ==
    /\ w.encrypted /\ f.encrypted /\ p = start /\ IsSeq(w.buffer)
    /\ Coded(f.method, w.buffer, data)

OpenAt(step, d, p, start, w, f, data) ==
    /\ step = "finish_crypto" => Collected(p, start, w, f, data)
    /\ step = "update_header" => Carries(f, Between(d, start, p), data)
    /\ step \notin {"finish_crypto", "update_header"} =>
         Flowing(d, p, start, w, f, data)

\* Nothing is written behind a header whose extra field is still open.
NothingYet(p, start, w, f, data) ==
    /\ data = << >> /\ p = start /\ f.data_start = p /\ HeaderEnd(f) = p
    /\ w = [Plain EXCEPT !.encrypted = f.encrypted]

\* The raw data of s is about to be copied.
Copying(d, p, s, f, data) ==
    /\ s \in Sources /\ Placed(d, f, p)
    /\ f.crc32 = data /\ data = s.plain /\ f.method = s.method
    /\ f.compressed_size = s.compressed_size /\ ~f.encrypted

LocalExtraOpen == writing_to_extra_field /\ ~writing_to_central_extra_field_only

AlignedEnd == pc = "end_extra" /\ call.op = "start_file_aligned"

\* The extra field of the last entry is what was promised of it, but for the
\* padding of start_file_aligned: while it is in the record, and for good when
\* it does not fit or cannot be written.
ExtraAgrees(f, e) ==
    /\ AlignedEnd => e.extra = << >> /\ WholeRecords(f.extra_field)
    /\ ~AlignedEnd =>
         \/ e.extra = CustomExtra(f.extra_field)
         \/ LocalExtraOpen /\ (Len(f.extra_field) > ZIP64_ENTRY_THR \/ ~IsPlain(inner))

EntryFields(f) ==
    {"name", "encrypted", "method", "level", "crc32", "compressed_size",
     "uncompressed_size", "extra_field", "header_start", "data_start",
     "large_file"} \subseteq DOMAIN f

OpenData(f, e) ==
    /\ EntryFields(f)
    /\ Placed(disk, f, stats.start) /\ HeaderEnd(f) <= stats.start
    /\ stats.start \in Nat /\ stats.start <= pos /\ stats.hasher = e.data
    /\ LocalExtraOpen => NothingYet(pos, stats.start, inner, f, e.data)
    /\ ~LocalExtraOpen => OpenAt(pc, disk, pos, stats.start, inner, f, e.data)

LastData(f, e) ==
    /\ ExtraAgrees(f, e)
    /\ pc = "copy" => Copying(disk, pos, call.source, f, e.data)
    /\ Settled /\ pc # "copy" => EntryOn(disk, f, e.data, pos)
    /\ ~Settled => OpenData(f, e)

\* What a call in progress is given.
CallKnown ==
    /\ call.op = "raw_copy_file" =>
         call.source \in Sources /\ call.options = RawOptions(call.source)
    /\ call.op \in {"add_directory", "add_symlink"} => call.options.method = "stored"

StepKnown ==
    /\ pc = "switch_stored" => inner.method # "stored"
    /\ pc \in {"local_header", "central"} => ~writing_raw
    /\ pc = "copy" => writing_raw
    /\ pc \in {"copy", "target"} \/ writing_raw => ~writing_to_extra_field

FieldsKnown ==
    /\ {"hasher", "start", "bytes_written"} \subseteq DOMAIN stats
    /\ "pending" \in DOMAIN inner

Recorded(d, f, e, end) ==
    EntryOn(d, f, e.data, end) /\ e.extra = CustomExtra(f.extra_field)

EarlierData ==
    \A i \in 1..Len(files) : i < Len(files) =>
        Recorded(disk, files[i], promised[i], LastFile.header_start)

\* The entries of a live writer are where they were promised.
LiveData ==
    /\ Len(promised) = Len(files) /\ pos <= Len(disk)
    /\ \A i \in 1..Len(files) : promised[i].name = files[i].name
    /\ CallKnown /\ StepKnown /\ FieldsKnown
    /\ EarlierData
    /\ files # << >> => LastData(LastFile, promised[Len(promised)])

CommittedData ==
    /\ Len(promised) = Len(files)
    /\ \A i \in 1..Len(files) :
         /\ promised[i].name = files[i].name
         /\ Recorded(disk, files[i], promised[i], Len(disk))

DataInv ==
    faults = 0 =>
        /\ status = "live" /\ ~IsClosed(inner) => LiveData
        /\ Committed => CommittedData

-----------------------------------------------------------------------------
\* A step of a writer that stays live and open, without a failure.
DataStep ==
    /\ PromiseInv /\ PromiseInv' /\ AlignInv /\ LiveData /\ Preserved
    /\ status = "live" /\ status' = "live"
    /\ ~IsClosed(inner) /\ ~IsClosed(inner')
    /\ faults' = 0 /\ RoomForZip64 /\ RoomForZip64' /\ SizesFit'

LEMMA NoFaultData ==
    ASSUME DataStep
    PROVE  \A trace : ~Fails(trace) /\ \A i : ~FailsAt(trace, i)
<1>1. faults \in Nat /\ faults' = 0
  BY DEF DataStep, PromiseInv, SinkInv, IInv, TypeOK
<1> QED
  BY <1>1 DEF Fails, FailsAt

LEMMA DataFacts ==
    ASSUME DataStep
    PROVE  /\ SinkInv /\ IInv /\ TypeOK /\ PromisesOK /\ LiveData
           /\ IsSeq(disk) /\ Len(disk) \in Nat /\ pos \in Nat /\ pos <= Len(disk)
           /\ IsSeq(disk') /\ Len(disk') \in Nat /\ pos' \in Nat
           /\ IsSeq(files) /\ Len(files) \in Nat
           /\ IsSeq(files') /\ Len(files') \in Nat
           /\ IsSeq(promised) /\ IsSeq(promised')
           /\ Len(promised) = Len(files)
           /\ IsWriter(inner) /\ BufferOK(inner)
           /\ FieldsKnown
BY LenIsNat DEF DataStep, PromiseInv, SinkInv, IInv, TypeOK, VectorsOK,
   PromisesOK, LiveData

LEMMA DataLast ==
    ASSUME DataStep, files # << >>
    PROVE  /\ Len(files) \in 1..Len(files) /\ IsEntry(LastFile)
           /\ LastFile.header_start \in Nat /\ IsSeq(LastFile.extra_field)
           /\ LastFile.header_start <= pos /\ LastFile.header_start <= Len(disk)
           /\ Sealed = LastFile.header_start
           /\ IsPromise(promised[Len(promised)])
           /\ LastData(LastFile, promised[Len(promised)])
<1>1. IsSeq(files) /\ EntriesOK /\ SinkInv /\ PromisesOK /\ LiveData
  BY DataFacts DEF DataStep, SinkInv, VectorsOK, PromiseInv
<1>2. Len(files) \in 1..Len(files) /\ IsEntry(LastFile)
  BY <1>1, LastFileIsEntry
<1>3. IsPromise(promised[Len(promised)])
  BY <1>1, <1>2, DataFacts DEF PromisesOK, LiveData
<1>4. LastFile.header_start <= pos /\ LastFile.header_start <= Len(disk)
  BY <1>1 DEF SinkInv, LastFileLocated
<1> QED
  BY <1>1, <1>2, <1>3, <1>4 DEF IsEntry, Sealed, LiveData

\* What agrees in front of the last entry.
LEMMA SealedAgrees ==
    ASSUME DataStep, files # << >>
    PROVE  /\ LastFile.header_start <= Len(disk')
           /\ \A q \in Nat : q < LastFile.header_start => At(disk', q) = At(disk, q)
<1> DEFINE s == LastFile.header_start
<1>1. s \in Nat /\ s <= Len(disk) /\ Sealed = s
  BY DataLast
<1>2. /\ Len(disk) \in Nat /\ Len(disk') \in Nat
  BY DataFacts
<1>3. s <= Len(disk') /\ \A i \in 1..s : disk'[i] = disk[i]
  BY <1>1 DEF DataStep, Preserved, Keeps
<1> HIDE DEF s
<1>4. ASSUME NEW q \in Nat, q < s PROVE At(disk', q) = At(disk, q)
  <2>1. q + 1 \in 1..s /\ q < Len(disk) /\ q < Len(disk') /\ q >= 0
    BY <1>1, <1>2, <1>3, <1>4
  <2> QED
    BY <1>3, <2>1 DEF At
<1> QED
  BY <1>3, <1>4 DEF s

\* Whatever happens to the last entry, the earlier ones stay.
LEMMA LastOnly ==
    ASSUME DataStep,
           Len(files') = Len(files), Len(promised') = Len(promised),
           \A i \in 1..Len(files) : i < Len(files) =>
               files'[i] = files[i] /\ promised'[i] = promised[i],
           files # << >> =>
               /\ files'[Len(files)].header_start = LastFile.header_start
               /\ files'[Len(files)].name = LastFile.name
               /\ promised'[Len(files)].name = promised[Len(files)].name,
           pos' <= Len(disk'), CallKnown', StepKnown', FieldsKnown',
           files # << >> => LastData(LastFile, promised[Len(promised)])'
    PROVE  LiveData'
<1>1. /\ Len(promised) = Len(files) /\ Len(files) \in Nat
      /\ IsSeq(disk) /\ IsSeq(disk') /\ IsSeq(files')
  BY DataFacts
<1>2. \A i \in 1..Len(files') : promised'[i].name = files'[i].name
  <2> SUFFICES ASSUME NEW i \in 1..Len(files)
               PROVE  promised'[i].name = files'[i].name
    OBVIOUS
  <2>1. promised[i].name = files[i].name /\ files # << >>
    BY <1>1, EmptyIsSeq DEF DataStep, LiveData
  <2> QED
    BY <1>1, <2>1 DEF LastFile
<1>3. EarlierData'
  <2> SUFFICES ASSUME NEW i \in 1..Len(files), i < Len(files)
               PROVE  Recorded(disk', files'[i], promised'[i],
                               files'[Len(files')].header_start)
    BY DEF EarlierData, LastFile
  <2> DEFINE s == LastFile.header_start
  <2>1. files # << >>
    BY <1>1, EmptyIsSeq
  <2>2. Recorded(disk, files[i], promised[i], s)
    BY DEF DataStep, LiveData, EarlierData
  <2>3. /\ s \in Nat /\ s <= Len(disk)
        /\ s <= Len(disk') /\ \A q \in Nat : q < s => At(disk', q) = At(disk, q)
    BY <2>1, DataLast, SealedAgrees
  <2>4. files[i].header_start \in Nat
    BY DataFacts DEF SinkInv, VectorsOK, EntriesOK, IsEntry
  <2>5. files'[Len(files')].header_start = s
    BY <2>1
  <2> HIDE DEF s
  <2>6. EntryOn(disk', files[i], promised[i].data, s)
    BY <1>1, <2>2, <2>3, <2>4, EntryKept DEF Recorded
  <2> QED
    BY <2>2, <2>5, <2>6 DEF Recorded
<1>4. files' # << >> => files # << >>
  BY <1>1, EmptyIsSeq
<1> QED
  BY <1>1, <1>2, <1>3, <1>4 DEF LiveData

\* The same when no record changes.
LEMMA NoRecordChanges ==
    ASSUME DataStep, UNCHANGED files, UNCHANGED promised,
           pos' <= Len(disk'), CallKnown', StepKnown', FieldsKnown',
           files # << >> => LastData(LastFile, promised[Len(promised)])'
    PROVE  LiveData'
BY LastOnly, DataFacts DEF LastFile

\* A call in progress keeps what it was given.
LEMMA CallKept ==
    ASSUME DataStep, UNCHANGED call
    PROVE  CallKnown'
BY DEF DataStep, LiveData, CallKnown

LEMMA PlacedKept ==
    ASSUME NEW d, NEW e, NEW f, f.header_start \in Nat, NEW start \in Nat,
           Placed(d, f, start),
           \A q \in Nat : q < start => At(e, q) = At(d, q)
    PROVE  Placed(e, f, start)
<1>1. /\ f.header_start \in Nat /\ LengthCell(d, f)[2] \in Nat
      /\ f.header_start + HEADER_LEN + LengthCell(d, f)[2] = start
  BY DEF Placed
<1>2. /\ f.header_start + EXTRA_LEN_OFFSET \in Nat
      /\ f.header_start < start /\ f.header_start + EXTRA_LEN_OFFSET < start
  BY <1>1 DEF HEADER_LEN, EXTRA_LEN_OFFSET
<1>3. At(e, f.header_start) = At(d, f.header_start) /\ LengthCell(e, f) = LengthCell(d, f)
  BY <1>1, <1>2 DEF LengthCell
<1> QED
  BY <1>1, <1>3 DEF Placed, LocalAt

LEMMA NoRegion ==
    ASSUME NEW d, IsSeq(d), NEW start \in Nat, start <= Len(d)
    PROVE  Between(d, start, start) = << >>
<1>1. start - start = 0 /\ 0 \in Nat /\ start + 0 <= Len(d)
  BY LenIsNat
<1>2. IsSeq(Region(d, start, 0)) /\ Len(Region(d, start, 0)) = 0
  BY <1>1, RegionCells
<1> QED
  BY <1>1, <1>2, EmptyIsSeq DEF Between

\* What a write below the compressor w does to the sink.
SinkMoves(w, out, d, p, e, q) ==
    IF w.encrypted THEN e = d /\ q = p
    ELSE e = WriteAt(d, p, out) /\ q = p + Len(out)

LEMMA SinkTraceMoves ==
    ASSUME DataStep, NEW w, NEW out, IsSeq(out), Succeeds(SinkTrace(w, out))
    PROVE  SinkMoves(w, out, disk, pos, disk', pos')
<1>1. pos \in Nat
  BY DataFacts
<1>2. CASE w.encrypted
  <2>1. SinkTrace(w, out) = << <<disk, pos>> >>
    BY <1>2 DEF SinkTrace
  <2> QED
    BY <1>2, <2>1 DEF Succeeds, MoveSink, SinkMoves
<1>3. CASE ~w.encrypted
  <2> DEFINE trace == WriteTrace(disk, pos, out)
             n == Len(out) + 1
  <2>1. Len(trace) = n /\ trace[n] = <<WriteAt(disk, pos, out), pos + Len(out)>>
    BY <1>1, WriteTraceEnds
  <2>2. Succeeds(trace)
    BY <1>3 DEF SinkTrace
  <2> HIDE DEF n, trace
  <2>3. trace[Len(trace)] = <<WriteAt(disk, pos, out), pos + Len(out)>>
    BY <2>1
  <2> QED
    BY <1>3, <2>2, <2>3 DEF Succeeds, MoveSink, SinkMoves
<1> QED
  BY <1>2, <1>3

\* What is in front of the position stays, and nothing is behind the end.
Onward(d, p, e, q) ==
    /\ p <= q /\ q <= Len(e)
    /\ \A at \in Nat : at < p => At(e, at) = At(d, at)

LEMMA WriteIsOnward ==
    ASSUME NEW d, IsSeq(d), NEW p \in Nat, p <= Len(d), NEW out, IsSeq(out)
    PROVE  Onward(d, p, WriteAt(d, p, out), p + Len(out))
<1>1. Len(out) \in Nat
  BY LenIsNat
<1>2. p + Len(out) <= Len(WriteAt(d, p, out))
  BY WriteAtKeeps
<1>3. \A at \in Nat : at < p => At(WriteAt(d, p, out), at) = At(d, at)
  BY <1>1, WriteAtCells
<1>4. p <= p + Len(out)
  BY <1>1
<1> QED
  BY <1>2, <1>3, <1>4 DEF Onward

LEMMA StandingIsOnward ==
    ASSUME NEW d, NEW p \in Nat, p <= Len(d)
    PROVE  Onward(d, p, d, p)
BY DEF Onward

LEMMA MovesOnward ==
    ASSUME NEW d, IsSeq(d), NEW p \in Nat, p <= Len(d), NEW out, IsSeq(out),
           NEW w, NEW e, NEW q, SinkMoves(w, out, d, p, e, q)
    PROVE  Onward(d, p, e, q)
BY WriteIsOnward, StandingIsOnward DEF SinkMoves

LEMMA EmittedGrows ==
    ASSUME NEW d, IsSeq(d), NEW p \in Nat, p <= Len(d), NEW start \in Nat,
           start <= p, NEW out, IsSeq(out), NEW w, NEW e, NEW q,
           SinkMoves(w, out, d, p, e, q), w.encrypted \in BOOLEAN,
           NEW v, v.encrypted = w.encrypted, v.buffer = Kept(w, out)
    PROVE  Emitted(e, q, start, v) = Emitted(d, p, start, w) \o out
<1>1. CASE w.encrypted
  <2>1. Emitted(d, p, start, w) = w.buffer
    BY <1>1 DEF Emitted
  <2>2. Emitted(e, q, start, v) = v.buffer
    BY <1>1 DEF Emitted
  <2>3. Kept(w, out) = w.buffer \o out
    BY <1>1 DEF Kept
  <2> QED
    BY <2>1, <2>2, <2>3
<1>2. CASE ~w.encrypted
  <2>1. e = WriteAt(d, p, out) /\ q = p + Len(out) /\ ~v.encrypted
    BY <1>2 DEF SinkMoves
  <2>2. Between(WriteAt(d, p, out), start, p + Len(out)) = Between(d, start, p) \o out
    BY RegionGrows
  <2>3. w.encrypted = FALSE /\ v.encrypted = FALSE
    BY <1>2
  <2>4. Emitted(d, p, start, w) = Between(d, start, p)
    BY <2>3, Zenon DEF Emitted
  <2>5. Emitted(e, q, start, v) = Between(e, start, q)
    BY <2>3, Zenon DEF Emitted
  <2> QED
    BY <2>1, <2>2, <2>4, <2>5
<1> QED
  BY <1>1, <1>2

\* An entry that is complete stays so.
LEMMA EntryStays ==
    ASSUME NEW d, IsSeq(d), NEW e, IsSeq(e), NEW f, f.header_start \in Nat,
           NEW data, NEW p \in Nat, p <= Len(d), NEW q \in Nat,
           Onward(d, p, e, q), EntryOn(d, f, data, p)
    PROVE  EntryOn(e, f, data, q)
<1>1. Len(d) \in Nat /\ Len(e) \in Nat /\ p <= q /\ q <= Len(e)
  BY LenIsNat DEF Onward
<1>2. p <= Len(e)
  BY <1>1
<1>3. EntryOn(e, f, data, p)
  BY <1>2, EntryKept DEF Onward
<1> QED
  BY <1>1, <1>3, EntryEndsLater

\* finish_file begins with what is left to do.
LEMMA FinishFileOpens ==
    ASSUME NEW d, NEW p, NEW start, NEW w, w.encrypted \in BOOLEAN, NEW f, NEW data,
           Flowing(d, p, start, w, f, data)
    PROVE  OpenAt(AfterExtra(w), d, p, start, w, f, data)
<1> DEFINE cells == Emitted(d, p, start, w)
<1>1. /\ w.method = f.method /\ w.encrypted = f.encrypted
      /\ f.encrypted => p = start
      /\ Coding(f.method, cells, w.pending, data)
  BY DEF Flowing
<1>2. CASE w.method # "stored"
  <2>1. AfterExtra(w) = "switch_stored"
    BY <1>2 DEF AfterExtra
  <2> QED
    BY <2>1 DEF OpenAt
<1>3. CASE w.method = "stored"
  <2>1. Coded(f.method, cells, data) /\ IsSeq(cells)
    BY <1>1, <1>3, StoredIsCoded DEF Coding
  <2>2. CASE w.encrypted
    <3>1. AfterExtra(w) = "finish_crypto" /\ cells = w.buffer
      BY <1>3, <2>2 DEF AfterExtra, Emitted
    <3> QED
      BY <1>1, <2>1, <2>2, <3>1 DEF OpenAt, Collected
  <2>3. CASE ~w.encrypted
    <3>1. AfterExtra(w) = "update_header" /\ cells = Between(d, start, p)
      BY <1>3, <2>3 DEF AfterExtra, Emitted
    <3>2. Carries(f, cells, data)
      BY <1>1, <2>1, <2>3, PlainCarries
    <3> QED
      BY <3>1, <3>2 DEF OpenAt
  <2> QED
    BY <2>2, <2>3
<1> QED
  BY <1>2, <1>3

\* A writer that has taken no data yet.
LEMMA FlowingStarts ==
    ASSUME NEW d, IsSeq(d), NEW start \in Nat, start <= Len(d), NEW w, NEW f,
           w.method = f.method, w.encrypted = f.encrypted,
           w.buffer = << >>, w.pending = << >>
    PROVE  Flowing(d, start, start, w, f, << >>)
<1>1. Emitted(d, start, start, w) = << >>
  BY NoRegion DEF Emitted
<1> QED
  BY <1>1, CodingStarts DEF Flowing

-----------------------------------------------------------------------------
(***************************************************************************)
(* Step by step: the calls that begin, and what is refused.                *)
(***************************************************************************)
LEMMA StandingData ==
    ASSUME DataStep, pc = "idle",
           UNCHANGED <<disk, pos, inner, files, stats, flagVars, promised>>,
           \/ pc' \in {"idle", "finish_extra", "end_extra"}
           \/ pc' = AfterExtra(inner) /\ ~writing_to_extra_field,
           ~AlignedEnd', CallKnown'
    PROVE  LiveData'
<1>1. /\ UNCHANGED <<disk, pos, inner, files, stats, promised>>
      /\ UNCHANGED <<writing_to_extra_field, writing_to_central_extra_field_only,
                     writing_raw>>
  BY DEF flagVars
<1>2. /\ pc' \notin {"copy", "local_header", "central", "target"}
      /\ pc' = "switch_stored" => inner.method # "stored"
  BY DEF AfterExtra
<1>3. StepKnown' /\ FieldsKnown'
  BY <1>1, <1>2 DEF DataStep, LiveData, StepKnown, FieldsKnown
<1>4. pos' <= Len(disk')
  BY <1>1 DEF DataStep, LiveData
<1>5. Settled' <=> Settled
  BY <1>1, <1>2 DEF Settled
<1>6. LocalExtraOpen' <=> LocalExtraOpen
  BY <1>1 DEF LocalExtraOpen
<1>7. ASSUME files # << >>
      PROVE  LastData(LastFile, promised[Len(promised)])'
  <2> DEFINE f == LastFile
             e == promised[Len(promised)]
  <2>1. LastData(f, e) /\ f' = f /\ e' = e
    BY <1>1, <1>7, DataLast DEF LastFile
  <2> HIDE DEF f, e
  <2>2. ExtraAgrees(f, e)'
    <3>1. ~AlignedEnd
      BY DEF AlignedEnd
    <3> QED
      BY <1>1, <1>6, <2>1, <3>1 DEF LastData, ExtraAgrees
  <2>3. Settled' => EntryOn(disk, f, e.data, pos)'
    BY <1>1, <1>5, <2>1 DEF LastData
  <2>4. ASSUME ~Settled' PROVE OpenData(f, e)'
    <3>1. OpenData(f, e)
      BY <1>5, <2>1, <2>4 DEF LastData
    <3>2. CASE LocalExtraOpen
      <4>1. OpenData(f, e)'
        BY <1>1, <1>6, <2>1, <3>1, <3>2 DEF OpenData
      <4> QED
        BY <4>1
    <3>3. CASE ~LocalExtraOpen
      <4>1. Flowing(disk, pos, stats.start, inner, f, e.data)
        BY <3>1, <3>3 DEF OpenData, OpenAt
      <4>2. inner.encrypted \in BOOLEAN
        BY DataFacts DEF IsWriter
      <4>3. OpenAt(AfterExtra(inner), disk, pos, stats.start, inner, f, e.data)
        BY <4>1, <4>2, FinishFileOpens
      <4>4. OpenAt(pc', disk, pos, stats.start, inner, f, e.data)
        BY <4>1, <4>3 DEF OpenAt
      <4> QED
        BY <1>1, <1>6, <2>1, <3>1, <3>3, <4>4 DEF OpenData
    <3> QED
      BY <3>2, <3>3
  <2>5. LastData(f, e)'
    BY <1>2, <2>2, <2>3, <2>4 DEF LastData
  <2> QED
    BY <2>5 DEF f, e
<1> QED
  BY <1>1, <1>3, <1>4, <1>7, NoRecordChanges

\* The calls.
LEMMA BeginData ==
    ASSUME DataStep, NEW c, NEW step, Begin(c, step),
           step \in {FinishFile, "end_extra"},
           c.op # "start_file_aligned" \/ step = FinishFile,
           c.op = "raw_copy_file" =>
             c.source \in Sources /\ c.options = RawOptions(c.source),
           c.op \in {"add_directory", "add_symlink"} => c.options.method = "stored"
    PROVE  LiveData'
<1>1. /\ pc = "idle" /\ pc' = step /\ call' = c
      /\ UNCHANGED <<disk, pos, inner, files, stats, flagVars, promised>>
  BY DEF Begin, Idle, sinkVars, dataVars, ghostVars
<1>2. FinishFile # "end_extra"
  BY DEF FinishFile, AfterExtra
<1>3. \/ pc' \in {"idle", "finish_extra", "end_extra"}
      \/ pc' = AfterExtra(inner) /\ ~writing_to_extra_field
  BY <1>1 DEF FinishFile
<1>4. ~AlignedEnd'
  BY <1>1, <1>2 DEF AlignedEnd
<1>5. CallKnown'
  BY <1>1 DEF CallKnown
<1> QED
  BY <1>1, <1>3, <1>4, <1>5, StandingData

LEMMA CallsData ==
    ASSUME DataStep,
           \/ StartFile \/ StartFileWithExtraData \/ StartFileAligned
           \/ AddDirectory \/ AddSymlink \/ RawCopyFile
           \/ EndExtraData \/ EndLocalStartCentralExtraData
           \/ Finish \/ SetComment \/ Drop \/ WriteRefused
    PROVE  LiveData'
<1>1. CASE StartFile \/ StartFileWithExtraData
  <2>1. PICK n \in Names, o \in Options, op \in {"start_file", "start_file_with_extra_data"} :
          Begin([NoCall EXCEPT !.op = op, !.name = n, !.options = o], FinishFile)
    BY <1>1 DEF StartFile, StartFileWithExtraData, AddEntry
  <2> DEFINE c == [NoCall EXCEPT !.op = op, !.name = n, !.options = o]
  <2>2. c.op = op
    BY DEF NoCall
  <2> HIDE DEF c
  <2> QED
    BY <2>1, <2>2, BeginData DEF c
<1>2. CASE StartFileAligned
  <2>1. PICK n, o, a : Begin([NoCall EXCEPT !.op = "start_file_aligned", !.name = n,
                                            !.options = o, !.align = a], FinishFile)
    BY <1>2 DEF StartFileAligned, AddEntry
  <2> DEFINE c == [NoCall EXCEPT !.op = "start_file_aligned", !.name = n,
                                 !.options = o, !.align = a]
  <2>2. c.op = "start_file_aligned"
    BY DEF NoCall
  <2> HIDE DEF c
  <2> QED
    BY <2>1, <2>2, BeginData DEF c
<1>3. CASE AddDirectory
  <2>1. PICK n \in Names, o \in Options :
          Begin([NoCall EXCEPT !.op = "add_directory", !.name = n,
                               !.options = [o EXCEPT !.method = "stored"]], FinishFile)
    BY <1>3 DEF AddDirectory, AddEntry
  <2> DEFINE stored == [o EXCEPT !.method = "stored"]
             c == [NoCall EXCEPT !.op = "add_directory", !.name = n,
                                 !.options = stored]
  <2>2. stored.method = "stored"
    BY OptionsAssumption
  <2> HIDE DEF stored
  <2>3. c.op = "add_directory" /\ c.options = stored
    BY DEF NoCall
  <2> HIDE DEF c
  <2> QED
    BY <2>1, <2>2, <2>3, BeginData DEF c, stored
<1>4. CASE AddSymlink
  <2>1. PICK n \in Names, o \in Options, t \in Bytes :
          Begin([NoCall EXCEPT !.op = "add_symlink", !.name = n,
                               !.options = [o EXCEPT !.method = "stored"],
                               !.cell = t], FinishFile)
    BY <1>4 DEF AddSymlink, AddEntry
  <2> DEFINE stored == [o EXCEPT !.method = "stored"]
             c == [NoCall EXCEPT !.op = "add_symlink", !.name = n,
                                 !.options = stored, !.cell = t]
  <2>2. stored.method = "stored"
    BY OptionsAssumption
  <2> HIDE DEF stored
  <2>3. c.op = "add_symlink" /\ c.options = stored
    BY DEF NoCall
  <2> HIDE DEF c
  <2> QED
    BY <2>1, <2>2, <2>3, BeginData DEF c, stored
<1>5. CASE RawCopyFile
  <2>1. PICK n \in Names, s \in Sources :
          Begin([NoCall EXCEPT !.op = "raw_copy_file", !.name = n,
                               !.source = s, !.options = RawOptions(s)], FinishFile)
    BY <1>5 DEF RawCopyFile, AddEntry
  <2> DEFINE o == RawOptions(s)
             c == [NoCall EXCEPT !.op = "raw_copy_file", !.name = n,
                                 !.source = s, !.options = o]
  <2>2. c.op = "raw_copy_file" /\ c.source = s /\ c.options = RawOptions(s)
    <3> HIDE DEF o
    <3>1. c.op = "raw_copy_file" /\ c.source = s /\ c.options = o
      BY DEF NoCall
    <3> QED
      BY <3>1 DEF o
  <2> HIDE DEF c
  <2> QED
    BY <2>1, <2>2, BeginData DEF c
<1>6. CASE EndExtraData \/ EndLocalStartCentralExtraData
  <2>1. PICK op \in {"end_extra_data", "end_local_start_central"} :
          Begin([NoCall EXCEPT !.op = op], "end_extra")
    BY <1>6 DEF EndExtraData, EndLocalStartCentralExtraData
  <2> DEFINE c == [NoCall EXCEPT !.op = op]
  <2>2. c.op = op
    BY DEF NoCall
  <2> HIDE DEF c
  <2> QED
    BY <2>1, <2>2, BeginData DEF c
<1>7. CASE Finish
  <2> DEFINE c == [NoCall EXCEPT !.op = "finish"]
  <2>1. c.op = "finish" /\ Begin(c, FinishFile)
    BY <1>7 DEF NoCall, Finish
  <2> HIDE DEF c
  <2> QED
    BY <2>1, BeginData
<1>8. CASE SetComment
  <2>1. call' = NoCall /\ pc = "idle" /\ pc' = "idle"
        /\ UNCHANGED <<disk, pos, inner, files, stats, flagVars, promised>>
    BY <1>8 DEF SetComment, Idle, sinkVars, ghostVars
  <2>2. CallKnown' /\ ~AlignedEnd'
    BY <2>1, NoCallIsCall DEF CallKnown, AlignedEnd
  <2> QED
    BY <2>1, <2>2, StandingData
<1>9. CASE Drop
  <2> DEFINE c == [NoCall EXCEPT !.op = "drop", !.unwinding = result = "panic"]
  <2>1. c.op = "drop"
    BY DEF NoCall
  <2>2. call' = c /\ pc = "idle" /\ pc' = FinishFile
        /\ UNCHANGED <<disk, pos, inner, files, stats, flagVars, promised>>
    BY <1>9 DEF Drop, DataStep, sinkVars, dataVars, ghostVars
  <2> HIDE DEF c
  <2>3. CallKnown' /\ ~AlignedEnd'
    BY <2>1, <2>2 DEF CallKnown, AlignedEnd
  <2>4. \/ pc' \in {"idle", "finish_extra", "end_extra"}
        \/ pc' = AfterExtra(inner) /\ ~writing_to_extra_field
    BY <2>2 DEF FinishFile
  <2> QED
    BY <2>2, <2>3, <2>4, StandingData
<1>10. CASE WriteRefused
  <2>1. call' = call /\ pc = "idle" /\ pc' = "idle"
        /\ UNCHANGED <<disk, pos, inner, files, stats, flagVars, promised>>
    BY <1>10 DEF WriteRefused, Idle, Return, sinkVars, dataVars, ghostVars
  <2>2. CallKnown' /\ ~AlignedEnd'
    BY <2>1, CallKept DEF AlignedEnd
  <2> QED
    BY <2>1, <2>2, StandingData
<1> QED
  BY <1>1, <1>2, <1>3, <1>4, <1>5, <1>6, <1>7, <1>8, <1>9, <1>10

\* An extra field that is refused, or cannot be written.
LEMMA RefusedData ==
    ASSUME DataStep, ExtraRefused \/ EndLocalExtraPanics
    PROVE  LiveData'
<1>1. /\ UNCHANGED <<disk, pos, inner, files, stats, flagVars, promised, call>>
      /\ pc \in ExtraSteps /\ pc' = "idle"
      /\ ~ExtraAccepted \/ ~IsPlain(inner)
  BY DEF ExtraRefused, EndLocalExtraPanics, EndingLocalExtra, Fail, Panic,
         sinkVars, dataVars, ghostVars
<1>2. /\ UNCHANGED <<disk, pos, inner, files, stats, promised>>
      /\ UNCHANGED <<writing_to_extra_field, writing_to_central_extra_field_only,
                     writing_raw>>
  BY <1>1 DEF flagVars
<1>3. pc \notin {"copy", "local_header", "central", "finish_crypto",
                 "update_header", "idle"}
  BY <1>1 DEF ExtraSteps
<1>4. StepKnown' /\ FieldsKnown' /\ CallKnown'
  BY <1>1, <1>2, CallKept DEF DataStep, LiveData, StepKnown, FieldsKnown
<1>5. pos' <= Len(disk')
  BY <1>2 DEF DataStep, LiveData
<1>6. (Settled' <=> Settled) /\ (LocalExtraOpen' <=> LocalExtraOpen) /\ ~AlignedEnd'
  BY <1>1, <1>2, <1>3 DEF Settled, LocalExtraOpen, AlignedEnd
<1>7. ASSUME files # << >>
      PROVE  LastData(LastFile, promised[Len(promised)])'
  <2> DEFINE f == LastFile
             e == promised[Len(promised)]
  <2>1. LastData(f, e) /\ f' = f /\ e' = e
    BY <1>2, <1>7, DataLast DEF LastFile
  <2>2. AlignedEnd /\ IsPlain(inner) => LocalExtraOpen /\ ~ValidExtra(f.extra_field)
    BY <1>1 DEF DataStep, AlignInv, AlignedEnd, LocalExtraOpen, ExtraAccepted
  <2>3. Len(f.extra_field) \in Nat
    BY LenIsNat
  <2>4. AlignedEnd => LocalExtraOpen
    BY DEF DataStep, AlignInv, AlignedEnd, LocalExtraOpen
  <2> HIDE DEF f, e
  <2>5. ExtraAgrees(f, e)'
    <3>1. CASE AlignedEnd /\ IsPlain(inner)
      <4>1. WholeRecords(f.extra_field)
        BY <2>1, <3>1 DEF LastData, ExtraAgrees
      <4>2. Len(f.extra_field) > ZIP64_ENTRY_THR
        BY <2>2, <2>3, <3>1, <4>1, EntryThrAssumption DEF ValidExtra
      <4> QED
        BY <1>2, <1>6, <2>1, <2>2, <3>1, <4>2 DEF ExtraAgrees
    <3>2. CASE AlignedEnd /\ ~IsPlain(inner)
      BY <1>2, <1>6, <2>1, <2>4, <3>2 DEF ExtraAgrees
    <3>3. CASE ~AlignedEnd
      BY <1>2, <1>6, <2>1, <3>3 DEF LastData, ExtraAgrees
    <3> QED
      BY <3>1, <3>2, <3>3
  <2>6. Settled' => EntryOn(disk, f, e.data, pos)'
    BY <1>2, <1>3, <1>6, <2>1 DEF LastData
  <2>7. ASSUME ~Settled' PROVE OpenData(f, e)'
    <3>1. OpenData(f, e)
      BY <1>6, <2>1, <2>7 DEF LastData
    <3>2. OpenAt(pc, disk, pos, stats.start, inner, f, e.data)
            => OpenAt("idle", disk, pos, stats.start, inner, f, e.data)
      BY <1>3 DEF OpenAt
    <3> QED
      BY <1>1, <1>2, <1>6, <2>1, <3>1, <3>2 DEF OpenData
  <2>8. LastData(f, e)'
    BY <1>1, <2>5, <2>6, <2>7 DEF LastData
  <2> QED
    BY <2>8 DEF f, e
<1> QED
  BY <1>2, <1>4, <1>5, <1>7, NoRecordChanges

-----------------------------------------------------------------------------
(***************************************************************************)
(* Data that is written and flushed.                                       *)
(***************************************************************************)
\* An open header is left as it is by what writes nothing.
LEMMA NothingStays ==
    ASSUME NEW p \in Nat, NEW start, NEW w, NEW f, NEW data,
           NothingYet(p, start, w, f, data),
           NEW d, NEW e, NEW q, SinkMoves(w, << >>, d, p, e, q),
           NEW v, v = [w EXCEPT !.buffer = Kept(w, << >>), !.pending = << >>]
    PROVE  NothingYet(q, start, v, f, data)
<1>1. w = [Plain EXCEPT !.encrypted = f.encrypted]
  BY DEF NothingYet
<1>2. /\ w.buffer = << >> /\ w.pending = << >> /\ w.encrypted = f.encrypted
      /\ w = [method |-> "stored", encrypted |-> f.encrypted, buffer |-> << >>,
              pending |-> << >>]
  BY <1>1 DEF Plain, Closed
<1>3. << >> \o << >> = << >> /\ Len(<< >>) = 0
  BY EmptyIsSeq, NothingConcat
<1>4. Kept(w, << >>) = << >>
  BY <1>2, <1>3 DEF Kept
<1>5. v = w
  BY <1>2, <1>4
<1>6. q = p
  BY <1>3 DEF SinkMoves
<1> QED
  BY <1>5, <1>6 DEF NothingYet

\* The writer v is w when it has emitted `out' behind `cells'.
TakesOut(w, v, out, cells, data) ==
    /\ v.method = w.method /\ v.encrypted = w.encrypted /\ v.buffer = Kept(w, out)
    /\ Coding(w.method, cells \o out, v.pending, data)

\* Data taken by an open writer.
LEMMA FlowsOn ==
    ASSUME NEW d, IsSeq(d), NEW p \in Nat, p <= Len(d), NEW start \in Nat,
           start <= p, NEW w, w.encrypted \in BOOLEAN, NEW f, NEW data,
           Flowing(d, p, start, w, f, data),
           NEW out, IsSeq(out), NEW e, NEW q, SinkMoves(w, out, d, p, e, q),
           NEW v, NEW more, TakesOut(w, v, out, Emitted(d, p, start, w), more)
    PROVE  Flowing(e, q, start, v, f, more)
<1>1. Emitted(e, q, start, v) = Emitted(d, p, start, w) \o out
  BY EmittedGrows DEF TakesOut
<1>2. w.method = f.method /\ w.encrypted = f.encrypted /\ (f.encrypted => p = start)
  BY DEF Flowing
<1>3. f.encrypted => q = start
  BY <1>2 DEF SinkMoves
<1> QED
  BY <1>1, <1>2, <1>3 DEF Flowing, TakesOut

\* The last entry, by its record and its promise.
LEMMA LastDataIs ==
    ASSUME NEW f, NEW e, LastData(f, e)',
           files'[Len(files')] = f, promised'[Len(promised')] = e
    PROVE  LastData(LastFile, promised[Len(promised)])'
BY DEF LastData, LastFile, ExtraAgrees, AlignedEnd, LocalExtraOpen, Copying, Placed,
   LocalAt, LengthCell, EntryOn, EntryEndsBy, OpenData, EntryFields, OpenAt, NothingYet

\* The record of the last entry and what was promised of it, behind a step.
LastTakes(e, g, out, hold) ==
    /\ g.name = e.name /\ g.extra = e.extra
    /\ Settled => g.data = e.data
    /\ ~Settled => stats'.hasher = g.data
    /\ ~Settled /\ LocalExtraOpen => out = << >> /\ hold = << >> /\ g.data = e.data
    /\ ~Settled /\ ~LocalExtraOpen =>
         \A cells : Coding(inner.method, cells, inner.pending, e.data)
                      => Coding(inner.method, cells \o out, hold, g.data)

LEMMA DataTaken ==
    ASSUME DataStep, UNCHANGED <<files, call>>,
           UNCHANGED <<writing_to_extra_field, writing_to_central_extra_field_only,
                       writing_raw>>,
           pc \in {"idle", "target"}, pc' = "idle",
           NEW out, IsSeq(out), NEW hold,
           SinkMoves(inner, out, disk, pos, disk', pos'),
           inner' = [inner EXCEPT !.buffer = Kept(inner, out), !.pending = hold],
           stats'.start = stats.start, DOMAIN stats' = DOMAIN stats,
           Len(promised') = Len(promised),
           \A i \in 1..Len(files) : i < Len(files) => promised'[i] = promised[i],
           files # << >> => LastTakes(promised[Len(promised)],
                                      promised'[Len(promised)], out, hold)
    PROVE  LiveData'
<1>1. /\ StepKnown' /\ CallKnown'
      /\ (Settled' <=> Settled) /\ (LocalExtraOpen' <=> LocalExtraOpen)
      /\ ~AlignedEnd /\ ~AlignedEnd'
  BY CallKept DEF DataStep, LiveData, StepKnown, Settled, LocalExtraOpen, AlignedEnd
<1>2. /\ IsSeq(disk) /\ IsSeq(disk') /\ pos \in Nat /\ pos' \in Nat
      /\ pos <= Len(disk) /\ Len(disk) \in Nat
      /\ inner.encrypted \in BOOLEAN
      /\ {"method", "encrypted", "buffer", "pending"} \subseteq DOMAIN inner
      /\ {"hasher", "start", "bytes_written"} \subseteq DOMAIN stats
      /\ Len(promised) = Len(files) /\ Len(files) \in Nat
  BY DataFacts DEF IsWriter, BufferOK, FieldsKnown
<1>3. /\ inner'.method = inner.method /\ inner'.encrypted = inner.encrypted
      /\ inner'.buffer = Kept(inner, out) /\ inner'.pending = hold
      /\ FieldsKnown'
  BY <1>2 DEF FieldsKnown
<1>4. Onward(disk, pos, disk', pos')
  BY <1>2, MovesOnward
<1>5. pos' <= Len(disk') /\ pos <= pos'
  BY <1>4 DEF Onward
<1>6. ASSUME files # << >>
      PROVE  /\ LastData(LastFile, promised[Len(promised)])'
             /\ promised'[Len(files)].name = promised[Len(files)].name
  <2>1. PICK f, e, g : /\ f = LastFile /\ e = promised[Len(promised)]
                       /\ g = promised'[Len(promised)]
    OBVIOUS
  <2>2. /\ LastData(f, e) /\ f.header_start \in Nat
        /\ LastTakes(e, g, out, hold)
    BY <1>6, <2>1, DataLast
  <2>3. ExtraAgrees(f, g)'
    <3>1. IsPlain(inner') <=> IsPlain(inner)
      BY <1>3 DEF IsPlain
    <3>2. ExtraAgrees(f, e) /\ g.extra = e.extra
      BY <2>2 DEF LastData, LastTakes
    <3> QED
      BY <1>1, <3>1, <3>2 DEF ExtraAgrees
  <2>4. Settled' => EntryOn(disk', f, g.data, pos')
    <3> SUFFICES ASSUME Settled' PROVE EntryOn(disk', f, g.data, pos')
      OBVIOUS
    <3>1. EntryOn(disk, f, e.data, pos) /\ g.data = e.data
      BY <1>1, <2>2 DEF LastData, LastTakes
    <3> QED
      BY <1>2, <1>4, <2>2, <3>1, EntryStays
  <2>5. ASSUME ~Settled' PROVE OpenData(f, g)'
    <3> DEFINE start == stats.start
    <3>1. OpenData(f, e) /\ stats'.hasher = g.data
      BY <1>1, <2>2, <2>5 DEF LastData, LastTakes
    <3>2. start \in Nat /\ start <= pos /\ Placed(disk, f, start) /\ stats'.start = start
      BY <3>1 DEF OpenData
    <3> HIDE DEF start
    <3>3. \A q \in Nat : q < start => At(disk', q) = At(disk, q)
      BY <1>2, <1>4, <3>2 DEF Onward
    <3>4. Placed(disk', f, start)
      BY <2>2, <3>2, <3>3, PlacedKept
    <3>5. start <= pos'
      BY <1>2, <1>5, <3>2
    <3>6. ASSUME LocalExtraOpen
          PROVE  NothingYet(pos', start, inner', f, g.data)
      <4>1. NothingYet(pos, start, inner, f, e.data)
        BY <3>1, <3>6 DEF OpenData, start
      <4>2. out = << >> /\ hold = << >> /\ g.data = e.data
        BY <1>1, <2>2, <2>5, <3>6 DEF LastTakes
      <4> QED
        BY <1>2, <4>1, <4>2, NothingStays
    <3>7. ASSUME ~LocalExtraOpen
          PROVE  OpenAt("idle", disk', pos', start, inner', f, g.data)
      <4>1. Flowing(disk, pos, start, inner, f, e.data)
        BY <3>1, <3>7 DEF OpenData, OpenAt, start
      <4>2. TakesOut(inner, inner', out, Emitted(disk, pos, start, inner), g.data)
        BY <1>1, <1>3, <2>2, <2>5, <3>7, <4>1 DEF LastTakes, Flowing, TakesOut
      <4>3. Flowing(disk', pos', start, inner', f, g.data)
        BY <1>2, <1>3, <3>2, <4>1, <4>2, FlowsOn
      <4> QED
        BY <4>3 DEF OpenAt
    <3> QED
      BY <1>1, <3>1, <3>2, <3>4, <3>5, <3>6, <3>7 DEF OpenData, start
  <2>6. LastData(f, g)'
    BY <1>1, <2>3, <2>4, <2>5 DEF LastData
  <2>7. g.name = e.name
    BY <2>2 DEF LastTakes
  <2>8. files'[Len(files')] = f /\ promised'[Len(promised')] = g
    BY <2>1 DEF LastFile
  <2> QED
    BY <1>2, <2>1, <2>6, <2>7, <2>8, LastDataIs
<1>7. \A i \in 1..Len(files) : i < Len(files) =>
          files'[i] = files[i] /\ promised'[i] = promised[i]
  OBVIOUS
<1>8. files # << >> =>
               /\ files'[Len(files)].header_start = LastFile.header_start
               /\ files'[Len(files)].name = LastFile.name
               /\ promised'[Len(files)].name = promised[Len(files)].name
  BY <1>6 DEF LastFile
<1> QED
  BY <1>1, <1>3, <1>5, <1>6, <1>7, <1>8, LastOnly

\* The last element of a vector is replaced.
LEMMA LastReplaced ==
    ASSUME NEW s, IsSeq(s), NEW g, NEW t, t = [s EXCEPT ![Len(s)] = g]
    PROVE  /\ Len(t) = Len(s) /\ IsSeq(t)
           /\ \A i \in 1..Len(s) : i < Len(s) => t[i] = s[i]
           /\ s # << >> => t[Len(s)] = g
<1> DEFINE n == Len(s)
<1>1. n \in Nat /\ DOMAIN s = 1..n
  BY LenProperties DEF IsSeq
<1>2. CASE s = << >>
  <2>1. t = s
    BY <1>2
  <2> QED
    BY <1>1, <1>2, <2>1
<1>3. CASE s # << >>
  <2>1. n \in 1..n
    BY <1>1, <1>3, LenIsNat
  <2> DEFINE T == {s[i] : i \in DOMAIN s} \cup {g}
  <2>2. s \in Seq(T) /\ g \in T
    BY <1>1 DEF IsSeq
  <2> HIDE DEF T
  <2>3. /\ t \in Seq(T) /\ Len(t) = n
        /\ \A j \in 1..n : t[j] = IF j = n THEN g ELSE s[j]
    BY <2>1, <2>2, ExceptSeq
  <2>4. IsSeq(t)
    BY <2>3, SeqIsSeq
  <2> QED
    BY <2>1, <2>3, <2>4
<1> QED
  BY <1>2, <1>3

\* The last entry is promised one more cell of data, or of extra data, or to
\* lose its extra data.
LEMMA LastPromised ==
    ASSUME PromisesOK, NEW cell
    PROVE  LET e == promised[Len(promised)]
               g == promised'[Len(promised)]
               changed ==
                 /\ Len(promised') = Len(promised)
                 /\ \A i \in 1..Len(promised) :
                      i < Len(promised) => promised'[i] = promised[i]
           IN  /\ promised' = [promised EXCEPT
                                 ![Len(promised)].data = Append(@, cell)]
                    => /\ changed
                       /\ promised # << >> => /\ g.name = e.name /\ g.extra = e.extra
                                              /\ g.data = Append(e.data, cell)
               /\ promised' = [promised EXCEPT
                                 ![Len(promised)].extra = Append(@, cell)]
                    => /\ changed
                       /\ promised # << >> => /\ g.name = e.name /\ g.data = e.data
                                              /\ g.extra = Append(e.extra, cell)
               /\ promised' = [promised EXCEPT ![Len(promised)].extra = << >>]
                    => /\ changed
                       /\ promised # << >> => /\ g.name = e.name /\ g.data = e.data
                                              /\ g.extra = << >>
<1> DEFINE old == promised[Len(promised)]
           a == [old EXCEPT !.data = Append(old.data, cell)]
           b == [old EXCEPT !.extra = Append(old.extra, cell)]
           c == [old EXCEPT !.extra = << >>]
<1>1. promised # << >> => IsPromise(old)
  BY LenIsNat DEF PromisesOK
<1>2. /\ [promised EXCEPT ![Len(promised)].data = Append(@, cell)]
            = [promised EXCEPT ![Len(promised)] = a]
      /\ [promised EXCEPT ![Len(promised)].extra = Append(@, cell)]
            = [promised EXCEPT ![Len(promised)] = b]
      /\ [promised EXCEPT ![Len(promised)].extra = << >>]
            = [promised EXCEPT ![Len(promised)] = c]
  OBVIOUS
<1>3. IsSeq(promised)
  BY DEF PromisesOK
<1> HIDE DEF old
<1>4. ASSUME IsPromise(old)
      PROVE  /\ a.name = old.name /\ a.extra = old.extra
             /\ a.data = Append(old.data, cell)
             /\ b.name = old.name /\ b.data = old.data
             /\ b.extra = Append(old.extra, cell)
             /\ c.name = old.name /\ c.data = old.data /\ c.extra = << >>
  <2>1. {"name", "extra", "data"} \subseteq DOMAIN old
    <3>1. PICK n, x, d : old = [name |-> n, extra |-> x, data |-> d]
      BY <1>4 DEF IsPromise
    <3> QED
      BY <3>1
  <2> QED
    BY <2>1
<1> HIDE DEF a, b, c
<1>5. \A g : promised' = [promised EXCEPT ![Len(promised)] = g] =>
          /\ Len(promised') = Len(promised)
          /\ \A i \in 1..Len(promised) :
               i < Len(promised) => promised'[i] = promised[i]
          /\ promised # << >> => promised'[Len(promised)] = g
  BY <1>3, LastReplaced
<1> DEFINE new == promised'[Len(promised')]
           others ==
             /\ Len(promised') = Len(promised)
             /\ \A i \in 1..Len(promised) :
                  i < Len(promised) => promised'[i] = promised[i]
<1>6. \A g : promised' = [promised EXCEPT ![Len(promised)] = g]
               => others /\ (promised # << >> => new = g)
  BY <1>5
<1> HIDE DEF new, others
<1>7. promised' = [promised EXCEPT ![Len(promised)].data = Append(@, cell)]
        => others /\ (promised # << >> => new = a)
  BY ONLY <1>2, <1>6
<1>8. promised' = [promised EXCEPT ![Len(promised)].extra = Append(@, cell)]
        => others /\ (promised # << >> => new = b)
  BY ONLY <1>2, <1>6
<1>9. promised' = [promised EXCEPT ![Len(promised)].extra = << >>]
        => others /\ (promised # << >> => new = c)
  BY ONLY <1>2, <1>6
<1> QED
  BY <1>1, <1>4, <1>7, <1>8, <1>9 DEF old, new, others

-----------------------------------------------------------------------------
\* write() of data.
LEMMA WriteDataData ==
    ASSUME DataStep, NEW cell, NEW writing, WriteData(cell, writing),
           pc \in {"idle", "target"}, ~LocalExtraOpen, UNCHANGED files,
           UNCHANGED <<writing_to_extra_field, writing_to_central_extra_field_only,
                       writing_raw>>
    PROVE  LiveData'
<1>1. PICK split \in Splits(cell) :
        /\ Succeeds(SinkTrace(inner, split[1]))
        /\ stats' = Update(<<cell>>)
        /\ inner' = [inner EXCEPT !.buffer = Kept(inner, split[1]),
                                  !.pending = split[2]]
        /\ Return("ok")
        /\ promised' = IF writing_raw THEN promised
                       ELSE [promised EXCEPT
                               ![Len(promised)].data = Append(@, cell)]
  <2>1. Closed.method = "closed"
    BY DEF Closed
  <2> QED
    BY <2>1, NoFaultData DEF WriteData, DataStep, IsClosed
<1> DEFINE out == split[1]
           hold == split[2]
<1>2. \/ inner.method = "stored" /\ out = <<cell>> /\ hold = << >>
      \/ inner.method # "stored" /\ out = << >> /\ hold = Append(inner.pending, cell)
      \/ inner.method # "stored" /\ out = Pending(inner) /\ hold = <<cell>>
  BY <1>1 DEF Splits
<1>3. IsSeq(out)
  BY <1>2, PendingIsSeq, SingleIsSeq, EmptyIsSeq
<1>4. SinkMoves(inner, out, disk, pos, disk', pos')
  BY <1>1, <1>3, SinkTraceMoves
<1>5. /\ UNCHANGED call /\ pc' = "idle"
      /\ inner' = [inner EXCEPT !.buffer = Kept(inner, out), !.pending = hold]
  BY <1>1 DEF Return
<1> HIDE DEF out, hold
<1>6. /\ stats'.start = stats.start /\ DOMAIN stats' = DOMAIN stats
      /\ stats'.hasher = stats.hasher \o <<cell>>
  BY <1>1, DataFacts DEF Update, FieldsKnown
<1>7. /\ PromisesOK /\ Len(promised) = Len(files) /\ Len(files) \in Nat
  BY DataFacts
<1>8. /\ Len(promised') = Len(promised)
      /\ \A i \in 1..Len(files) : i < Len(files) => promised'[i] = promised[i]
  BY <1>1, <1>7, LastPromised
<1>9. ASSUME files # << >>
      PROVE  LastTakes(promised[Len(promised)], promised'[Len(promised)], out, hold)
  <2>1. PICK e, g : e = promised[Len(promised)] /\ g = promised'[Len(promised)]
    OBVIOUS
  <2>2. promised # << >> /\ IsPromise(e) /\ IsSeq(e.data)
        /\ LastData(LastFile, e)
    BY <1>7, <1>9, <2>1, DataLast, EmptyIsSeq DEF IsPromise
  <2>3. /\ g.name = e.name /\ g.extra = e.extra
        /\ writing_raw => g.data = e.data
        /\ ~writing_raw => g.data = Append(e.data, cell)
    BY <1>1, <1>7, <2>1, <2>2, LastPromised
  <2>4. Settled <=> writing_raw
    BY DEF Settled
  <2>5. ASSUME ~Settled PROVE stats'.hasher = g.data
    <3>1. stats.hasher = e.data
      BY <2>2, <2>5 DEF LastData, OpenData
    <3> QED
      BY <1>6, <2>2, <2>3, <2>4, <2>5, <3>1, AppendConcat
  <2>6. ASSUME NEW cells, Coding(inner.method, cells, inner.pending, e.data)
        PROVE  Coding(inner.method, cells \o out, hold, Append(e.data, cell))
    <3>1. CASE inner.method = "stored"
      BY <1>2, <2>6, <3>1, StoredCoding
    <3>2. CASE inner.method # "stored" /\ out = << >>
               /\ hold = Append(inner.pending, cell)
      BY <2>6, <3>2, HeldCoding
    <3>3. CASE inner.method # "stored" /\ out = Pending(inner) /\ hold = <<cell>>
      <4>1. Coding(inner.method, cells \o out, << >>, e.data)
        BY <2>6, <3>3, EmittedCoding
      <4>2. Coding(inner.method, (cells \o out) \o << >>, Append(<< >>, cell),
                   Append(e.data, cell))
        BY <3>3, <4>1, HeldCoding
      <4>3. IsSeq(cells \o out) /\ Append(<< >>, cell) = <<cell>>
        BY <4>1 DEF Coding
      <4> QED
        BY <3>3, <4>2, <4>3, ConcatNothing
    <3> QED
      BY <1>2, <3>1, <3>2, <3>3
  <2>7. ASSUME ~Settled, NEW cells, Coding(inner.method, cells, inner.pending, e.data)
        PROVE  Coding(inner.method, cells \o out, hold, g.data)
    BY <2>3, <2>4, <2>6, <2>7
  <2>8. g.name = e.name /\ g.extra = e.extra /\ (Settled => g.data = e.data)
    BY <2>3, <2>4
  <2>9. LastTakes(e, g, out, hold)
    BY <2>5, <2>7, <2>8 DEF LastTakes
  <2> QED
    BY <2>1, <2>9
<1> QED
  BY <1>3, <1>4, <1>5, <1>6, <1>8, <1>9, DataTaken

LEMMA WriteTargetData ==
    ASSUME DataStep, WriteTarget
    PROVE  LiveData'
<1>1. pc = "target" /\ WriteData(call.cell, FALSE) /\ UNCHANGED files
      /\ UNCHANGED <<writing_to_extra_field, writing_to_central_extra_field_only,
                     writing_raw>>
  BY DEF WriteTarget
<1>2. ~LocalExtraOpen
  BY <1>1 DEF DataStep, LiveData, StepKnown, LocalExtraOpen
<1> QED
  BY <1>1, <1>2, WriteDataData

LEMMA FlushData ==
    ASSUME DataStep, Flush
    PROVE  LiveData'
<1> DEFINE out == SyncFlush(inner)
<1>1. /\ Idle /\ Return("ok") /\ Succeeds(SinkTrace(inner, out))
      /\ inner' = [inner EXCEPT !.pending = << >>, !.buffer = Kept(inner, out)]
      /\ UNCHANGED <<dataVars, flagVars, promised>>
  BY NoFaultData DEF Flush, DataStep
<1>2. /\ UNCHANGED <<files, call, stats, promised>> /\ pc = "idle" /\ pc' = "idle"
      /\ UNCHANGED <<writing_to_extra_field, writing_to_central_extra_field_only,
                     writing_raw>>
  BY <1>1 DEF Idle, Return, dataVars, flagVars
<1>3. IsSeq(out)
  BY PendingIsSeq, EmptyIsSeq DEF SyncFlush
<1>4. SinkMoves(inner, out, disk, pos, disk', pos')
  BY <1>1, <1>3, SinkTraceMoves
<1>5. inner' = [inner EXCEPT !.buffer = Kept(inner, out), !.pending = << >>]
  BY <1>1
<1>6. ASSUME files # << >>
      PROVE  LastTakes(promised[Len(promised)], promised'[Len(promised)], out, << >>)
  <2>1. PICK e : e = promised[Len(promised)]
    OBVIOUS
  <2>2. LastData(LastFile, e)
    BY <1>6, <2>1, DataLast
  <2>3. ~Settled => OpenData(LastFile, e)
    BY <2>2 DEF LastData
  <2>4. ASSUME ~Settled PROVE stats'.hasher = e.data
    BY <1>2, <2>3, <2>4 DEF OpenData
  <2>5. ASSUME ~Settled, LocalExtraOpen PROVE out = << >>
    <3>1. inner = [Plain EXCEPT !.encrypted = LastFile.encrypted]
      BY <2>3, <2>5 DEF OpenData, NothingYet
    <3>2. inner.method = "stored"
      BY <3>1 DEF Plain, Closed
    <3> QED
      BY <3>2 DEF SyncFlush
  <2>6. ASSUME NEW cells, Coding(inner.method, cells, inner.pending, e.data)
        PROVE  Coding(inner.method, cells \o out, << >>, e.data)
    BY <2>6, FlushedCoding
  <2> HIDE DEF out
  <2>7. LastTakes(e, e, out, << >>)
    BY <2>4, <2>5, <2>6 DEF LastTakes
  <2> QED
    BY <1>2, <2>1, <2>7
<1> HIDE DEF out
<1> QED
  BY <1>2, <1>3, <1>4, <1>5, <1>6, DataTaken, DataFacts

-----------------------------------------------------------------------------
(***************************************************************************)
(* The extra field.                                                        *)
(***************************************************************************)
\* What a change of the last record, or of what was promised of it, leaves.
SameRecord(f, g) ==
    /\ EntryFields(g)
    /\ g.name = f.name /\ g.encrypted = f.encrypted /\ g.method = f.method
    /\ g.crc32 = f.crc32 /\ g.compressed_size = f.compressed_size
    /\ g.large_file = f.large_file /\ g.header_start = f.header_start

LEMMA RecordKept ==
    ASSUME NEW f, NEW g, SameRecord(f, g)
    PROVE  /\ \A d : LocalAt(d, g) <=> LocalAt(d, f)
           /\ \A d : LengthCell(d, g) = LengthCell(d, f)
           /\ \A d, start : Placed(d, g, start) <=> Placed(d, f, start)
           /\ HeaderEnd(g) = HeaderEnd(f)
           /\ \A cells, data : Carries(g, cells, data) <=> Carries(f, cells, data)
           /\ \A d, p, start, w, data :
                Flowing(d, p, start, w, g, data) <=> Flowing(d, p, start, w, f, data)
           /\ \A step, d, p, start, w, data :
                OpenAt(step, d, p, start, w, g, data)
                  <=> OpenAt(step, d, p, start, w, f, data)
<1>1. /\ g.name = f.name /\ g.encrypted = f.encrypted /\ g.method = f.method
      /\ g.large_file = f.large_file /\ g.header_start = f.header_start
  BY DEF SameRecord
<1>2. \A d : LengthCell(d, g) = LengthCell(d, f)
  BY <1>1 DEF LengthCell
<1>3. \A d : LocalAt(d, g) <=> LocalAt(d, f)
  BY <1>1, <1>2 DEF LocalAt
<1>4. \A d, start : Placed(d, g, start) <=> Placed(d, f, start)
  BY <1>1, <1>2, <1>3 DEF Placed
<1>5. HeaderEnd(g) = HeaderEnd(f)
  BY <1>1 DEF HeaderEnd
<1>6. \A cells, data : Carries(g, cells, data) <=> Carries(f, cells, data)
  BY <1>1 DEF Carries
<1>7. \A d, p, start, w, data :
        Flowing(d, p, start, w, g, data) <=> Flowing(d, p, start, w, f, data)
  BY <1>1 DEF Flowing
<1>8. \A p, start, w, data :
        Collected(p, start, w, g, data) <=> Collected(p, start, w, f, data)
  BY <1>1 DEF Collected
<1>9. \A step, d, p, start, w, data :
        OpenAt(step, d, p, start, w, g, data) <=> OpenAt(step, d, p, start, w, f, data)
  BY <1>6, <1>7, <1>8 DEF OpenAt
<1> QED
  BY <1>2, <1>3, <1>4, <1>5, <1>6, <1>7, <1>9

\* An extra cell of the last entry is written and promised.
LEMMA WriteExtraData ==
    ASSUME DataStep, Idle, writing_to_extra_field, files # << >>,
           NEW cell \in ExtraCells,
           files' = SetLastFile([LastFile EXCEPT !.extra_field = Append(@, cell)]),
           promised' = [promised EXCEPT ![Len(promised)].extra = Append(@, cell)],
           Return("ok"), UNCHANGED <<sinkVars, inner, stats>>,
           UNCHANGED <<writing_to_extra_field, writing_to_central_extra_field_only,
                       writing_raw>>
    PROVE  LiveData'
<1> PICK f, e, g, h : /\ f = LastFile /\ e = promised[Len(promised)]
                      /\ g = [f EXCEPT !.extra_field = Append(@, cell)]
                      /\ h = promised'[Len(promised)]
  OBVIOUS
<1>1. /\ UNCHANGED <<disk, pos, inner, stats, call>> /\ pc = "idle" /\ pc' = "idle"
      /\ files' = [files EXCEPT ![Len(files)] = g]
  BY DEF Idle, Return, sinkVars, SetLastFile
<1>2. /\ IsSeq(files) /\ Len(promised) = Len(files) /\ PromisesOK
      /\ Len(files) \in Nat /\ promised # << >>
  BY DataFacts, EmptyIsSeq
<1>3. /\ Len(files') = Len(files) /\ files'[Len(files)] = g
      /\ \A i \in 1..Len(files) : i < Len(files) => files'[i] = files[i]
  <2>1. \A t : t = [files EXCEPT ![Len(files)] = g] =>
          /\ Len(t) = Len(files) /\ t[Len(files)] = g
          /\ \A i \in 1..Len(files) : i < Len(files) => t[i] = files[i]
    BY <1>2, LastReplaced
  <2> QED
    BY <1>1, <2>1
<1>4. /\ Len(promised') = Len(promised)
      /\ \A i \in 1..Len(files) : i < Len(files) => promised'[i] = promised[i]
      /\ h.name = e.name /\ h.data = e.data /\ h.extra = Append(e.extra, cell)
  BY <1>2, LastPromised
<1>5. LastData(f, e) /\ IsSeq(f.extra_field)
  BY DataLast
<1>6. ~writing_raw /\ ~Settled /\ ~Settled'
  BY <1>1 DEF DataStep, LiveData, StepKnown, Settled
<1>7. OpenData(f, e)
  BY <1>5, <1>6 DEF LastData
<1>8. /\ EntryFields(g) /\ SameRecord(f, g)
      /\ g.data_start = f.data_start /\ g.extra_field = Append(f.extra_field, cell)
  <2>1. EntryFields(f)
    BY <1>7 DEF OpenData
  <2> QED
    BY <2>1 DEF EntryFields, SameRecord
<1>9. ExtraAgrees(g, h)'
  <2>1. IsCustomExtra(cell)
    BY ExtraCellsAssumption
  <2>2. CustomExtra(g.extra_field) = Append(CustomExtra(f.extra_field), cell)
    BY <1>5, <1>8, <2>1, CustomExtraGrows
  <2>3. Len(g.extra_field) = Len(f.extra_field) + 1 /\ Len(f.extra_field) \in Nat
    BY <1>5, <1>8, AppendCells, LenIsNat
  <2>4. \/ e.extra = CustomExtra(f.extra_field)
        \/ LocalExtraOpen /\ (Len(f.extra_field) > ZIP64_ENTRY_THR \/ ~IsPlain(inner))
    BY <1>1, <1>5 DEF LastData, ExtraAgrees, AlignedEnd
  <2>5. ~AlignedEnd' /\ (LocalExtraOpen' <=> LocalExtraOpen)
    BY <1>1 DEF AlignedEnd, LocalExtraOpen
  <2>6. CASE e.extra = CustomExtra(f.extra_field)
    <3>1. h.extra = CustomExtra(g.extra_field)
      BY <1>4, <2>2, <2>6
    <3> QED
      BY <2>5, <3>1 DEF ExtraAgrees
  <2>7. CASE LocalExtraOpen /\ ~IsPlain(inner)
    <3>1. LocalExtraOpen' /\ ~IsPlain(inner')
      BY <1>1, <2>5, <2>7
    <3> QED
      BY <2>5, <3>1 DEF ExtraAgrees
  <2>8. CASE LocalExtraOpen /\ Len(f.extra_field) > ZIP64_ENTRY_THR
    <3>1. LocalExtraOpen' /\ Len(g.extra_field) > ZIP64_ENTRY_THR
      BY <2>3, <2>5, <2>8, EntryThrAssumption
    <3> QED
      BY <2>5, <3>1 DEF ExtraAgrees
  <2> QED
    BY <2>4, <2>6, <2>7, <2>8
<1>10. OpenData(g, h)'
  <2> DEFINE start == stats.start
  <2>1. /\ EntryFields(f) /\ Placed(disk, f, start) /\ HeaderEnd(f) <= start
        /\ start \in Nat /\ start <= pos /\ stats.hasher = e.data
        /\ LocalExtraOpen => NothingYet(pos, start, inner, f, e.data)
        /\ ~LocalExtraOpen => OpenAt("idle", disk, pos, start, inner, f, e.data)
    BY <1>1, <1>7 DEF OpenData
  <2> HIDE DEF start
  <2>2. Placed(disk, g, start) /\ HeaderEnd(g) = HeaderEnd(f)
    BY <1>8, <2>1, RecordKept
  <2>3. ~LocalExtraOpen => OpenAt("idle", disk, pos, start, inner, g, h.data)
    BY <1>4, <1>8, <2>1, RecordKept
  <2>4. LocalExtraOpen => NothingYet(pos, start, inner, g, h.data)
    BY <1>4, <1>8, <2>1, <2>2 DEF NothingYet, SameRecord
  <2>5. (LocalExtraOpen' <=> LocalExtraOpen) /\ start' = start
    BY <1>1 DEF LocalExtraOpen, start
  <2> QED
    BY <1>1, <1>4, <1>8, <2>1, <2>2, <2>3, <2>4, <2>5 DEF OpenData, start
<1>11. LastData(g, h)'
  BY <1>1, <1>6, <1>9, <1>10 DEF LastData
<1>12. LastData(LastFile, promised[Len(promised)])'
  BY <1>2, <1>3, <1>4, <1>11, LastDataIs
<1>13. StepKnown' /\ FieldsKnown' /\ CallKnown' /\ pos' <= Len(disk')
  BY <1>1, CallKept DEF DataStep, LiveData, StepKnown, FieldsKnown
<1>14. /\ files'[Len(files)].header_start = LastFile.header_start
       /\ files'[Len(files)].name = LastFile.name
       /\ promised'[Len(files)].name = promised[Len(files)].name
  BY <1>2, <1>3, <1>4, <1>8 DEF SameRecord
<1> QED
  BY <1>3, <1>4, <1>12, <1>13, <1>14, LastOnly

LEMMA WriteOpenData ==
    ASSUME DataStep, Write
    PROVE  LiveData'
<1>1. /\ Idle /\ writing_to_file
      /\ UNCHANGED <<writing_to_extra_field, writing_to_central_extra_field_only,
                     writing_raw>>
  BY DEF Write
<1>2. files # << >>
  BY <1>1, DataFacts DEF IInv, LastFileExists
<1>3. CASE writing_to_extra_field
  <2>1. PICK cell \in ExtraCells :
          /\ files' = SetLastFile([LastFile EXCEPT !.extra_field = Append(@, cell)])
          /\ promised' = [promised EXCEPT ![Len(promised)].extra = Append(@, cell)]
    BY <1>3 DEF Write
  <2>2. Return("ok") /\ UNCHANGED <<sinkVars, inner, stats>>
    BY <1>3 DEF Write
  <2> QED
    BY <1>1, <1>2, <1>3, <2>1, <2>2, WriteExtraData
<1>4. CASE ~writing_to_extra_field
  <2>1. PICK b : WriteData(b, TRUE)
    BY <1>4 DEF Write
  <2>2. UNCHANGED files /\ ~LocalExtraOpen /\ pc = "idle"
    BY <1>1, <1>4 DEF Write, LocalExtraOpen, Idle
  <2> QED
    BY <1>1, <2>1, <2>2, WriteDataData
<1> QED
  BY <1>3, <1>4

\* What is left of the last entry when its extra field ends.
ExtraLeaves(f, e, w) ==
    /\ SameRecord(LastFile, f) /\ f.extra_field = LastFile.extra_field
    /\ ValidExtra(f.extra_field) /\ (LocalExtraOpen => IsPlain(inner))
    /\ HeaderEnd(f) <= stats'.start
    /\ stats'.start \in Nat /\ stats'.start <= pos' /\ stats'.hasher = e.data
    /\ Placed(disk', f, stats'.start)
    /\ Flowing(disk', pos', stats'.start, w, f, e.data)
    /\ inner' = w /\ w.encrypted \in BOOLEAN /\ FieldsKnown' /\ pos' <= Len(disk')

LEMMA ExtraEndedData ==
    ASSUME DataStep, pc \in ExtraSteps, writing_to_extra_field, files # << >>,
           NEW f, NEW w, ExtraEnded(f, w), ExtraLeaves(f, promised[Len(promised)], w)
    PROVE  LiveData'
<1> PICK old, e, g, h :
        /\ old = LastFile /\ e = promised[Len(promised)]
        /\ g = IF EntersCentral \/ AlignedEnd THEN ForLocalHeader(f) ELSE f
        /\ h = promised'[Len(promised)]
  OBVIOUS
<1>1. /\ files' = [files EXCEPT ![Len(files)] = g]
      /\ writing_to_extra_field' = EntersCentral
      /\ writing_to_central_extra_field_only' = EntersCentral
      /\ IF pc = "end_extra" THEN Return("ok") ELSE Goto(AfterExtra(w))
      /\ promised' = IF EntersCentral
                     THEN [promised EXCEPT ![Len(promised)].extra = << >>]
                     ELSE promised
      /\ UNCHANGED writing_raw
  BY DEF ExtraEnded, SetLastFile, AlignedEnd, CentralOnlyNext
<1>2. /\ UNCHANGED call
      /\ pc' = "idle" \/ pc' = AfterExtra(w)
  BY <1>1 DEF Return, Goto
<1>3. pc' \in {"idle", "switch_stored", "finish_crypto", "update_header"}
      /\ (pc' = "switch_stored" => w.method # "stored")
  BY <1>2 DEF AfterExtra
<1>4. /\ IsSeq(files) /\ Len(promised) = Len(files) /\ PromisesOK
      /\ Len(files) \in Nat /\ promised # << >>
  BY DataFacts, EmptyIsSeq
<1>5. /\ Len(files') = Len(files) /\ files'[Len(files)] = g
      /\ \A i \in 1..Len(files) : i < Len(files) => files'[i] = files[i]
  <2>1. \A t : t = [files EXCEPT ![Len(files)] = g] =>
          /\ Len(t) = Len(files) /\ t[Len(files)] = g
          /\ \A i \in 1..Len(files) : i < Len(files) => t[i] = files[i]
    BY <1>4, LastReplaced
  <2> QED
    BY <1>1, <2>1
<1>6. /\ Len(promised') = Len(promised)
      /\ \A i \in 1..Len(files) : i < Len(files) => promised'[i] = promised[i]
      /\ h.name = e.name /\ h.data = e.data
      /\ h.extra = IF EntersCentral THEN << >> ELSE e.extra
  <2>1. CASE EntersCentral
    <3>1. promised' = [promised EXCEPT ![Len(promised)].extra = << >>]
      BY <1>1, <2>1
    <3> QED
      BY <1>4, <2>1, <3>1, LastPromised
  <2>2. CASE ~EntersCentral
    BY <1>1, <1>4, <2>2
  <2> QED
    BY <2>1, <2>2
<1>7. LastData(old, e)
  BY DataLast
<1>8. ~writing_raw /\ ~Settled'
  BY <1>1, <1>3 DEF DataStep, LiveData, StepKnown, Settled
<1>9. /\ SameRecord(old, f) /\ f.extra_field = old.extra_field
      /\ ValidExtra(f.extra_field) /\ (LocalExtraOpen => IsPlain(inner))
      /\ HeaderEnd(f) <= stats'.start
      /\ stats'.start \in Nat /\ stats'.start <= pos' /\ stats'.hasher = e.data
      /\ Placed(disk', f, stats'.start)
      /\ Flowing(disk', pos', stats'.start, w, f, e.data)
      /\ inner' = w /\ w.encrypted \in BOOLEAN /\ FieldsKnown' /\ pos' <= Len(disk')
  BY DEF ExtraLeaves
<1>10. /\ SameRecord(f, g) /\ EntryFields(g) /\ SameRecord(old, g)
       /\ g.extra_field = IF EntersCentral \/ AlignedEnd THEN << >> ELSE f.extra_field
  <2>1. EntryFields(f)
    BY <1>9 DEF SameRecord
  <2> QED
    BY <1>9, <2>1 DEF EntryFields, SameRecord, ForLocalHeader
<1>11. /\ ~AlignedEnd' /\ ~LocalExtraOpen' /\ ~(EntersCentral /\ AlignedEnd)
  BY <1>1, <1>3 DEF AlignedEnd, LocalExtraOpen, EntersCentral
<1>12. h.extra = CustomExtra(g.extra_field)
  <2>1. CASE EntersCentral
    BY <1>6, <1>10, <2>1, NoExtraIsCustom
  <2>2. CASE AlignedEnd
    <3>1. e.extra = << >>
      BY <1>7, <2>2 DEF LastData, ExtraAgrees
    <3> QED
      BY <1>6, <1>10, <1>11, <2>2, <3>1, NoExtraIsCustom
  <2>3. CASE ~EntersCentral /\ ~AlignedEnd
    <3>1. ~(Len(f.extra_field) > ZIP64_ENTRY_THR)
      <4>1. Len(f.extra_field) <= ZIP64_ENTRY_THR
        BY <1>9 DEF ValidExtra
      <4>2. IsSeq(f.extra_field)
        BY <1>9, DataLast
      <4>3. Len(f.extra_field) \in Nat
        BY <4>2, LenIsNat
      <4> QED
        BY <4>1, <4>3, EntryThrAssumption
    <3>2. e.extra = CustomExtra(old.extra_field)
      BY <1>7, <1>9, <2>3, <3>1 DEF LastData, ExtraAgrees
    <3> QED
      BY <1>6, <1>9, <1>10, <2>3, <3>2
  <2> QED
    BY <2>1, <2>2, <2>3
<1>13. ExtraAgrees(g, h)'
  BY <1>11, <1>12 DEF ExtraAgrees
<1>14. OpenData(g, h)'
  <2> DEFINE start == stats'.start
  <2>1. Placed(disk', g, start) /\ HeaderEnd(g) = HeaderEnd(f)
        /\ Flowing(disk', pos', start, w, g, h.data)
    BY <1>6, <1>9, <1>10, RecordKept
  <2> HIDE DEF start
  <2>2. OpenAt(AfterExtra(w), disk', pos', start, w, g, h.data)
    BY <1>9, <2>1, FinishFileOpens
  <2>3. OpenAt("idle", disk', pos', start, w, g, h.data)
    BY <2>1 DEF OpenAt
  <2>4. OpenAt(pc', disk', pos', start, w, g, h.data)
    BY <1>2, <2>2, <2>3
  <2> QED
    BY <1>6, <1>9, <1>10, <1>11, <2>1, <2>4 DEF OpenData, start
<1>15. LastData(g, h)'
  BY <1>3, <1>8, <1>13, <1>14 DEF LastData
<1>16. LastData(LastFile, promised[Len(promised)])'
  BY <1>4, <1>5, <1>6, <1>15, LastDataIs
<1>17. StepKnown' /\ CallKnown'
  BY <1>1, <1>2, <1>3, <1>8, <1>9, CallKept DEF StepKnown
<1>18. /\ files'[Len(files)].header_start = LastFile.header_start
       /\ files'[Len(files)].name = LastFile.name
       /\ promised'[Len(files)].name = promised[Len(files)].name
  BY <1>4, <1>5, <1>6, <1>10 DEF SameRecord
<1> QED
  BY <1>5, <1>6, <1>9, <1>16, <1>17, <1>18, LastOnly

\* The extra field of an entry that is open.
LEMMA ExtraIsOpen ==
    ASSUME DataStep, pc \in ExtraSteps, ExtraAccepted
    PROVE  /\ files # << >> /\ ~Settled /\ writing_to_extra_field
           /\ OpenData(LastFile, promised[Len(promised)])
           /\ EntryFields(LastFile) /\ ValidExtra(LastFile.extra_field)
           /\ LocalExtraOpen => NothingYet(pos, stats.start, inner, LastFile,
                                           promised[Len(promised)].data)
           /\ ~LocalExtraOpen =>
                Flowing(disk, pos, stats.start, inner, LastFile,
                        promised[Len(promised)].data)
<1>1. writing_to_extra_field /\ ValidExtra(LastFile.extra_field)
  BY DEF ExtraAccepted
<1>2. files # << >>
  BY <1>1, DataFacts DEF IInv, LastFileExists
<1>3. ~Settled
  BY <1>1 DEF DataStep, LiveData, StepKnown, Settled, ExtraSteps
<1>4. PICK e : e = promised[Len(promised)]
  OBVIOUS
<1>5. OpenData(LastFile, e)
  BY <1>2, <1>3, <1>4, DataLast DEF LastData
<1>6. pc \notin {"finish_crypto", "update_header"}
  BY DEF ExtraSteps
<1> QED
  BY <1>1, <1>2, <1>3, <1>4, <1>5, <1>6 DEF OpenData, OpenAt

LEMMA EndCentralExtraData ==
    ASSUME DataStep, EndCentralExtra
    PROVE  LiveData'
<1> PICK f, e : f = LastFile /\ e = promised[Len(promised)]
  OBVIOUS
<1>1. /\ pc \in ExtraSteps /\ ExtraAccepted /\ ~LocalExtraOpen
      /\ ExtraEnded(f, inner) /\ UNCHANGED <<disk, pos, inner, stats>>
  BY DEF EndCentralExtra, LocalExtraOpen, sinkVars
<1>2. /\ files # << >> /\ writing_to_extra_field /\ OpenData(f, e) /\ EntryFields(f)
      /\ ValidExtra(f.extra_field) /\ Flowing(disk, pos, stats.start, inner, f, e.data)
  BY <1>1, ExtraIsOpen
<1>3. SameRecord(LastFile, f)
  BY <1>2 DEF SameRecord
<1>4. inner.encrypted \in BOOLEAN /\ FieldsKnown' /\ pos' <= Len(disk')
  BY <1>1, DataFacts DEF FieldsKnown, IsWriter
<1>5. ExtraLeaves(f, e, inner)
  BY <1>1, <1>2, <1>3, <1>4 DEF ExtraLeaves, OpenData
<1> QED
  BY <1>1, <1>2, <1>5, ExtraEndedData

\* The length of the extra field fits the local header.
LEMMA ExtraLengthFits ==
    ASSUME RoomForZip64, IsSeq(files), files # << >>, NEW f, f = LastFile,
           IsSeq(f.extra_field), ValidExtra(f.extra_field)
    PROVE  /\ ZeroOrOne(f.large_file) + Len(f.extra_field) <= ZIP64_ENTRY_THR
           /\ LocalExtraLen(f) = ZeroOrOne(f.large_file) + Len(f.extra_field)
           /\ ZeroOrOne(f.large_file) \in {0, 1} /\ Len(f.extra_field) \in Nat
<1>1. Len(files) \in 1..Len(files)
  BY LenIsNat
<1>2. f.large_file => Len(f.extra_field) < ZIP64_ENTRY_THR
  BY <1>1 DEF RoomForZip64, NeedsZip64, LastFile
<1>3. Len(f.extra_field) <= ZIP64_ENTRY_THR
  BY DEF ValidExtra
<1>4. Len(f.extra_field) \in Nat
  BY LenIsNat
<1>5. /\ ZeroOrOne(f.large_file) \in {0, 1}
      /\ ~f.large_file => ZeroOrOne(f.large_file) = 0
  BY DEF ZeroOrOne
<1> DEFINE x == ZeroOrOne(f.large_file) + Len(f.extra_field)
<1>6. x \in Nat /\ x <= ZIP64_ENTRY_THR
  BY <1>2, <1>3, <1>4, <1>5, EntryThrAssumption
<1>7. LocalExtraLen(f) = x % (ZIP64_ENTRY_THR + 1)
  BY DEF LocalExtraLen
<1> HIDE DEF x
<1>8. LocalExtraLen(f) = x
  BY <1>6, <1>7, SmallRemainder, EntryThrAssumption
<1> QED
  BY <1>4, <1>5, <1>6, <1>8 DEF x

\* The extra field on the disk, and its length in the header.
LEMMA ExtraIsPlaced ==
    ASSUME NEW d, IsSeq(d), NEW f, f.header_start \in Nat, NEW p \in Nat, p <= Len(d),
           LocalAt(d, f), HeaderEnd(f) = p, IsSeq(f.extra_field),
           LocalExtraLen(f) = ZeroOrOne(f.large_file) + Len(f.extra_field),
           ZeroOrOne(f.large_file) \in {0, 1}
    PROVE  LET grown == WriteAt(d, p, f.extra_field)
               patched == WriteAt(grown, f.header_start + EXTRA_LEN_OFFSET,
                                  << <<"extralen", LocalExtraLen(f)>> >>)
               end == p + Len(f.extra_field)
           IN  /\ IsSeq(patched) /\ end \in Nat /\ end <= Len(patched)
               /\ Placed(patched, f, end) /\ HeaderEnd(f) <= end
<1> DEFINE at == f.header_start + EXTRA_LEN_OFFSET
           cell == <<"extralen", LocalExtraLen(f)>>
           grown == WriteAt(d, p, f.extra_field)
           patched == WriteAt(grown, at, <<cell>>)
           n == Len(f.extra_field)
<1>1. n \in Nat
  BY LenIsNat
<1>2. at \in Nat /\ at = f.header_start + 3 /\ f.header_start < p
  BY DEF EXTRA_LEN_OFFSET, HeaderEnd, HEADER_LEN
<1>3. /\ IsSeq(grown) /\ p + n <= Len(grown) /\ Len(grown) \in Nat
  BY WriteAtKeeps
<1>4. IsSeq(<<cell>>)
  BY SingleIsSeq
<1>5. /\ IsSeq(patched) /\ Len(grown) <= Len(patched) /\ Len(patched) \in Nat
  BY <1>2, <1>3, <1>4, WriteAtKeeps
<1>6. At(grown, f.header_start) = At(d, f.header_start)
  <2> DEFINE x == f.extra_field
             after == WriteAt(d, p, x)
  <2>1. f.header_start \in Nat /\ ~(p <= f.header_start) /\ IsSeq(x)
    BY <1>2
  <2>2. grown = after
    OBVIOUS
  <2> HIDE DEF grown, x
  <2>3. \A q \in Nat : At(after, q) = IF p <= q /\ q < p + Len(x)
                                       THEN x[q - p + 1] ELSE At(d, q)
    BY ONLY <2>1, IsSeq(d), p \in Nat, WriteAtCells
  <2> HIDE DEF after
  <2> QED
    BY ONLY <2>1, <2>2, <2>3, p \in Nat
<1>7. \A q \in Nat : At(patched, q) = IF q = at THEN cell ELSE At(grown, q)
  BY <1>2, <1>3, WriteOneCell
<1> HIDE DEF patched, grown, cell
<1>8. At(patched, at) = cell /\ At(patched, f.header_start) = At(d, f.header_start)
  BY <1>2, <1>6, <1>7
<1>9. LengthCell(patched, f) = cell
  BY <1>8 DEF LengthCell
<1>10. LocalAt(patched, f)
  BY <1>8, <1>9 DEF LocalAt, cell
<1>11. /\ cell[2] = ZeroOrOne(f.large_file) + n
       /\ f.header_start + HEADER_LEN + cell[2] = p + n
  <2>1. cell[2] = ZeroOrOne(f.large_file) + n
    BY DEF cell
  <2>2. p = f.header_start + 4 + ZeroOrOne(f.large_file)
    BY DEF HeaderEnd, HEADER_LEN
  <2> HIDE DEF n
  <2> QED
    BY <1>1, <2>1, <2>2 DEF HEADER_LEN
<1>12. Placed(patched, f, p + n)
  BY <1>1, <1>9, <1>10, <1>11 DEF Placed
<1> HIDE DEF n
<1> QED
  BY <1>1, <1>3, <1>5, <1>12 DEF grown, patched, cell, n

LEMMA EndLocalExtraData ==
    ASSUME DataStep, EndLocalExtra
    PROVE  LiveData'
<1> DEFINE n == Len(LastFile.extra_field)
           end == LastFile.data_start + n
<1> PICK f, e, moved, w :
        /\ f = LastFile /\ e = promised[Len(promised)]
        /\ moved = [f EXCEPT !.data_start = f.data_start + Len(f.extra_field)]
        /\ w = SwitchTo(inner, moved.method, moved.level)
  OBVIOUS
<1>1. /\ pc \in ExtraSteps /\ ExtraAccepted /\ LocalExtraOpen /\ IsPlain(inner)
  BY DEF EndLocalExtra, EndingLocalExtra, ExtraAccepted, LocalExtraOpen
<1>2. /\ files # << >> /\ writing_to_extra_field /\ OpenData(f, e) /\ EntryFields(f)
      /\ ValidExtra(f.extra_field) /\ NothingYet(pos, stats.start, inner, f, e.data)
  BY <1>1, ExtraIsOpen
<1>3. /\ IsSeq(f.extra_field) /\ f.header_start \in Nat /\ IsSeq(disk)
      /\ pos \in Nat /\ pos <= Len(disk) /\ IsSeq(files)
  BY <1>2, DataLast, DataFacts
<1>4. /\ f.data_start = pos /\ HeaderEnd(f) = pos /\ e.data = << >>
      /\ inner = [Plain EXCEPT !.encrypted = f.encrypted] /\ LocalAt(disk, f)
  BY <1>2 DEF NothingYet, OpenData, Placed
<1>5. /\ ZeroOrOne(f.large_file) + Len(f.extra_field) <= ZIP64_ENTRY_THR
      /\ LocalExtraLen(f) = ZeroOrOne(f.large_file) + Len(f.extra_field)
      /\ ZeroOrOne(f.large_file) \in {0, 1} /\ Len(f.extra_field) \in Nat
  BY <1>2, <1>3, ExtraLengthFits DEF DataStep
<1> PICK stop : stop = pos + Len(f.extra_field)
  OBVIOUS
<1>6. /\ SameRecord(f, moved) /\ moved.extra_field = f.extra_field
      /\ moved.level = f.level /\ moved.data_start = stop
  BY <1>2, <1>4 DEF EntryFields, SameRecord
<1>7. ~LocalExtraOverflows(moved)
  BY <1>5, <1>6, EntryThrAssumption DEF LocalExtraOverflows, SameRecord
<1>8. /\ Succeeds(ExtraTrace(f, stop)) /\ stats' = [stats EXCEPT !.start = stop]
      /\ inner' = w /\ IF IsClosed(w) THEN TRUE ELSE ExtraEnded(moved, w)
  <2>1. f.data_start + Len(f.extra_field) = stop
    BY <1>4
  <2> QED
    BY <1>7, <2>1, NoFaultData DEF EndLocalExtra
<1>9. ExtraEnded(moved, w) /\ ~IsClosed(w)
  BY <1>8 DEF DataStep
<1> DEFINE grown == WriteAt(disk, pos, f.extra_field)
           patched == WriteAt(grown, f.header_start + EXTRA_LEN_OFFSET,
                              << <<"extralen", LocalExtraLen(f)>> >>)
<1>10. disk' = patched /\ pos' = stop
  <2>1. ExtraTrace(f, stop)[Len(ExtraTrace(f, stop))] = <<patched, stop>>
    BY <1>3, ExtraTraceEnds
  <2> HIDE DEF patched
  <2> QED
    BY <1>8, <2>1 DEF Succeeds, MoveSink
<1>11. /\ IsSeq(patched) /\ stop \in Nat /\ stop <= Len(patched)
       /\ Placed(patched, f, stop) /\ HeaderEnd(f) <= stop
  BY <1>3, <1>4, <1>5, ExtraIsPlaced
<1> HIDE DEF patched, grown
<1>12. /\ w.method = f.method /\ w.encrypted = f.encrypted
       /\ w.buffer = << >> /\ w.pending = << >> /\ w.encrypted \in BOOLEAN
       /\ "pending" \in DOMAIN w
  <2>1. inner = [method |-> "stored", encrypted |-> f.encrypted, buffer |-> << >>,
                 pending |-> << >>]
    BY <1>4 DEF Plain, Closed
  <2>2. f.encrypted \in BOOLEAN
    <3>1. inner.encrypted \in BOOLEAN /\ inner.encrypted = f.encrypted
      BY <2>1, DataFacts DEF IsWriter
    <3> QED
      BY <3>1
  <2>3. \/ w = inner /\ inner.method = f.method
        \/ w = [inner EXCEPT !.method = f.method]
    <3>1. w = SwitchTo(inner, f.method, f.level)
      BY <1>6 DEF SameRecord
    <3>2. w # Closed
      BY <1>9 DEF IsClosed, Closed
    <3> QED
      BY <3>1, <3>2 DEF SwitchTo
  <2> QED
    BY <2>1, <2>2, <2>3
<1>13. Flowing(patched, stop, stop, w, f, << >>)
  BY <1>11, <1>12, FlowingStarts
<1>14. /\ stats'.start = stop /\ stats'.hasher = e.data
       /\ {"hasher", "start", "bytes_written"} \subseteq DOMAIN stats'
  <2>1. {"hasher", "start", "bytes_written"} \subseteq DOMAIN stats
    BY DataFacts DEF FieldsKnown
  <2>2. stats.hasher = e.data
    BY <1>2 DEF OpenData
  <2> QED
    BY <1>8, <2>1, <2>2
<1>15. ExtraLeaves(moved, e, w)
  <2>1. /\ Placed(disk', moved, stop) /\ HeaderEnd(moved) <= stop
        /\ Flowing(disk', stop, stop, w, moved, e.data)
    BY <1>4, <1>6, <1>10, <1>11, <1>13, RecordKept
  <2>2. FieldsKnown'
    BY <1>8, <1>12, <1>14 DEF FieldsKnown
  <2>3. stop <= pos' /\ pos' <= Len(disk')
    BY <1>10, <1>11
  <2> QED
    BY <1>1, <1>2, <1>6, <1>8, <1>10, <1>11, <1>12, <1>14, <2>1, <2>2, <2>3
    DEF ExtraLeaves
<1> QED
  BY <1>1, <1>2, <1>9, <1>15, ExtraEndedData

-----------------------------------------------------------------------------
(***************************************************************************)
(* finish_file.                                                            *)
(***************************************************************************)
\* The last entry while its file is finished.
LEMMA FinishingIs ==
    ASSUME DataStep, pc \in {"switch_stored", "finish_crypto", "update_header"},
           files # << >>
    PROVE  LET e == promised[Len(promised)]
           IN  /\ ~writing_to_extra_field /\ ~LocalExtraOpen
               /\ e.extra = CustomExtra(LastFile.extra_field)
               /\ writing_raw => EntryOn(disk, LastFile, e.data, pos)
               /\ ~writing_raw =>
                    /\ OpenData(LastFile, e)
                    /\ OpenAt(pc, disk, pos, stats.start, inner, LastFile, e.data)
<1> PICK e : e = promised[Len(promised)]
  OBVIOUS
<1>1. ~writing_to_extra_field /\ ~LocalExtraOpen /\ ~AlignedEnd
  BY DEF DataStep, PromiseInv, ExtraDone, AfterExtraSteps, LocalExtraOpen, AlignedEnd
<1>2. LastData(LastFile, e) /\ (Settled <=> writing_raw)
  BY DataLast DEF Settled
<1>3. e.extra = CustomExtra(LastFile.extra_field)
  BY <1>1, <1>2 DEF LastData, ExtraAgrees
<1>4. writing_raw => EntryOn(disk, LastFile, e.data, pos)
  BY <1>2 DEF LastData
<1>5. ~writing_raw => OpenData(LastFile, e)
  BY <1>2 DEF LastData
<1>6. ~writing_raw => OpenAt(pc, disk, pos, stats.start, inner, LastFile, e.data)
  BY <1>1, <1>5 DEF OpenData
<1> QED
  BY <1>1, <1>3, <1>4, <1>5, <1>6

\* The sink behind the cells `out', written at its position.
LEMMA RegionBehind ==
    ASSUME NEW d, IsSeq(d), NEW p \in Nat, p <= Len(d), NEW out, IsSeq(out),
           NEW start \in Nat, start <= p
    PROVE  \A e, q : e = WriteAt(d, p, out) /\ q = p + Len(out)
                       => Between(e, start, q) = Between(d, start, p) \o out
<1>1. Between(WriteAt(d, p, out), start, p + Len(out)) = Between(d, start, p) \o out
  BY RegionGrows
<1> QED
  BY <1>1

\* A step towards its plain end: only the sink and the writer change.
LEMMA FinishingData ==
    ASSUME DataStep, pc \in {"switch_stored", "finish_crypto"},
           pc' \in {"finish_crypto", "update_header"},
           UNCHANGED <<dataVars, flagVars, promised, call>>,
           Onward(disk, pos, disk', pos'), FieldsKnown',
           files # << >> /\ ~writing_raw =>
             OpenAt(pc', disk', pos', stats.start, inner', LastFile,
                    promised[Len(promised)].data)
    PROVE  LiveData'
<1>1. /\ UNCHANGED <<files, stats, promised>>
      /\ UNCHANGED <<writing_to_extra_field, writing_to_central_extra_field_only,
                     writing_raw>>
  BY DEF dataVars, flagVars
<1>2. /\ IsSeq(disk) /\ IsSeq(disk') /\ pos \in Nat /\ pos' \in Nat
      /\ pos <= Len(disk) /\ Len(disk) \in Nat
      /\ pos <= pos' /\ pos' <= Len(disk')
  BY DataFacts DEF Onward
<1>3. ASSUME files # << >>
      PROVE  LastData(LastFile, promised[Len(promised)])'
  <2>1. PICK f, e : f = LastFile /\ e = promised[Len(promised)]
    OBVIOUS
  <2>2. /\ ~writing_to_extra_field
        /\ e.extra = CustomExtra(f.extra_field)
        /\ writing_raw => EntryOn(disk, f, e.data, pos)
        /\ ~writing_raw => OpenData(f, e)
        /\ f.header_start \in Nat
    BY <1>3, <2>1, FinishingIs, DataLast
  <2>3. /\ ~writing_to_extra_field' /\ ~LocalExtraOpen' /\ ~AlignedEnd'
        /\ (Settled' <=> writing_raw) /\ pc' # "copy"
    BY <1>1, <2>2 DEF LocalExtraOpen, AlignedEnd, Settled
  <2>4. ExtraAgrees(f, e)'
    BY <2>2, <2>3 DEF ExtraAgrees
  <2>5. writing_raw => EntryOn(disk', f, e.data, pos')
    BY <1>2, <2>2, EntryStays
  <2>6. ASSUME ~writing_raw PROVE OpenData(f, e)'
    <3> DEFINE start == stats.start
    <3>1. /\ EntryFields(f) /\ Placed(disk, f, start) /\ HeaderEnd(f) <= start
          /\ start \in Nat /\ start <= pos /\ stats.hasher = e.data
      BY <2>2, <2>6 DEF OpenData
    <3>2. start' = start
      BY <1>1
    <3> HIDE DEF start
    <3>3. \A q \in Nat : q < start => At(disk', q) = At(disk, q)
      BY <1>2, <3>1 DEF Onward
    <3>4. Placed(disk', f, start)
      BY <2>2, <3>1, <3>3, PlacedKept
    <3>5. start <= pos'
      BY <1>2, <3>1
    <3>6. OpenAt(pc', disk', pos', start, inner', f, e.data)
      BY <1>3, <2>1, <2>6 DEF start
    <3> QED
      BY <1>1, <2>3, <3>1, <3>2, <3>4, <3>5, <3>6 DEF OpenData, start
  <2>7. LastData(f, e)'
    BY <2>3, <2>4, <2>5, <2>6 DEF LastData
  <2>8. files'[Len(files')] = f /\ promised'[Len(promised')] = e
    BY <1>1, <2>1 DEF LastFile
  <2> QED
    BY <2>7, <2>8, LastDataIs
<1>4. StepKnown'
  <2>1. pc' \notin {"copy", "target", "local_header", "central", "switch_stored"}
    OBVIOUS
  <2> QED
    BY <1>1, <2>1 DEF DataStep, LiveData, StepKnown
<1>5. CallKnown'
  BY CallKept
<1> QED
  BY <1>1, <1>2, <1>3, <1>4, <1>5, NoRecordChanges

LEMMA SwitchStoredData ==
    ASSUME DataStep, SwitchStored
    PROVE  LiveData'
<1> PICK tail, after : /\ tail = Append(Pending(inner), <<"zend", inner.method>>)
                       /\ after = [inner EXCEPT !.method = "stored", !.pending = << >>,
                                                !.buffer = Kept(inner, tail)]
  OBVIOUS
<1>1. /\ pc = "switch_stored" /\ Succeeds(SinkTrace(inner, tail))
      /\ inner' = after /\ Goto(AfterExtra(after))
      /\ UNCHANGED <<dataVars, flagVars, promised>>
  BY NoFaultData DEF SwitchStored, DataStep
<1>2. IsSeq(tail)
  BY PendingIsSeq
<1>3. SinkMoves(inner, tail, disk, pos, disk', pos')
  BY <1>1, <1>2, SinkTraceMoves
<1>4. /\ IsSeq(disk) /\ pos \in Nat /\ pos <= Len(disk)
      /\ {"method", "encrypted", "buffer", "pending"} \subseteq DOMAIN inner
      /\ inner.encrypted \in BOOLEAN /\ FieldsKnown
  BY DataFacts DEF IsWriter, BufferOK, FieldsKnown
<1>5. Onward(disk, pos, disk', pos')
  BY <1>2, <1>3, <1>4, MovesOnward
<1>6. /\ after.method = "stored" /\ after.encrypted = inner.encrypted
      /\ after.buffer = Kept(inner, tail) /\ "pending" \in DOMAIN after
  BY <1>4
<1>7. pc' = IF inner.encrypted THEN "finish_crypto" ELSE "update_header"
  BY <1>1, <1>6 DEF Goto, AfterExtra
<1>8. FieldsKnown'
  <2>1. stats' = stats
    BY <1>1 DEF dataVars
  <2> QED
    BY <1>1, <1>4, <1>6, <2>1 DEF FieldsKnown
<1>9. ASSUME files # << >>, ~writing_raw
      PROVE  OpenAt(pc', disk', pos', stats.start, inner', LastFile,
                    promised[Len(promised)].data)
  <2>1. PICK f, e, start : f = LastFile /\ e = promised[Len(promised)]
                           /\ start = stats.start
    OBVIOUS
  <2>2. /\ OpenData(f, e) /\ OpenAt("switch_stored", disk, pos, start, inner, f, e.data)
        /\ inner.method # "stored"
    BY <1>1, <1>9, <2>1, FinishingIs DEF DataStep, LiveData, StepKnown
  <2>3. Flowing(disk, pos, start, inner, f, e.data)
    BY <2>2 DEF OpenAt
  <2>4. start \in Nat /\ start <= pos
    BY <2>1, <2>2 DEF OpenData
  <2> DEFINE cells == Emitted(disk, pos, start, inner)
  <2>5. /\ inner.method = f.method /\ inner.encrypted = f.encrypted
        /\ f.encrypted => pos = start
        /\ Coding(inner.method, cells, inner.pending, e.data)
    BY <2>3 DEF Flowing
  <2> HIDE DEF cells
  <2>6. IsSeq(cells \o tail) /\ Coded(f.method, cells \o tail, e.data)
    BY <2>2, <2>5, EndedIsCoded
  <2>7. Emitted(disk', pos', start, after) = cells \o tail
    <3>1. PICK w, d, p, e1, q : /\ w = inner /\ d = disk /\ p = pos
                                /\ e1 = disk' /\ q = pos'
      OBVIOUS
    <3>2. /\ IsSeq(d) /\ p \in Nat /\ p <= Len(d)
          /\ start \in Nat /\ start <= p /\ IsSeq(tail)
          /\ SinkMoves(w, tail, d, p, e1, q)
          /\ w.encrypted \in BOOLEAN
          /\ after.encrypted = w.encrypted /\ after.buffer = Kept(w, tail)
      BY <1>2, <1>3, <1>4, <1>6, <2>4, <3>1
    <3>3. Emitted(e1, q, start, after) = Emitted(d, p, start, w) \o tail
      BY ONLY <3>2, EmittedGrows
    <3> QED
      BY <3>1, <3>3 DEF cells
  <2>8. CASE inner.encrypted
    <3>1. pos' = start /\ after.encrypted /\ f.encrypted
      BY <1>3, <1>6, <2>5, <2>8 DEF SinkMoves
    <3>2. after.buffer = cells \o tail
      BY <2>7, <3>1 DEF Emitted
    <3>3. Collected(pos', start, after, f, e.data)
      BY <2>6, <3>1, <3>2 DEF Collected
    <3> QED
      BY <1>1, <1>7, <2>1, <2>8, <3>3 DEF OpenAt
  <2>9. CASE ~inner.encrypted
    <3>1. ~f.encrypted /\ ~after.encrypted
      BY <1>6, <2>5, <2>9
    <3>2. Between(disk', start, pos') = cells \o tail
      BY <2>7, <3>1 DEF Emitted
    <3>3. Carries(f, Between(disk', start, pos'), e.data)
      BY <2>6, <3>1, <3>2, PlainCarries
    <3> QED
      BY <1>1, <1>7, <2>1, <2>9, <3>3 DEF OpenAt
  <2> QED
    BY <2>8, <2>9
<1>10. pc' \in {"finish_crypto", "update_header"} /\ UNCHANGED call
  BY <1>1, <1>7 DEF Goto
<1> QED
  BY <1>1, <1>5, <1>8, <1>9, <1>10, FinishingData

LEMMA FinishCryptoData ==
    ASSUME DataStep, FinishCrypto
    PROVE  LiveData'
<1> PICK cells : cells = <<<<"crypthdr", stats.hasher>>>> \o Encrypted(inner.buffer)
  OBVIOUS
<1>1. /\ pc = "finish_crypto" /\ Succeeds(Still(WriteTrace(disk, pos, cells)))
      /\ inner' = Plain /\ Goto("update_header")
      /\ UNCHANGED <<dataVars, flagVars, promised>>
  BY NoFaultData DEF FinishCrypto
<1>2. IsSeq(Encrypted(inner.buffer))
  <2>1. IsSeq(inner.buffer)
    BY DataFacts DEF BufferOK
  <2>2. Len(inner.buffer) \in Nat
    BY <2>1, LenIsNat
  <2> QED
    BY <2>2, FunctionIsSeq DEF Encrypted
<1>3. IsSeq(cells)
  BY <1>2, SingleIsSeq, ConcatIsSeq
<1>4. disk' = WriteAt(disk, pos, cells) /\ pos' = pos + Len(cells)
  <2> DEFINE trace == Still(WriteTrace(disk, pos, cells))
  <2>1. Succeeds(trace)
    BY <1>1
  <2>2. trace[Len(trace)] = <<WriteAt(disk, pos, cells), pos + Len(cells)>>
    BY <1>3, WriteHereEnds, DataFacts
  <2> HIDE DEF trace
  <2> QED
    BY <2>1, <2>2 DEF Succeeds, MoveSink
<1>5. IsSeq(disk) /\ pos \in Nat /\ pos <= Len(disk) /\ FieldsKnown
  BY DataFacts
<1>6. Onward(disk, pos, disk', pos')
  BY <1>3, <1>4, <1>5, WriteIsOnward
<1>7. FieldsKnown'
  BY <1>1, <1>5 DEF FieldsKnown, dataVars, Plain, Closed
<1>8. ASSUME files # << >>, ~writing_raw
      PROVE  OpenAt("update_header", disk', pos', stats.start, inner', LastFile,
                    promised[Len(promised)].data)
  <2>1. PICK f, e, start : f = LastFile /\ e = promised[Len(promised)]
                           /\ start = stats.start
    OBVIOUS
  <2>2. OpenData(f, e) /\ OpenAt("finish_crypto", disk, pos, start, inner, f, e.data)
    BY <1>1, <1>8, <2>1, FinishingIs
  <2>3. Collected(pos, start, inner, f, e.data)
    BY <2>2 DEF OpenAt
  <2>4. /\ f.encrypted /\ pos = start /\ IsSeq(inner.buffer)
        /\ Coded(f.method, inner.buffer, e.data) /\ stats.hasher = e.data
    BY <2>2, <2>3 DEF Collected, OpenData
  <2>5. Carries(f, cells, e.data)
    BY <2>4, EncryptedCarries
  <2>6. Between(disk', pos, pos') = Between(disk, pos, pos) \o cells
    <3>1. pos <= pos
      BY <1>5
    <3> QED
      BY ONLY <1>3, <1>4, <1>5, <3>1, RegionBehind
  <2>7. Between(disk', pos, pos') = cells
    BY <1>3, <1>5, <2>6, NoRegion, NothingConcat
  <2> QED
    BY <2>1, <2>4, <2>5, <2>7 DEF OpenAt
<1>9. pc' = "update_header" /\ UNCHANGED call
  BY <1>1 DEF Goto
<1> QED
  BY <1>1, <1>6, <1>7, <1>8, <1>9, FinishingData

LEMMA KeepHeaderData ==
    ASSUME DataStep, KeepHeader
    PROVE  LiveData'
<1>1. /\ pc = "update_header" /\ (writing_raw \/ files = << >>)
      /\ UNCHANGED <<disk, pos, inner, files, stats, promised, call>>
      /\ UNCHANGED <<writing_to_extra_field, writing_to_central_extra_field_only>>
      /\ pc' = AfterFinishFile
      /\ IF writing_raw THEN writing_raw' = FALSE ELSE UNCHANGED writing_raw
  BY DEF KeepHeader, Goto, sinkVars, dataVars, ghostVars
<1>2. pc' \in {"local_header", "central"} /\ ~writing_raw'
  BY <1>1 DEF AfterFinishFile
<1>3. ASSUME files # << >>
      PROVE  LastData(LastFile, promised[Len(promised)])'
  <2>1. PICK f, e : f = LastFile /\ e = promised[Len(promised)]
    OBVIOUS
  <2>2. /\ ~writing_to_extra_field
        /\ e.extra = CustomExtra(f.extra_field)
        /\ EntryOn(disk, f, e.data, pos)
    BY <1>1, <1>3, <2>1, FinishingIs
  <2>3. ~AlignedEnd' /\ Settled' /\ pc' # "copy"
    BY <1>2 DEF AlignedEnd, Settled
  <2>4. ExtraAgrees(f, e)'
    BY <2>2, <2>3 DEF ExtraAgrees
  <2>5. LastData(f, e)'
    BY <1>1, <2>2, <2>3, <2>4 DEF LastData
  <2>6. files'[Len(files')] = f /\ promised'[Len(promised')] = e
    BY <1>1, <2>1 DEF LastFile
  <2> QED
    BY <2>5, <2>6, LastDataIs
<1>4. ~writing_to_extra_field
  BY <1>1 DEF DataStep, PromiseInv, ExtraDone, AfterExtraSteps
<1>5. StepKnown' /\ FieldsKnown' /\ CallKnown' /\ pos' <= Len(disk')
  BY <1>1, <1>2, <1>4, CallKept DEF DataStep, LiveData, StepKnown, FieldsKnown
<1> QED
  BY <1>1, <1>3, <1>5, NoRecordChanges

\* Cells behind `start' that are where they were.
LEMMA BetweenKept ==
    ASSUME NEW d, IsSeq(d), NEW e, IsSeq(e), NEW start \in Nat, NEW p \in Nat,
           start <= p, p <= Len(d), p <= Len(e),
           \A q \in Nat : start <= q => At(e, q) = At(d, q)
    PROVE  Between(e, start, p) = Between(d, start, p)
<1> DEFINE n == p - start
           s == Region(d, start, n)
           t == Region(e, start, n)
<1>1. n \in Nat /\ start + n = p
  OBVIOUS
<1>2. /\ IsSeq(s) /\ Len(s) = n /\ \A j \in 1..n : s[j] = At(d, start + j - 1)
  BY <1>1, RegionCells
<1>3. /\ IsSeq(t) /\ Len(t) = n /\ \A j \in 1..n : t[j] = At(e, start + j - 1)
  BY <1>1, RegionCells
<1>4. ASSUME NEW j \in 1..n PROVE At(e, start + j - 1) = At(d, start + j - 1)
  <2>1. start + j - 1 \in Nat /\ start <= start + j - 1
    BY <1>1
  <2> QED
    BY <2>1
<1> HIDE DEF s, t, n
<1>5. s = t
  BY <1>2, <1>3, <1>4, SameCells
<1> QED
  BY <1>5 DEF Between, s, t, n

\* A header that gets its checksum and sizes.
LEMMA HeaderIsPatched ==
    ASSUME NEW d, IsSeq(d), NEW g, g.header_start \in Nat,
           NEW start \in Nat, NEW p \in Nat, start <= p, p <= Len(d),
           Placed(d, g, start), HeaderEnd(g) <= start, ~TooLarge(g),
           g.compressed_size = p - start, NEW data, g.crc32 = data,
           Carries(g, Between(d, start, p), data)
    PROVE  LET summed == WriteAt(d, g.header_start + CRC32_OFFSET,
                                 << <<"crc", g.crc32>> >>)
               sized  == WriteAt(summed, g.header_start + SizesOffset(g),
                           <<IF g.large_file THEN LocalZip64(g) ELSE LocalSizes(g)>>)
           IN  EntryOn(sized, g, data, p) /\ p <= Len(sized)
<1> DEFINE h == g.header_start
           one == h + CRC32_OFFSET
           two == h + SizesOffset(g)
           sizes == IF g.large_file THEN LocalZip64(g) ELSE LocalSizes(g)
           summed == WriteAt(d, one, << <<"crc", g.crc32>> >>)
           sized == WriteAt(summed, two, <<sizes>>)
<1>1. /\ h \in Nat /\ LengthCell(d, g)[2] \in Nat
      /\ h + HEADER_LEN + LengthCell(d, g)[2] = start /\ LocalAt(d, g)
  BY DEF Placed
<1>2. /\ one \in Nat /\ two \in Nat /\ one < start /\ two < start
      /\ one # h /\ two # h /\ one # h + EXTRA_LEN_OFFSET /\ two # h + EXTRA_LEN_OFFSET
      /\ h < start /\ h + EXTRA_LEN_OFFSET \in Nat
  <2>1. one = h + 1 /\ h + EXTRA_LEN_OFFSET = h + 3 /\ h + 4 <= start
    BY <1>1 DEF CRC32_OFFSET, EXTRA_LEN_OFFSET, HEADER_LEN
  <2>2. CASE g.large_file
    <3>1. two = h + 4 /\ HeaderEnd(g) = h + 5
      BY <1>1, <2>2 DEF SizesOffset, ZIP64_OFFSET, HeaderEnd, ZeroOrOne, HEADER_LEN
    <3> HIDE DEF h, one, two
    <3> QED
      BY <1>1, <2>1, <3>1
  <2>3. CASE ~g.large_file
    <3>1. two = h + 2
      BY <2>3 DEF SizesOffset, SIZES_OFFSET
    <3> HIDE DEF h, one, two
    <3> QED
      BY <1>1, <2>1, <3>1
  <2> QED
    BY <2>2, <2>3
<1>3. /\ IsSeq(summed) /\ \A q \in Nat : q # one => At(summed, q) = At(d, q)
  BY <1>2, WriteOneCell
<1>4. Len(d) <= Len(summed) /\ Len(summed) \in Nat
  BY <1>2, SingleIsSeq, WriteAtKeeps
<1> HIDE DEF summed
<1>5. /\ IsSeq(sized) /\ \A q \in Nat : q # two => At(sized, q) = At(summed, q)
  BY <1>2, <1>3, WriteOneCell
<1>6. Len(summed) <= Len(sized) /\ Len(sized) \in Nat
  BY <1>2, <1>3, SingleIsSeq, WriteAtKeeps
<1> HIDE DEF sized
<1>7. \A q \in Nat : q # one /\ q # two => At(sized, q) = At(d, q)
  BY <1>3, <1>5
<1>8. p <= Len(sized) /\ Len(d) \in Nat
  BY <1>4, <1>6, LenIsNat
<1> HIDE DEF one, two
<1>9. \A q \in Nat : start <= q => At(sized, q) = At(d, q)
  BY <1>2, <1>7
<1>10. Between(sized, start, p) = Between(d, start, p)
  BY <1>5, <1>8, <1>9, BetweenKept
<1>11. At(sized, h) = At(d, h) /\ LengthCell(sized, g) = LengthCell(d, g)
  BY <1>1, <1>2, <1>7 DEF LengthCell
<1>12. LocalAt(sized, g)
  BY <1>1, <1>11 DEF LocalAt
<1>13. FindContent(sized, g).data = Between(sized, start, p)
  <2>1. FindContent(sized, g) =
          [ok |-> TRUE, data |-> Region(sized, h + HEADER_LEN + LengthCell(sized, g)[2],
                                        g.compressed_size)]
    BY <1>12 DEF FindContent, LocalAt, LengthCell
  <2> QED
    BY <1>1, <1>11, <2>1 DEF Between
<1>14. EntryEndsBy(sized, g, p)
  <2>1. At(sized, g.header_start + EXTRA_LEN_OFFSET) = LengthCell(sized, g)
    BY DEF LengthCell
  <2>2. p - start \in Nat /\ start + (p - start) <= p
    OBVIOUS
  <2> QED
    BY <1>1, <1>11, <2>1, <2>2 DEF EntryEndsBy
<1>15. EntryOn(sized, g, data, p)
  BY <1>10, <1>12, <1>13, <1>14 DEF EntryOn
<1> QED
  BY <1>8, <1>15 DEF sized, summed, one, two, sizes

LEMMA UpdateHeaderData ==
    ASSUME DataStep, UpdateHeader
    PROVE  LiveData'
<1> PICK f, e, g, start :
        /\ f = LastFile /\ e = promised[Len(promised)] /\ start = stats.start
        /\ g = [Summed EXCEPT !.compressed_size = U64(pos - stats.start)]
  OBVIOUS
<1>1. pc = "update_header" /\ ~writing_raw /\ files # << >>
  BY DEF UpdateHeader
<1>2. /\ ~writing_to_extra_field /\ ~LocalExtraOpen
      /\ e.extra = CustomExtra(f.extra_field)
      /\ OpenData(f, e)
      /\ OpenAt("update_header", disk, pos, start, inner, f, e.data)
      /\ f.header_start \in Nat
  BY <1>1, FinishingIs, DataLast
<1>3. /\ EntryFields(f) /\ Placed(disk, f, start) /\ HeaderEnd(f) <= start
      /\ start \in Nat /\ start <= pos /\ stats.hasher = e.data
      /\ Carries(f, Between(disk, start, pos), e.data)
  BY <1>2 DEF OpenData, OpenAt
<1>4. /\ IsSeq(disk) /\ pos \in Nat /\ pos <= Len(disk) /\ IsSeq(files)
      /\ Len(promised) = Len(files) /\ Len(files) \in Nat
  BY DataFacts
<1>5. U64(pos - stats.start) = pos - start
  BY <1>3, <1>4 DEF U64
<1>6. /\ g.name = f.name /\ g.encrypted = f.encrypted /\ g.method = f.method
      /\ g.extra_field = f.extra_field /\ g.header_start = f.header_start
      /\ g.large_file = f.large_file /\ g.crc32 = e.data
      /\ g.compressed_size = pos - start /\ EntryFields(g)
  <2>1. g = [f EXCEPT !.crc32 = stats.hasher, !.uncompressed_size = stats.bytes_written,
                      !.compressed_size = pos - start]
    BY <1>5 DEF Summed
  <2> QED
    BY <1>3, <2>1 DEF EntryFields
<1>7. ~(OverflowChecks /\ pos < stats.start)
  BY <1>3, <1>4
<1>8. files' = [files EXCEPT ![Len(files)] = g]
  BY <1>7, NoFaultData DEF UpdateHeader, SetLastFile
<1>9. /\ Len(files') = Len(files) /\ files'[Len(files)] = g
      /\ \A i \in 1..Len(files) : i < Len(files) => files'[i] = files[i]
  <2>1. \A t : t = [files EXCEPT ![Len(files)] = g] =>
          /\ Len(t) = Len(files) /\ t[Len(files)] = g
          /\ \A i \in 1..Len(files) : i < Len(files) => t[i] = files[i]
    BY <1>1, <1>4, LastReplaced
  <2> QED
    BY <1>8, <2>1
<1>10. ~TooLarge(g)
  <2>1. files' # << >> /\ LastFile' = g
    BY <1>1, <1>4, <1>9, EmptyIsSeq, LenIsNat DEF LastFile
  <2> QED
    BY <2>1 DEF DataStep, SizesFit, TooLarge
<1>11. /\ Succeeds(HeaderTrace(g)) /\ writing_raw' = FALSE /\ Goto(AfterFinishFile)
       /\ UNCHANGED <<inner, stats, writing_to_extra_field,
                      writing_to_central_extra_field_only, promised>>
  BY <1>7, <1>10, NoFaultData DEF UpdateHeader
<1> DEFINE summed == WriteAt(disk, g.header_start + CRC32_OFFSET,
                             << <<"crc", g.crc32>> >>)
           sized  == WriteAt(summed, g.header_start + SizesOffset(g),
                       <<IF g.large_file THEN LocalZip64(g) ELSE LocalSizes(g)>>)
<1>12. disk' = sized /\ pos' = pos
  <2> DEFINE trace == HeaderTrace(g)
  <2>1. trace[Len(trace)] = <<sized, pos>>
    BY <1>10, HeaderTraceEnds
  <2>2. Succeeds(trace)
    BY <1>11
  <2> HIDE DEF trace, sized
  <2> QED
    BY <2>1, <2>2 DEF Succeeds, MoveSink
<1>13. EntryOn(sized, g, e.data, pos) /\ pos <= Len(sized)
  <2>1. /\ Placed(disk, g, start) /\ HeaderEnd(g) = HeaderEnd(f)
        /\ Carries(g, Between(disk, start, pos), e.data)
    BY <1>3, <1>6 DEF Placed, LocalAt, LengthCell, HeaderEnd, Carries
  <2> QED
    BY <1>2, <1>3, <1>4, <1>6, <1>10, <2>1, HeaderIsPatched
<1> HIDE DEF sized, summed
<1>14. pc' \in {"local_header", "central"} /\ UNCHANGED call
  BY <1>11 DEF Goto, AfterFinishFile
<1>15. LastData(g, e)'
  <2>1. ~AlignedEnd' /\ Settled' /\ pc' # "copy"
    BY <1>14 DEF AlignedEnd, Settled
  <2>2. ExtraAgrees(g, e)'
    BY <1>2, <1>6, <2>1 DEF ExtraAgrees
  <2> QED
    BY <1>12, <1>13, <2>1, <2>2 DEF LastData
<1>16. LastData(LastFile, promised[Len(promised)])'
  BY <1>4, <1>9, <1>11, <1>15, LastDataIs
<1>17. StepKnown' /\ FieldsKnown' /\ CallKnown' /\ pos' <= Len(disk')
  BY <1>2, <1>11, <1>12, <1>13, <1>14, CallKept
  DEF DataStep, LiveData, StepKnown, FieldsKnown
<1>18. /\ files'[Len(files)].header_start = LastFile.header_start
       /\ files'[Len(files)].name = LastFile.name
       /\ promised'[Len(files)].name = promised[Len(files)].name
  BY <1>4, <1>6, <1>9, <1>11
<1>19. \A i \in 1..Len(files) : i < Len(files) =>
          files'[i] = files[i] /\ promised'[i] = promised[i]
  BY <1>9, <1>11
<1>20. Len(promised') = Len(promised)
  BY <1>11
<1> QED
  BY <1>9, <1>16, <1>17, <1>18, <1>19, <1>20, LastOnly

-----------------------------------------------------------------------------
(***************************************************************************)
(* Entries that are added, and the directory behind them.                  *)
(***************************************************************************)
\* After finish_file every entry is where its record says, in front of the
\* position.
LEMMA AllSettledData ==
    ASSUME PromiseInv, LiveData, pc \in {"local_header", "central"}
    PROVE  /\ ~writing_to_extra_field /\ ~writing_raw
           /\ \A i \in 1..Len(files) : Recorded(disk, files[i], promised[i], pos)
<1>1. ~writing_to_extra_field /\ ~writing_raw
  BY DEF PromiseInv, ExtraDone, AfterExtraSteps, LiveData, StepKnown
<1>2. /\ IsSeq(files) /\ Len(files) \in Nat /\ IsSeq(disk) /\ pos \in Nat
      /\ Len(promised) = Len(files) /\ SinkInv
  BY LenIsNat DEF PromiseInv, SinkInv, VectorsOK, IInv, TypeOK, LiveData
<1>3. ASSUME NEW i \in 1..Len(files)
      PROVE  Recorded(disk, files[i], promised[i], pos)
  <2>1. files # << >>
    BY <1>2, EmptyIsSeq
  <2>2. LastFile.header_start \in Nat /\ LastFile.header_start <= pos
    BY <1>2, <2>1, LastFileIsEntry DEF SinkInv, VectorsOK, LastFileLocated, IsEntry
  <2>3. CASE i < Len(files)
    <3>1. Recorded(disk, files[i], promised[i], LastFile.header_start)
      BY <2>3 DEF LiveData, EarlierData
    <3>2. files[i].header_start \in Nat
      BY <1>2 DEF SinkInv, VectorsOK, EntriesOK, IsEntry
    <3> QED
      BY <1>2, <2>2, <3>1, <3>2, EntryEndsLater DEF Recorded
  <2>4. CASE i = Len(files)
    <3>1. PICK f, e : f = LastFile /\ e = promised[Len(promised)]
      OBVIOUS
    <3>2. f = files[i] /\ e = promised[i]
      BY <1>2, <2>4, <3>1 DEF LastFile
    <3>3. LastData(f, e)
      BY <2>1, <3>1 DEF LiveData
    <3>4. Settled /\ pc # "copy" /\ ~AlignedEnd /\ ~LocalExtraOpen
      BY <1>1 DEF Settled, AlignedEnd, LocalExtraOpen
    <3> QED
      BY <3>2, <3>3, <3>4 DEF LastData, ExtraAgrees, Recorded
  <2> QED
    BY <1>2, <2>3, <2>4
<1> QED
  BY <1>1, <1>3

\* The first and the fourth cell of a local header.
LEMMA LocalHeaderFront ==
    ASSUME NEW f
    PROVE  /\ LocalHeader(f)[1][1] = "local"
           /\ LocalHeader(f)[4] = <<"extralen", LocalExtraLen(f)>>
<1> DEFINE sizes == IF f.large_file
                    THEN <<"sizes", ZIP64_BYTES_THR, ZIP64_BYTES_THR>>
                    ELSE LocalSizes(f)
           a == <<"local", f.name, f.method, f.encrypted, FALSE>>
           b == <<"crc", f.crc32>>
           c == <<"extralen", LocalExtraLen(f)>>
           T == {a, b, sizes, c}
           start == <<a, b, sizes, c>>
           rest  == IF f.large_file THEN <<LocalZip64(f)>> ELSE << >>
<1>1. LocalHeader(f) = start \o rest
  BY DEF LocalHeader
<1>2. a[1] = "local" /\ c = <<"extralen", LocalExtraLen(f)>>
  OBVIOUS
<1> HIDE DEF a, b, c, sizes
<1>3. start \in Seq(T) /\ Len(start) = 4 /\ start[1] = a /\ start[4] = c
  OBVIOUS
<1>4. IsSeq(start)
  BY <1>3, SeqIsSeq
<1>5. IsSeq(rest) /\ Len(rest) \in Nat
  BY SingleIsSeq, EmptyIsSeq, LenIsNat
<1> HIDE DEF start, rest
<1>6. /\ 1 \in 1..Len(start) + Len(rest) /\ 1 <= Len(start)
      /\ 4 \in 1..Len(start) + Len(rest) /\ 4 <= Len(start)
  BY <1>3, <1>5
<1>7. (start \o rest)[1] = a /\ (start \o rest)[4] = c
  <2>1. \A j \in 1..Len(start) + Len(rest) :
          (start \o rest)[j]
            = IF j <= Len(start) THEN start[j] ELSE rest[j - Len(start)]
    BY <1>4, <1>5, ConcatCells
  <2> QED
    BY <1>3, <1>6, <2>1
<1> QED
  BY <1>1, <1>2, <1>7

\* A local header that has just been written names its end.
LEMMA NewHeaderIsPlaced ==
    ASSUME NEW d, IsSeq(d), NEW f, f.header_start \in Nat, f.extra_field = << >>,
           f.large_file => ZIP64_ENTRY_THR >= 1
    PROVE  LET h == LocalHeader(f)
               e == WriteAt(d, f.header_start, h)
           IN  Placed(e, f, f.header_start + Len(h))
<1> DEFINE h == LocalHeader(f)
           e == WriteAt(d, f.header_start, h)
           z == ZeroOrOne(f.large_file)
<1>1. /\ IsSeq(h) /\ Len(h) = (IF f.large_file THEN 5 ELSE 4)
      /\ h[1][1] = "local" /\ h[4] = <<"extralen", LocalExtraLen(f)>>
  BY LocalHeaderIsSeq, LocalHeaderCells, LocalHeaderFront
<1>2. z \in Nat /\ Len(h) = 4 + z /\ z <= ZIP64_ENTRY_THR
  BY <1>1, EntryThrAssumption DEF ZeroOrOne
<1>3. LocalExtraLen(f) = z
  <2>1. Len(f.extra_field) = 0 /\ z + 0 = z
    BY <1>2, EmptyIsSeq
  <2>2. z % (ZIP64_ENTRY_THR + 1) = z
    BY <1>2, EntryThrAssumption, SmallRemainder
  <2> HIDE DEF z
  <2>3. LocalExtraLen(f) = (z + 0) % (ZIP64_ENTRY_THR + 1)
    BY <2>1 DEF LocalExtraLen, z
  <2> QED
    BY <2>1, <2>2, <2>3
<1> HIDE DEF h, z
<1>4. \A q \in Nat : f.header_start <= q /\ q < f.header_start + Len(h)
        => At(e, q) = h[q - f.header_start + 1]
  BY <1>1, WriteAtCells
<1> HIDE DEF e
<1>5. At(e, f.header_start) = h[1]
  BY <1>2, <1>4
<1>6. At(e, f.header_start + 3) = h[4]
  BY <1>2, <1>4
<1>7. LengthCell(e, f) = <<"extralen", z>>
  BY <1>1, <1>3, <1>6 DEF LengthCell, EXTRA_LEN_OFFSET
<1>8. LocalAt(e, f) /\ LengthCell(e, f)[2] = z
  BY <1>1, <1>5, <1>7 DEF LocalAt
<1>9. Placed(e, f, f.header_start + Len(h))
  BY <1>2, <1>8 DEF Placed, HEADER_LEN
<1> QED
  BY <1>9 DEF e, h

\* The padding is one whole record.
LEMMA PaddingIsWhole ==
    ASSUME NEW start \in Nat, NEW align \in Nat
    PROVE  WholeRecords(Padding(start, align)) /\ WholeRecords(<< >>)
<1>1. WholeRecords(<< >>)
  BY EmptyIsSeq DEF WholeRecords
<1>2. CASE align > 1 /\ start % align # 0
  <2> DEFINE n == ((align - ((start + 1) % align)) % align) + 1
             v == [i \in 1..n |-> <<"extra", "pad">>]
  <2>1. Padding(start, align) = v
    BY <1>2 DEF Padding
  <2>2. n \in Nat
    <3> DEFINE m == align - ((start + 1) % align)
    <3>1. m \in Int
      BY <1>2
    <3> HIDE DEF m
    <3>2. m % align \in Nat
      BY <1>2, <3>1
    <3> QED
      BY <3>2 DEF m
  <2>3. v = [i \in 1..n |-> v[i]] /\ \A i \in 1..n : v[i][2] = "pad"
    OBVIOUS
  <2> HIDE DEF n, v
  <2>4. Len(v) = n
    BY <2>2, <2>3, FunctionIsSeq
  <2>5. WholeRecords(v)
    BY <2>3, <2>4 DEF WholeRecords
  <2> QED
    BY <1>1, <2>1, <2>5
<1>3. CASE ~(align > 1 /\ start % align # 0)
  BY <1>1, <1>3 DEF Padding
<1> QED
  BY <1>2, <1>3

\* The record of a new entry.
NewRecord(f, d, end) ==
    /\ EntryFields(f) /\ f.header_start = pos /\ f.data_start = end
    /\ f.name = call.name /\ f.method = call.options.method
    /\ f.encrypted = call.options.encrypted
    /\ Placed(d, f, end) /\ HeaderEnd(f) = end
    /\ call.op = "raw_copy_file" =>
         f.crc32 = Raw.crc32 /\ f.compressed_size = Raw.compressed_size
    /\ call.op # "start_file_aligned" => f.extra_field = << >>
    /\ WholeRecords(f.extra_field)

\* What start_entry leaves to its callers.
Entered(f, end) ==
    /\ pc = "local_header" /\ end \in Nat
    /\ files' = Append(files, f) /\ stats' = NewStats(end)
    /\ promised' = Append(promised, Promise)
    /\ Started([Plain EXCEPT !.encrypted = call.options.encrypted])
    /\ ~writing_to_central_extra_field_only'
    /\ disk' = WriteAt(disk, pos, LocalHeader(NewFile)) /\ pos' = end
    /\ end = pos + Len(LocalHeader(NewFile))
    /\ NewRecord(f, disk', end)

LEMMA EntryIsEntered ==
    ASSUME DataStep, StartEntry
    PROVE  \E f, end : Entered(f, end)
<1> DEFINE new   == NewFile
           cells == LocalHeader(new)
           trace == Still(WriteTrace(disk, pos, cells))
           end   == pos + Len(cells)
           pad   == IF call.op = "start_file_aligned" THEN Padding(end, call.align)
                                                      ELSE << >>
           f     == [new EXCEPT !.data_start = end, !.extra_field = pad]
           w     == [Plain EXCEPT !.encrypted = call.options.encrypted]
<1>1. /\ Succeeds(trace) /\ files' = Append(files, f) /\ Started(w)
      /\ stats' = NewStats(end) /\ pc = "local_header"
      /\ promised' = Append(promised, Promise)
      /\ UNCHANGED writing_to_central_extra_field_only
  BY NoFaultData DEF StartEntry
<1>2. /\ SinkInv /\ IsSeq(disk) /\ pos \in Nat /\ IsSeq(files) /\ Len(files) \in Nat
      /\ ~writing_to_central_extra_field_only
  BY <1>1, DataFacts DEF DataStep, PromiseInv, ExtraDone, AfterExtraSteps,
     SinkInv, IInv, LastFileExists
<1>3. IsSeq(cells) /\ Len(cells) = (IF new.large_file THEN 5 ELSE 4)
  BY LocalHeaderIsSeq, LocalHeaderCells
<1>4. /\ new.header_start = pos /\ new.extra_field = << >>
      /\ {"header_start", "data_start", "extra_field", "large_file", "crc32",
          "compressed_size", "uncompressed_size", "name", "method", "level",
          "encrypted"} \subseteq DOMAIN new
      /\ new.name = call.name /\ new.method = call.options.method
      /\ new.encrypted = call.options.encrypted
      /\ call.op = "raw_copy_file" =>
           new.crc32 = Raw.crc32 /\ new.compressed_size = Raw.compressed_size
  BY DEF NewFile
<1>5. trace[Len(trace)] = <<WriteAt(disk, pos, cells), end>>
  BY <1>2, <1>3, WriteHereEnds
<1> HIDE DEF trace
<1>6. disk' = WriteAt(disk, pos, cells) /\ pos' = end
  BY <1>1, <1>5 DEF Succeeds, MoveSink
<1>7. end \in Nat
  BY <1>2, <1>3
<1>8. WholeRecords(pad) /\ (call.op # "start_file_aligned" => pad = << >>)
  <2>1. call.align \in Nat
    BY <1>2 DEF SinkInv, VectorsOK, CallOK
  <2> HIDE DEF end
  <2> QED
    BY <1>7, <2>1, PaddingIsWhole
<1> HIDE DEF pad, new
<1>9. /\ EntryFields(f) /\ f.header_start = pos /\ f.data_start = end
      /\ f.name = call.name /\ f.method = call.options.method
      /\ f.encrypted = call.options.encrypted
      /\ f.large_file = new.large_file
      /\ call.op = "raw_copy_file" =>
           f.crc32 = Raw.crc32 /\ f.compressed_size = Raw.compressed_size
      /\ f.extra_field = pad
  BY <1>4 DEF EntryFields
<1> HIDE DEF f
<1>10. new.large_file => ZIP64_ENTRY_THR >= 1
  <2> SUFFICES ASSUME new.large_file PROVE ZIP64_ENTRY_THR >= 1
    OBVIOUS
  <2>1. /\ Len(files') = Len(files) + 1 /\ files'[Len(files) + 1] = f
    BY <1>1, <1>2, AppendCells
  <2>2. NeedsZip64(f)
    BY <1>9 DEF NeedsZip64
  <2>3. Len(f.extra_field) < ZIP64_ENTRY_THR
    <3>1. Len(files) + 1 \in 1..Len(files')
      BY <1>2, <2>1
    <3> QED
      BY <2>1, <2>2, <3>1 DEF DataStep, RoomForZip64
  <2>4. IsSeq(f.extra_field)
    <3>1. Len(files) + 1 \in 1..Len(files')
      BY <1>2, <2>1
    <3>2. EntriesOK'
      BY DEF DataStep, PromiseInv, SinkInv, VectorsOK
    <3> QED
      BY <2>1, <3>1, <3>2 DEF EntriesOK, IsEntry
  <2> QED
    BY <2>3, <2>4, LenIsNat, EntryThrAssumption
<1>11. Placed(disk', new, end)
  BY <1>2, <1>4, <1>6, <1>10, NewHeaderIsPlaced
<1>12. Placed(disk', f, end)
  BY <1>4, <1>9, <1>11 DEF Placed, LocalAt, LengthCell
<1>13. HeaderEnd(f) = end
  BY <1>2, <1>3, <1>9 DEF HeaderEnd, HEADER_LEN, ZeroOrOne
<1>14. NewRecord(f, disk', end)
  BY <1>8, <1>9, <1>12, <1>13 DEF NewRecord
<1>15. Entered(f, end)
  BY <1>1, <1>2, <1>6, <1>7, <1>14 DEF Entered, cells, new, w
<1> QED
  BY <1>15

\* The new entry is the last; the others stay.
LEMMA EnteredLasts ==
    ASSUME DataStep, NEW f, NEW end, Entered(f, end)
    PROVE  LET e == Promise
           IN  /\ files'[Len(files')] = f /\ promised'[Len(promised')] = e
               /\ Len(promised') = Len(files') /\ EarlierData'
               /\ \A i \in 1..Len(files') : promised'[i].name = files'[i].name
               /\ pos' <= Len(disk') /\ IsSeq(disk') /\ end = pos'
               /\ ~writing_to_extra_field /\ ~writing_raw
<1> PICK e : e = Promise
  OBVIOUS
<1>1. /\ pc = "local_header" /\ end \in Nat /\ f.header_start = pos
      /\ files' = Append(files, f) /\ promised' = Append(promised, e)
      /\ disk' = WriteAt(disk, pos, LocalHeader(NewFile)) /\ pos' = end
      /\ end = pos + Len(LocalHeader(NewFile)) /\ f.name = call.name
  BY DEF Entered, NewRecord
<1>2. e.name = call.name
  BY DEF Promise
<1>3. /\ IsSeq(disk) /\ IsSeq(disk') /\ pos \in Nat /\ pos <= Len(disk)
      /\ IsSeq(files) /\ Len(files) \in Nat /\ IsSeq(promised)
      /\ Len(promised) = Len(files) /\ LiveData /\ PromiseInv
  BY DataFacts DEF DataStep
<1>4. Onward(disk, pos, disk', pos')
  BY <1>1, <1>3, LocalHeaderIsSeq, WriteIsOnward
<1>5. /\ ~writing_to_extra_field /\ ~writing_raw
      /\ \A i \in 1..Len(files) : Recorded(disk, files[i], promised[i], pos)
  BY <1>1, <1>3, AllSettledData
<1>6. /\ Len(files') = Len(files) + 1 /\ files'[Len(files) + 1] = f
      /\ \A i \in 1..Len(files) : files'[i] = files[i]
  BY <1>1, <1>3, AppendCells
<1>7. /\ Len(promised') = Len(files) + 1 /\ promised'[Len(files) + 1] = e
      /\ \A i \in 1..Len(files) : promised'[i] = promised[i]
  BY <1>1, <1>3, AppendCells
<1>8. ASSUME NEW i \in 1..Len(files')
      PROVE  promised'[i].name = files'[i].name
  <2>1. i \in 1..Len(files) \/ i = Len(files) + 1
    BY <1>3, <1>6
  <2> QED
    BY <1>1, <1>2, <1>3, <1>6, <1>7, <2>1 DEF LiveData
<1>9. EarlierData'
  <2> SUFFICES ASSUME NEW i \in 1..Len(files'), i < Len(files')
               PROVE  Recorded(disk', files'[i], promised'[i],
                               files'[Len(files')].header_start)
    BY DEF EarlierData, LastFile
  <2>1. i \in 1..Len(files)
    BY <1>3, <1>6
  <2>2. files[i].header_start \in Nat
    BY <2>1, DataFacts DEF SinkInv, VectorsOK, EntriesOK, IsEntry
  <2>3. Recorded(disk, files[i], promised[i], pos)
    BY <1>5, <2>1
  <2>4. pos <= Len(disk') /\ \A q \in Nat : q < pos => At(disk', q) = At(disk, q)
    <3>1. Len(disk') \in Nat
      BY DataFacts
    <3> QED
      BY <1>1, <1>3, <1>4, <3>1 DEF Onward
  <2>5. EntryOn(disk', files[i], promised[i].data, pos)
    BY <1>3, <2>2, <2>3, <2>4, EntryKept DEF Recorded
  <2> QED
    BY <1>1, <1>6, <1>7, <2>1, <2>3, <2>5 DEF Recorded
<1> QED
  BY <1>1, <1>3, <1>4, <1>5, <1>6, <1>7, <1>8, <1>9 DEF Onward

\* The new entry takes data, or waits for its extra field.
LEMMA EnteredOpens ==
    ASSUME DataStep, NEW f, NEW end, Entered(f, end),
           NEW e, e = Promise, call.op # "raw_copy_file"
    PROVE  LastData(f, e)' /\ StepKnown' /\ UNCHANGED call
<1> DEFINE w == [Plain EXCEPT !.encrypted = call.options.encrypted]
           o == call.options
<1>1. /\ Started(w) /\ stats' = NewStats(end) /\ pos' = end /\ end \in Nat
      /\ pc = "local_header" /\ NewRecord(f, disk', end)
      /\ ~writing_to_central_extra_field_only'
  BY DEF Entered
<1>2. /\ ~writing_to_extra_field /\ ~writing_raw
      /\ pos' <= Len(disk') /\ IsSeq(disk')
  BY EnteredLasts
<1>3. /\ e.data = << >> /\ e.extra = << >>
  BY DEF Promise
<1>4. /\ w.method = "stored" /\ w.encrypted = o.encrypted /\ w.buffer = << >>
      /\ w.pending = << >> /\ w = [Plain EXCEPT !.encrypted = o.encrypted]
  BY DEF Plain, Closed
<1> HIDE DEF w, o
<1>5. /\ EntryFields(f) /\ f.method = o.method /\ f.encrypted = o.encrypted
      /\ Placed(disk', f, end) /\ HeaderEnd(f) = end /\ f.data_start = end
      /\ call.op # "start_file_aligned" => f.extra_field = << >>
      /\ WholeRecords(f.extra_field)
  BY <1>1 DEF NewRecord, o
<1>6. stats'.start = end /\ stats'.hasher = << >>
  BY <1>1 DEF NewStats
<1>7. ~IsClosed(inner') /\ CallKnown
  BY DEF DataStep, LiveData
<1>8. /\ UNCHANGED call
      /\ pc' \in {"idle", "end_extra", "target"} /\ ~writing_raw'
      /\ pc' = "target" => ~writing_to_extra_field'
      /\ pc' = "end_extra" <=> call.op = "start_file_aligned"
      /\ writing_to_extra_field' => inner' = w
      /\ ~writing_to_extra_field' => /\ inner'.method = o.method
                                     /\ inner'.encrypted = o.encrypted
                                     /\ inner'.buffer = << >> /\ inner'.pending = << >>
  <2>1. CASE FileStarted(w)
    <3> DEFINE s == SwitchTo(w, o.method, o.level)
    <3>1. /\ IsClosed(s) \/ Return("ok")
          /\ UNCHANGED <<writing_to_extra_field, writing_raw>>
      BY <2>1 DEF FileStarted, o
    <3>2. inner' = s /\ ~IsClosed(s) /\ call.op = "start_file"
      BY <1>7, <2>1 DEF FileStarted, o
    <3>3. (s = w /\ w.method = o.method) \/ s = [w EXCEPT !.method = o.method]
      BY <3>2 DEF SwitchTo, IsClosed, Closed
    <3>4. /\ s.method = o.method /\ s.encrypted = o.encrypted
          /\ s.buffer = << >> /\ s.pending = << >>
      BY <1>4, <3>3 DEF Plain, Closed
    <3> HIDE DEF s
    <3> QED
      BY <1>2, <3>1, <3>2, <3>4 DEF Return
  <2>2. CASE ExtraDataStarted(w)
    BY <1>2, <2>2 DEF ExtraDataStarted, Return, Goto
  <2>3. CASE DirectoryAdded(w)
    BY <1>2, <1>4, <1>7, <2>3 DEF DirectoryAdded, Return, CallKnown, o
  <2>4. CASE SymlinkStarted(w)
    BY <1>2, <1>4, <1>7, <2>4 DEF SymlinkStarted, Goto, CallKnown, o
  <2> QED
    BY <1>1, <2>1, <2>2, <2>3, <2>4 DEF Started, RawCopyStarted
<1>9. StepKnown'
  BY <1>8 DEF StepKnown
<1>10. ~Settled' /\ pc' # "copy"
  BY <1>8 DEF Settled
<1>11. ExtraAgrees(f, e)'
  <2>1. CASE AlignedEnd'
    BY <1>3, <1>5, <2>1 DEF ExtraAgrees
  <2>2. CASE ~AlignedEnd'
    <3>1. f.extra_field = << >>
      BY <1>5, <1>8, <2>2 DEF AlignedEnd
    <3> QED
      BY <1>3, <2>2, <3>1, NoExtraIsCustom DEF ExtraAgrees
  <2> QED
    BY <2>1, <2>2
<1>12. LocalExtraOpen' = writing_to_extra_field'
  BY <1>1, DataFacts DEF LocalExtraOpen, DataStep, PromiseInv, SinkInv, IInv, TypeOK
<1>13. LocalExtraOpen' => NothingYet(pos', stats'.start, inner', f, e.data)
  BY <1>1, <1>3, <1>4, <1>5, <1>6, <1>8, <1>12 DEF NothingYet
<1>14. ~LocalExtraOpen' => OpenAt(pc', disk', pos', stats'.start, inner', f, e.data)
  <2> SUFFICES ASSUME ~writing_to_extra_field'
               PROVE  OpenAt(pc', disk', end, end, inner', f, << >>)
    BY <1>1, <1>3, <1>6, <1>12
  <2>1. Flowing(disk', end, end, inner', f, << >>)
    BY <1>1, <1>2, <1>5, <1>8, FlowingStarts
  <2> QED
    BY <1>8, <2>1 DEF OpenAt
<1>15. OpenData(f, e)'
  BY <1>1, <1>3, <1>5, <1>6, <1>13, <1>14 DEF OpenData
<1> QED
  BY <1>8, <1>9, <1>10, <1>11, <1>15 DEF LastData

\* The copy of raw data is about to begin.
LEMMA EnteredCopies ==
    ASSUME DataStep, NEW f, NEW end, Entered(f, end),
           NEW e, e = Promise, call.op = "raw_copy_file"
    PROVE  LastData(f, e)' /\ StepKnown' /\ UNCHANGED call
<1> DEFINE w == [Plain EXCEPT !.encrypted = call.options.encrypted]
<1>1. /\ Started(w) /\ stats' = NewStats(end) /\ pos' = end /\ end \in Nat
      /\ pc = "local_header" /\ NewRecord(f, disk', end)
  BY DEF Entered
<1>2. ~writing_to_extra_field /\ ~writing_raw
  BY EnteredLasts
<1>3. /\ e.data = Raw.plain /\ e.extra = << >>
  BY DEF Promise
<1> HIDE DEF w
<1>4. /\ f.method = call.options.method /\ f.encrypted = call.options.encrypted
      /\ Placed(disk', f, end) /\ f.extra_field = << >>
      /\ f.crc32 = Raw.crc32 /\ f.compressed_size = Raw.compressed_size
  BY <1>1 DEF NewRecord
<1>5. /\ call.source \in Sources /\ call.options = RawOptions(call.source)
  BY DEF DataStep, LiveData, CallKnown
<1>6. /\ call.options.method = Raw.method /\ ~call.options.encrypted
      /\ Raw.crc32 = Raw.plain
  <2>1. \A s : RawOptions(s).method = s.method /\ ~RawOptions(s).encrypted
    BY DEF RawOptions
  <2>2. Raw.crc32 = Raw.plain
    BY <1>5, SourcesAssumption DEF Raw
  <2> QED
    BY <1>5, <2>1, <2>2 DEF Raw
<1>7. /\ UNCHANGED call /\ pc' = "copy" /\ writing_raw' /\ ~writing_to_extra_field'
  BY <1>1, <1>2 DEF Started, FileStarted, ExtraDataStarted, DirectoryAdded,
     SymlinkStarted, RawCopyStarted, Goto
<1>8. StepKnown'
  BY <1>7 DEF StepKnown
<1>9. Copying(disk', pos', call'.source, f, e.data)
  BY <1>1, <1>3, <1>4, <1>5, <1>6, <1>7 DEF Copying, Raw
<1>10. ExtraAgrees(f, e)'
  BY <1>3, <1>4, <1>7, NoExtraIsCustom DEF ExtraAgrees, AlignedEnd
<1>11. Settled'
  BY <1>7 DEF Settled
<1> QED
  BY <1>7, <1>8, <1>9, <1>10, <1>11 DEF LastData

LEMMA StartEntryData ==
    ASSUME DataStep, StartEntry
    PROVE  LiveData'
<1>1. PICK f, end : Entered(f, end)
  BY EntryIsEntered
<1>2. PICK e : e = Promise
  OBVIOUS
<1>3. /\ files'[Len(files')] = f /\ promised'[Len(promised')] = e
      /\ Len(promised') = Len(files') /\ EarlierData'
      /\ \A i \in 1..Len(files') : promised'[i].name = files'[i].name
      /\ pos' <= Len(disk')
  BY <1>1, <1>2, EnteredLasts
<1>4. LastData(f, e)' /\ StepKnown' /\ UNCHANGED call
  BY <1>1, <1>2, EnteredOpens, EnteredCopies
<1>5. LastData(LastFile, promised[Len(promised)])'
  BY <1>3, <1>4, LastDataIs
<1>6. FieldsKnown'
  <2>1. stats' = NewStats(end)
    BY <1>1 DEF Entered
  <2>2. "pending" \in DOMAIN inner'
    <3>1. \A m, b : /\ "pending" \in DOMAIN [Plain EXCEPT !.encrypted = b]
                    /\ "pending" \in DOMAIN [[Plain EXCEPT !.encrypted = b]
                                                EXCEPT !.method = m]
                    /\ "pending" \in DOMAIN Closed
      BY DEF Plain, Closed
    <3>2. \A w, m, l : SwitchTo(w, m, l) \in {w, [w EXCEPT !.method = m], Closed}
      BY DEF SwitchTo
    <3>3. PICK w : w = [Plain EXCEPT !.encrypted = call.options.encrypted]
      OBVIOUS
    <3>4. Started(w)
      BY <1>1, <3>3 DEF Entered
    <3>5. inner' = w \/ inner' = SwitchTo(w, call.options.method, call.options.level)
      BY <3>4 DEF Started, FileStarted, ExtraDataStarted, DirectoryAdded,
         SymlinkStarted, RawCopyStarted
    <3> QED
      BY <3>1, <3>2, <3>3, <3>5
  <2> QED
    BY <2>1, <2>2 DEF FieldsKnown, NewStats
<1>7. CallKnown'
  BY <1>4, CallKept
<1> QED
  BY <1>3, <1>4, <1>5, <1>6, <1>7 DEF LiveData

\* Data that has been copied behind its header.
LEMMA CopiedIsOn ==
    ASSUME NEW d, IsSeq(d), NEW p \in Nat, p <= Len(d), NEW s, NEW f,
           f.header_start \in Nat, NEW data, Copying(d, p, s, f, data),
           IsSeq(s.cells)
    PROVE  EntryOn(WriteAt(d, p, s.cells), f, data, p + Len(s.cells))
<1> DEFINE cells == s.cells
           n == Len(cells)
           e == WriteAt(d, p, cells)
           q == p + n
<1>1. /\ s \in Sources /\ Placed(d, f, p) /\ f.crc32 = data /\ data = s.plain
      /\ f.method = s.method /\ f.compressed_size = s.compressed_size
      /\ ~f.encrypted
  BY DEF Copying
<1>2. /\ s.compressed_size = n
      /\ Decompress(s, cells) = [ok |-> TRUE, data |-> s.plain]
  BY <1>1, SourcesAssumption
<1>3. n \in Nat /\ IsSeq(cells)
  BY LenIsNat
<1> HIDE DEF cells, n, e
<1>4. Onward(d, p, e, q) /\ IsSeq(e)
  BY <1>3, WriteIsOnward, WriteAtKeeps DEF e, n
<1>5. Placed(e, f, p)
  BY <1>1, <1>4, PlacedKept DEF Onward
<1>6. Region(e, p, n) = cells
  <2>1. Between(e, p, q) = Between(d, p, p) \o cells
    BY <1>3, RegionBehind DEF e, n
  <2>2. Between(d, p, p) = << >> /\ << >> \o cells = cells
    BY <1>3, NoRegion, NothingConcat
  <2>3. q - p = n
    BY <1>3
  <2> QED
    BY <2>1, <2>2, <2>3 DEF Between
<1>7. Coded(f.method, cells, data)
  <2>1. \A g : g.method = s.method => Decompress(g, cells) = Decompress(s, cells)
    BY SameMethodDecodes
  <2>2. [method |-> f.method].method = s.method
    BY <1>1
  <2> QED
    BY <1>1, <1>2, <2>1, <2>2 DEF Coded
<1>8. /\ LengthCell(e, f)[2] \in Nat /\ LocalAt(e, f)
      /\ f.header_start + HEADER_LEN + LengthCell(e, f)[2] = p
  BY <1>5 DEF Placed
<1>9. FindContent(e, f).data = cells
  <2>1. FindContent(e, f) = [ok |-> TRUE, data |-> Region(e,
          f.header_start + HEADER_LEN + LengthCell(e, f)[2], f.compressed_size)]
    BY <1>8 DEF FindContent, LocalAt, LengthCell
  <2> QED
    BY <1>1, <1>2, <1>6, <1>8, <2>1
<1>10. Carries(f, FindContent(e, f).data, data)
  BY <1>1, <1>7, <1>9, PlainCarries
<1>11. EntryEndsBy(e, f, q)
  <2>1. f.compressed_size = n
    BY <1>1, <1>2
  <2>2. p + n <= q
    BY <1>3
  <2> HIDE DEF q
  <2> QED
    BY <1>3, <1>8, <2>1, <2>2 DEF EntryEndsBy, LengthCell
<1>12. EntryOn(e, f, data, q)
  BY <1>1, <1>8, <1>10, <1>11 DEF EntryOn
<1> QED
  BY <1>12 DEF e, n, cells

LEMMA CopyRawData ==
    ASSUME DataStep, CopyRaw
    PROVE  LiveData'
<1> DEFINE cells == Raw.cells
           trace == Still(WriteTrace(disk, pos, cells))
<1>1. /\ Succeeds(trace) /\ stats' = Update(cells) /\ Return("ok")
      /\ UNCHANGED <<inner, files, flagVars, promised>> /\ pc = "copy"
  BY NoFaultData DEF CopyRaw
<1>2. /\ SinkInv /\ IsSeq(cells) /\ IsSeq(disk) /\ pos \in Nat /\ pos <= Len(disk)
      /\ LiveData /\ Len(cells) \in Nat
  BY DataFacts, LenIsNat DEF SinkInv, VectorsOK, CallOK, Raw
<1>3. trace[Len(trace)] = <<WriteAt(disk, pos, cells), pos + Len(cells)>>
  BY <1>2, WriteHereEnds
<1> HIDE DEF trace
<1>4. disk' = WriteAt(disk, pos, cells) /\ pos' = pos + Len(cells)
  BY <1>1, <1>3 DEF Succeeds, MoveSink
<1>5. /\ writing_raw /\ ~writing_to_extra_field /\ pc' = "idle" /\ UNCHANGED call
      /\ UNCHANGED <<writing_raw, writing_to_extra_field,
                     writing_to_central_extra_field_only>>
  BY <1>1, <1>2 DEF LiveData, StepKnown, Return, flagVars
<1>6. ASSUME files # << >>
      PROVE  LastData(LastFile, promised[Len(promised)])'
  <2>1. PICK f, e : f = LastFile /\ e = promised[Len(promised)]
    OBVIOUS
  <2>2. LastData(f, e) /\ f.header_start \in Nat
    BY <1>6, <2>1, DataLast
  <2>3. Copying(disk, pos, Raw, f, e.data)
    BY <1>1, <2>2 DEF LastData, Raw
  <2>4. EntryOn(disk', f, e.data, pos')
    BY <1>2, <1>4, <2>2, <2>3, CopiedIsOn
  <2>5. e.extra = CustomExtra(f.extra_field)
    BY <1>1, <1>5, <2>2 DEF LastData, ExtraAgrees, AlignedEnd, LocalExtraOpen
  <2>6. Settled' /\ pc' # "copy" /\ ~AlignedEnd'
    BY <1>5 DEF Settled, AlignedEnd
  <2>7. LastData(f, e)'
    BY <2>4, <2>5, <2>6 DEF LastData, ExtraAgrees
  <2>8. files'[Len(files')] = f /\ promised'[Len(promised')] = e
    BY <1>1, <2>1 DEF LastFile
  <2> QED
    BY <2>7, <2>8, LastDataIs
<1>7. pos' <= Len(disk')
  BY <1>2, <1>4, WriteIsOnward DEF Onward
<1>8. StepKnown' /\ CallKnown'
  BY <1>5, CallKept DEF StepKnown
<1>9. FieldsKnown'
  <2>1. DOMAIN stats' = DOMAIN stats
    BY <1>1 DEF Update
  <2> QED
    BY <1>1, <1>2, <2>1 DEF LiveData, FieldsKnown
<1> QED
  BY <1>1, <1>6, <1>7, <1>8, <1>9, NoRecordChanges

\* With room for its ZIP64 record, the extra field of a central header is not
\* too long.
LEMMA CentralExtraIsShort ==
    ASSUME EntriesOK, ExtraLengths, RoomForZip64, ~writing_to_extra_field,
           NEW i \in 1..Len(files)
    PROVE  ~(Len(CentralExtra(files[i])) > ZIP64_ENTRY_THR)
<1> DEFINE f == files[i]
<1>1. IsSeq(f.extra_field)
  BY DEF EntriesOK, IsEntry
<1>2. /\ NeedsZip64(f) => Len(f.extra_field) < ZIP64_ENTRY_THR
      /\ Len(f.extra_field) <= ZIP64_ENTRY_THR
  BY DEF RoomForZip64, ExtraLengths
<1>3. ~NeedsZip64(f) => ~HasZip64Record(f)
  BY DEF NeedsZip64, HasZip64Record, Zip64Payload, IfAbove
<1> HIDE DEF f
<1>4. PICK z \in {0, 1} : /\ Len(CentralExtra(f)) = z + Len(f.extra_field)
                          /\ z = 1 => NeedsZip64(f)
  <2> DEFINE n == IF HasZip64Record(f) THEN 1 ELSE 0
  <2>1. Len(CentralExtra(f)) = n + Len(f.extra_field)
    BY <1>1, CentralExtraCells
  <2>2. n \in {0, 1} /\ (n = 1 => NeedsZip64(f))
    BY <1>3
  <2> QED
    BY <2>1, <2>2
<1>5. Len(f.extra_field) \in Nat
  BY <1>1, LenIsNat
<1>6. ~(Len(CentralExtra(f)) > ZIP64_ENTRY_THR)
  BY <1>2, <1>4, <1>5, EntryThrAssumption
<1> QED
  BY <1>6 DEF f

LEMMA WriteCentralHeaderData ==
    ASSUME DataStep, ExtraLengths, WriteCentralHeader
    PROVE  LiveData'
<1> DEFINE h == CentralHeader(files[call.headers + 1])
           trace == WriteTrace(disk, pos, h)
           k == call.headers + 1
<1>1. /\ pc = "central" /\ call.headers < Len(files)
      /\ UNCHANGED <<inner, files, stats, flagVars, promised>>
  BY DEF WriteCentralHeader, dataVars
<1>2. /\ SinkInv /\ EntriesOK /\ IsSeq(files) /\ Len(files) \in Nat
      /\ call.headers \in Nat /\ IsSeq(disk) /\ pos \in Nat /\ pos <= Len(disk)
      /\ LiveData /\ PromiseInv
  BY DataFacts DEF SinkInv, VectorsOK, CallOK, DataStep
<1>3. ~writing_to_extra_field /\ k \in 1..Len(files)
  BY <1>1, <1>2, AllSettledData
<1>4. ~(Len(CentralExtra(files[k])) > ZIP64_ENTRY_THR)
  BY <1>2, <1>3, CentralExtraIsShort DEF DataStep
<1>5. IsSeq(h)
  BY <1>2, <1>3, CentralHeaderIsSeq DEF EntriesOK, IsEntry
<1>6. /\ Succeeds(trace) /\ UNCHANGED <<pc, result, status>>
      /\ call' = [call EXCEPT !.headers = @ + 1, !.central_start = CentralStart]
  BY <1>4, NoFaultData DEF WriteCentralHeader
<1> HIDE DEF h
<1>7. disk' = WriteAt(disk, pos, h) /\ pos' = pos + Len(h)
  <2>1. /\ Len(h) \in Nat /\ Len(trace) = Len(h) + 1
        /\ trace[Len(h) + 1] = <<WriteAt(disk, pos, h), pos + Len(h)>>
    <3>1. pos \in Nat
      BY <1>2
    <3> HIDE DEF k
    <3> QED
      BY ONLY <1>5, <3>1, WriteTraceEnds
  <2> HIDE DEF trace
  <2>2. trace[Len(trace)] = <<WriteAt(disk, pos, h), pos + Len(h)>>
    BY <2>1
  <2> QED
    BY <1>6, <2>2 DEF Succeeds, MoveSink
<1>8. Onward(disk, pos, disk', pos')
  BY <1>2, <1>5, <1>7, WriteIsOnward
<1>9. ASSUME files # << >>
      PROVE  LastData(LastFile, promised[Len(promised)])'
  <2>1. PICK f, e : f = LastFile /\ e = promised[Len(promised)]
    OBVIOUS
  <2>2. Recorded(disk, f, e, pos) /\ f.header_start \in Nat
    <3>1. Len(files) \in 1..Len(files) /\ f.header_start \in Nat
      BY <1>9, <2>1, DataLast
    <3>2. f = files[Len(files)] /\ e = promised[Len(files)]
      BY <1>2, <2>1 DEF LastFile, LiveData
    <3> QED
      BY <1>1, <1>2, <3>1, <3>2, AllSettledData
  <2>3. EntryOn(disk', f, e.data, pos')
    <3>1. IsSeq(disk') /\ pos' \in Nat
      BY DataFacts
    <3> QED
      BY <1>2, <1>8, <2>2, <3>1, EntryStays DEF Recorded
  <2>4. Settled' /\ pc' # "copy" /\ ~AlignedEnd'
    BY <1>1, <1>6 DEF Settled, AlignedEnd
  <2>5. LastData(f, e)'
    BY <2>2, <2>3, <2>4 DEF LastData, ExtraAgrees, Recorded
  <2>6. files'[Len(files')] = f /\ promised'[Len(promised')] = e
    BY <1>1, <2>1 DEF LastFile
  <2> QED
    BY <2>5, <2>6, LastDataIs
<1>10. pos' <= Len(disk')
  BY <1>8 DEF Onward
<1>11. StepKnown' /\ FieldsKnown'
  BY <1>1, <1>2, <1>6, <1>3 DEF LiveData, StepKnown, FieldsKnown, flagVars
<1>12. CallKnown'
  <2>1. call'.op = call.op /\ call'.source = call.source /\ call'.options = call.options
    BY <1>6
  <2> QED
    BY <1>2, <2>1 DEF LiveData, CallKnown
<1> QED
  BY <1>1, <1>9, <1>10, <1>11, <1>12, NoRecordChanges

\* The entries of a finished archive.
LEMMA WriteEndRecordsData ==
    ASSUME PromiseInv, PromiseInv', LiveData, WriteEndRecords, Committed'
    PROVE  CommittedData'
<1> DEFINE er == EndRecords(Len(files), CentralStart, pos - CentralStart, comment)
           trace == Still(WriteTrace(disk, pos, er))
<1>1. /\ SinkInv /\ EntriesOK /\ IsSeq(files) /\ Len(files) \in Nat
      /\ IsSeq(disk) /\ pos \in Nat /\ pos <= Len(disk) /\ IsSeq(comment)
      /\ IsSeq(disk') /\ Len(disk') \in Nat
      /\ Len(promised) = Len(files)
      /\ \A i \in 1..Len(files) : promised[i].name = files[i].name
  BY LenIsNat DEF PromiseInv, SinkInv, VectorsOK, IInv, TypeOK, LiveData
<1>2. /\ pc = "central" /\ UNCHANGED <<files, promised>>
  BY DEF WriteEndRecords, dataVars
<1>3. Succeeds(trace)
  BY DEF WriteEndRecords, Committed, Fail
<1>4. IsSeq(er) /\ Len(er) \in Nat
  BY <1>1, EndRecordsCells, LenIsNat
<1> HIDE DEF er
<1>5. trace[Len(trace)] = <<WriteAt(disk, pos, er), pos + Len(er)>>
  BY <1>1, <1>4, WriteHereEnds
<1> HIDE DEF trace
<1>6. disk' = WriteAt(disk, pos, er) /\ pos' = pos + Len(er)
  BY <1>3, <1>5 DEF Succeeds, MoveSink
<1>7. Onward(disk, pos, disk', Len(disk'))
  <2>1. Onward(disk, pos, disk', pos + Len(er))
    BY <1>1, <1>4, <1>6, WriteIsOnward
  <2> QED
    BY <1>1, <1>4, <2>1 DEF Onward
<1>8. ASSUME NEW i \in 1..Len(files)
      PROVE  Recorded(disk', files[i], promised[i], Len(disk'))
  <2>1. Recorded(disk, files[i], promised[i], pos)
    BY <1>2, AllSettledData
  <2>2. files[i].header_start \in Nat
    BY <1>1 DEF EntriesOK, IsEntry
  <2> QED
    BY <1>1, <1>7, <2>1, <2>2, EntryStays DEF Recorded
<1> QED
  BY <1>1, <1>2, <1>8 DEF CommittedData

LEMMA LiveNextData ==
    ASSUME DataStep, ExtraLengths, Next
    PROVE  LiveData'
<1>1. CASE \/ StartFile \/ StartFileWithExtraData \/ StartFileAligned
           \/ AddDirectory \/ AddSymlink \/ RawCopyFile
           \/ EndExtraData \/ EndLocalStartCentralExtraData \/ Finish
           \/ SetComment \/ Drop \/ WriteRefused
  BY <1>1, CallsData
<1>2. CASE Write \/ Flush \/ WriteTarget
  BY <1>2, WriteOpenData, FlushData, WriteTargetData
<1>3. CASE ExtraRefused \/ EndCentralExtra \/ EndLocalExtraPanics \/ EndLocalExtra
  BY <1>3, RefusedData, EndCentralExtraData, EndLocalExtraData
<1>4. CASE SwitchStored \/ FinishCrypto \/ KeepHeader \/ UpdateHeader
  BY <1>4, SwitchStoredData, FinishCryptoData, KeepHeaderData, UpdateHeaderData
<1>5. CASE StartEntry \/ CopyRaw \/ WriteCentralHeader
  BY <1>5, StartEntryData, CopyRawData, WriteCentralHeaderData
<1>6. CASE WriteEndRecords
  <2>1. ~Fails(Still(WriteTrace(disk, pos,
               EndRecords(Len(files), CentralStart, pos - CentralStart, comment))))
    BY NoFaultData
  <2>2. status' \in {"finished", "dropped"}
    BY <1>6, <2>1 DEF WriteEndRecords
  <2> QED
    BY <2>2 DEF DataStep
<1> QED
  BY <1>1, <1>2, <1>3, <1>4, <1>5, <1>6 DEF Next

\* What the proof knows of the writer besides DataInv.
DataPremises ==
    /\ PromiseInv /\ PromiseInv' /\ AlignInv /\ ExtraLengths
    /\ RoomForZip64 /\ RoomForZip64' /\ SizesFit'

LEMMA NextData ==
    ASSUME DataPremises, DataInv, Next
    PROVE  DataInv'
<1> SUFFICES ASSUME faults' = 0
             PROVE  /\ status' = "live" /\ ~IsClosed(inner') => LiveData'
                    /\ Committed' => CommittedData'
  BY DEF DataInv
<1>1. faults = 0
  BY FaultsStay DEF DataPremises
<1>2. IInv /\ SinkInv /\ status \in {"live", "finished", "dropped", "aborted"}
  BY DEF DataPremises, PromiseInv, SinkInv, IInv, TypeOK
<1>3. status' = "live" => status = "live"
  <2>1. status = "finished" => status' = "finished"
    BY FinishedStep DEF DataPremises
  <2> QED
    BY <1>2, <2>1, GoneStep DEF DataPremises
<1>4. ASSUME status' = "live", ~IsClosed(inner')
      PROVE  LiveData'
  <2>1. status = "live"
    BY <1>3, <1>4
  <2>2. ~IsClosed(inner)
    BY <1>2, <1>4, ClosedStep
  <2>3. LiveData
    BY <1>1, <2>1, <2>2 DEF DataInv
  <2>4. Preserved
    BY <1>2, NextSink DEF SinkStep
  <2>5. DataStep
    BY <1>4, <2>1, <2>2, <2>3, <2>4 DEF DataStep, DataPremises
  <2> QED
    BY <2>5, LiveNextData DEF DataPremises
<1>5. ASSUME Committed'
      PROVE  CommittedData'
  <2>1. status = "live" /\ WriteEndRecords
    BY <1>2, <1>5, GoneStep, FinishedCommitsNot, LiveCommitsNot DEF DataPremises
  <2>2. ~IsClosed(inner)
    <3>1. IsPlain(inner)
      BY <1>2, <2>1 DEF IInv, GetPlainSafe, SafeAt, WriteEndRecords
    <3> QED
      BY <3>1 DEF IsPlain, IsClosed
  <2>3. LiveData
    BY <1>1, <2>1, <2>2 DEF DataInv
  <2> QED
    BY <1>5, <2>1, <2>3, WriteEndRecordsData DEF DataPremises
<1> QED
  BY <1>4, <1>5

LEMMA DataKept ==
    ASSUME DataPremises, DataInv, [Next]_vars
    PROVE  DataInv'
<1>1. CASE Next
  BY <1>1, NextData
<1>2. CASE UNCHANGED vars
  <2>1. UNCHANGED <<disk, pos, inner, files, stats, comment, writing_to_file,
            writing_to_extra_field, writing_to_central_extra_field_only,
            writing_raw, call, pc, result, status, faults, writes, promised>>
    BY <1>2 DEF vars, sinkVars, dataVars, flagVars, callVars, ghostVars
  <2>2. /\ LiveData' = LiveData /\ CommittedData' = CommittedData
        /\ Committed' = Committed /\ IsClosed(inner') = IsClosed(inner)
    BY <2>1 DEF LiveData, CommittedData, Committed, CallKnown, StepKnown, FieldsKnown,
       EarlierData, LastData, ExtraAgrees, AlignedEnd, LocalExtraOpen, OpenData,
       Settled, LastFile
  <2> QED
    BY <2>1, <2>2 DEF DataInv
<1> QED
  BY <1>1, <1>2

\* A new writer has no entries; those of an existing archive read well.
LEMMA InitData == Init => DataInv
<1> SUFFICES ASSUME Init PROVE LiveData /\ ~Committed
  BY DEF DataInv
<1>1. /\ pc = "idle" /\ status = "live" /\ result = "none" /\ call = NoCall
      /\ stats = NewStats(0) /\ inner = Plain /\ ~writing_to_extra_field
  BY DEF Init, New, NewAppend, InitWriter
<1>2. ~Committed
  BY <1>1 DEF Committed
<1>3. CallKnown /\ StepKnown /\ FieldsKnown
  <2>1. CallKnown
    BY <1>1, NoCallIsCall DEF CallKnown
  <2>2. StepKnown
    BY <1>1 DEF StepKnown
  <2>3. FieldsKnown
    BY <1>1 DEF FieldsKnown, NewStats, Plain, Closed
  <2> QED
    BY <2>1, <2>2, <2>3
<1>4. PromiseInv
  BY InitPromise
<1>5. CASE New
  <2>1. files = << >> /\ disk = << >> /\ pos = 0 /\ Len(files) = 0 /\ Len(disk) = 0
    BY <1>5, EmptyIsSeq DEF New, InitWriter
  <2>2. Len(promised) = 0
    <3> DEFINE none == << >>
               found == [i \in 1..Len(none) |->
                  [name |-> none[i].name, data |-> ReadEntry(none, none[i]).data,
                   extra |-> CustomExtra(none[i].extra_field)]]
    <3>1. promised = found
      BY <1>5 DEF New, InitWriter
    <3>2. Len(none) = 0
      BY EmptyIsSeq
    <3> HIDE DEF none
    <3>3. found = [i \in 1..0 |-> found[i]]
      BY <3>2
    <3> HIDE DEF found
    <3>4. Len(found) = 0
      BY <3>3, FunctionIsSeq
    <3> QED
      BY <3>1, <3>4
  <2>3. EarlierData
    BY <2>1 DEF EarlierData
  <2> QED
    BY <1>2, <1>3, <2>1, <2>2, <2>3 DEF LiveData
<1>6. CASE NewAppend
  <2> DEFINE a(d) == OpenArchive(d)
             entry(d, i) ==
                [name |-> a(d).files[i].name,
                 data |-> ReadEntry(d, a(d).files[i]).data,
                 extra |-> CustomExtra(a(d).files[i].extra_field)]
  <2>1. PICK d \in Existing :
          /\ a(d).ok /\ disk = d /\ pos = a(d).start /\ files = a(d).files
          /\ writing_raw
          /\ promised = [i \in 1..Len(a(d).files) |-> entry(d, i)]
    BY <1>6 DEF NewAppend, InitWriter
  <2>2. IsSeq(files) /\ Len(files) \in Nat /\ pos \in Nat /\ pos <= Len(disk)
    BY <2>1, ExistingAssumption, LenIsNat
  <2>3. \A i \in 1..Len(files) : promised[i] = entry(d, i)
    BY <2>1
  <2>4. Len(promised) = Len(files)
    <3>1. promised = [i \in 1..Len(files) |-> promised[i]]
      BY <2>1
    <3> QED
      BY <2>2, <3>1, FunctionIsSeq
  <2>5. ASSUME NEW i \in 1..Len(files)
        PROVE  /\ promised[i].name = files[i].name
               /\ Recorded(disk, files[i], promised[i],
                    IF i < Len(files) THEN files[Len(files)].header_start ELSE pos)
    <3> PICK end : end = IF i < Len(files) THEN files[Len(files)].header_start ELSE pos
      OBVIOUS
    <3>1. /\ ReadEntry(disk, files[i]).ok
          /\ files[i].encrypted => ~files[i].using_data_descriptor
          /\ EntryEndsBy(disk, files[i], end)
      BY <2>1, ExistingEntries
    <3>2. EntryOn(disk, files[i], ReadEntry(disk, files[i]).data, end)
      BY <3>1, ReadableIsOn
    <3>3. /\ promised[i].name = files[i].name
          /\ promised[i].data = ReadEntry(disk, files[i]).data
          /\ promised[i].extra = CustomExtra(files[i].extra_field)
      BY <2>1, <2>3
    <3> QED
      BY <3>2, <3>3 DEF Recorded
  <2>6. EarlierData
    BY <2>5 DEF EarlierData, LastFile
  <2>7. files # << >> => LastData(LastFile, promised[Len(promised)])
    <3> SUFFICES ASSUME files # << >>
                 PROVE  LastData(LastFile, promised[Len(promised)])
      OBVIOUS
    <3>1. Len(files) \in 1..Len(files) /\ ~(Len(files) < Len(files))
      BY <2>2, EmptyIsSeq
    <3>2. Recorded(disk, LastFile, promised[Len(promised)], pos)
      BY <2>4, <2>5, <3>1 DEF LastFile
    <3>3. Settled /\ pc # "copy" /\ ~AlignedEnd
      BY <1>1, <2>1 DEF Settled, AlignedEnd
    <3> QED
      BY <3>2, <3>3 DEF LastData, ExtraAgrees, Recorded
  <2> QED
    BY <1>2, <1>3, <2>2, <2>4, <2>5, <2>6, <2>7 DEF LiveData
<1> QED
  BY <1>5, <1>6 DEF Init

-----------------------------------------------------------------------------
(***************************************************************************)
(* The theorems.                                                           *)
(***************************************************************************)
LEMMA AlignInvariance == Spec => []AlignInv
<1>1. Init => AlignInv
  BY DEF Init, New, NewAppend, InitWriter, AlignInv
<1>2. PromiseInv /\ AlignInv /\ [Next]_vars => AlignInv'
  BY NextAlign
<1> QED
  BY <1>1, <1>2, PromiseInvariance, PTL DEF Spec

LEMMA InitExtraLengths == Init => ExtraLengths
<1>1. New => ExtraLengths
  BY EmptyIsSeq DEF New, InitWriter, ExtraLengths
<1>2. NewAppend => ExtraLengths
  BY ExistingAssumption DEF NewAppend, InitWriter, ExtraLengths
<1> QED
  BY <1>1, <1>2 DEF Init

LEMMA ExtraLengthsInvariance == Spec => []ExtraLengths
<1>1. PromiseInv /\ ExtraLengths /\ [Next]_vars => ExtraLengths'
  <2>1. UNCHANGED vars /\ ExtraLengths => ExtraLengths'
    BY DEF ExtraLengths, vars, dataVars, flagVars
  <2> QED
    BY <2>1, NextExtraLengths
<1> QED
  BY <1>1, InitExtraLengths, PromiseInvariance, PTL DEF Spec

\* What is committed is what a reader finds.
LEMMA CommittedReadsBack ==
    ASSUME PromiseInv, CentralInv, Committed, CommittedData, DirectoryReadable
    PROVE  ReadsBack
<1> DEFINE a == OpenArchive(disk)
           n == Len(files)
           found(i) == [name  |-> a.files[i].name,
                        extra |-> CustomExtra(a.files[i].extra_field),
                        read  |-> ReadEntry(disk, a.files[i])]
           promise(i) == [name |-> promised[i].name, extra |-> promised[i].extra,
                          read |-> [ok |-> TRUE, data |-> promised[i].data]]
<1>1. /\ a.ok /\ a.comment = comment /\ Len(a.files) = n
      /\ \A i \in 1..n : RecordedAs(files[i], a.files[i])
  BY ArchiveOpens
<1>2. EntriesOK
  BY DEF PromiseInv, SinkInv, VectorsOK
<1>3. ASSUME NEW i \in 1..n PROVE found(i) = promise(i)
  <2>1. PICK f, g, e : f = files[i] /\ g = a.files[i] /\ e = promised[i]
    OBVIOUS
  <2>2. /\ e.name = f.name /\ EntryOn(disk, f, e.data, Len(disk))
        /\ e.extra = CustomExtra(f.extra_field)
    BY <2>1 DEF CommittedData, Recorded
  <2>3. RecordedAs(f, g) /\ IsSeq(f.extra_field)
    BY <1>1, <1>2, <2>1 DEF EntriesOK, IsEntry
  <2>4. ReadEntry(disk, g) = [ok |-> TRUE, data |-> e.data]
    BY <2>2, <2>3, EntryReads
  <2>5. g.name = f.name /\ CustomExtra(g.extra_field) = CustomExtra(f.extra_field)
    BY <2>3, CentralExtraIsCustom DEF RecordedAs
  <2> QED
    BY <2>1, <2>2, <2>4, <2>5
<1>4. Contents(disk) = [i \in 1..n |-> found(i)]
  BY <1>1 DEF Contents
<1>5. PromisedContents = [i \in 1..n |-> promise(i)]
  BY DEF PromisedContents, CommittedData
<1> HIDE DEF found, promise
<1>6. Contents(disk) = PromisedContents
  BY <1>3, <1>4, <1>5
<1> QED
  BY <1>1, <1>6 DEF ReadsBack

\* The record of the past changes nothing of the writer.
LEMMA HistoryIsWriter == HistorySpec => Spec
<1>1. HistoryInit => Init
  BY DEF HistoryInit
<1>2. [HistoryNext]_<<vars, outgrown>> => [Next]_vars
  BY DEF HistoryNext
<1> QED
  BY <1>1, <1>2, PTL DEF HistorySpec, Spec

\* As long as no entry has outgrown its options, what is on the disk stays in
\* step with what was promised.
HistoryInv == ~outgrown => SizesFit /\ DataInv

LEMMA HistoryInvariance == HistorySpec /\ []RoomForZip64 => []HistoryInv
<1>1. HistoryInit => HistoryInv
  BY InitData DEF HistoryInit, HistoryInv
<1>2. PromiseInv /\ PromiseInv' /\ AlignInv /\ ExtraLengths /\ RoomForZip64
      /\ RoomForZip64' /\ HistoryInv /\ [HistoryNext]_<<vars, outgrown>>
        => HistoryInv'
  <2> SUFFICES ASSUME PromiseInv, PromiseInv', AlignInv, ExtraLengths,
                      RoomForZip64, RoomForZip64', HistoryInv,
                      [HistoryNext]_<<vars, outgrown>>, ~outgrown'
               PROVE  SizesFit' /\ DataInv'
    BY DEF HistoryInv
  <2>1. ~outgrown /\ SizesFit'
    <3>1. CASE HistoryNext
      BY <3>1 DEF HistoryNext
    <3>2. CASE UNCHANGED <<vars, outgrown>>
      <4>1. ~outgrown /\ SizesFit /\ UNCHANGED files
        BY <3>2 DEF HistoryInv, vars, dataVars
      <4> QED
        BY <4>1 DEF SizesFit, TooLarge, LastFile
    <3> QED
      BY <3>1, <3>2
  <2>2. [Next]_vars
    BY DEF HistoryNext
  <2>3. DataPremises /\ DataInv
    BY <2>1 DEF DataPremises, HistoryInv
  <2> QED
    BY <2>1, <2>2, <2>3, DataKept
<1> QED
  BY <1>1, <1>2, HistoryIsWriter, PromiseInvariance, AlignInvariance,
     ExtraLengthsInvariance, PTL DEF HistorySpec

\* Every archive that a finish or drop completes without a failure of the sink
\* reads back, entry for entry, as what the successful calls were given: any
\* number of entries and cells, plain, compressed, encrypted, copied raw or
\* taken over from an existing archive, with extra data and alignments, whatever
\* calls were refused in between (RoundTrip names the exceptions, of which the
\* one for entries that outgrow their options is the history's).
\* DirectoryReadable says that the reader can tell the directory from what is
\* around it, RoomForZip64 that ZIP64 records fit the extra fields.
THEOREM FinishedArchivesReadBack ==
    HistorySpec /\ []RoomForZip64 => [](DirectoryReadable => RoundTrip)
<1>1. PromiseInv /\ CentralInv /\ HistoryInv => (DirectoryReadable => RoundTrip)
  BY CommittedReadsBack DEF HistoryInv, DataInv, RoundTrip
<1> QED
  BY <1>1, HistoryInvariance, HistoryIsWriter, PromiseInvariance,
     CentralInvariance, PTL

-----------------------------------------------------------------------------
(***************************************************************************)
(* The refinement.                                                         *)
(***************************************************************************)
\* The observer changes nothing of the writer and of its history.
LEMMA ObservedIsHistory == ObservedSpec => HistorySpec
<1>1. ObservedInit => HistoryInit
  BY DEF ObservedInit
<1>2. [ObservedNext]_<<vars, outgrown, archive>> => [HistoryNext]_<<vars, outgrown>>
  BY DEF ObservedNext
<1> QED
  BY <1>1, <1>2, PTL DEF ObservedSpec, HistorySpec

LEMMA ObservedIsWriter == ObservedSpec => Spec
BY ObservedIsHistory, HistoryIsWriter, PTL

\* So the observed writer keeps the invariant of ZipWriter.
LEMMA ObservedInvariance == ObservedSpec => []PromiseInv
BY ObservedIsWriter, PromiseInvariance, PTL

\* The observer has found nothing as long as nothing is shown.
LEMMA NothingShown ==
    ASSUME NEW d, NEW s, NEW r, ~Shown(s, r)
    PROVE  Observed(d, s, r) = Abstract!Nothing
BY DEF Observed, Shown

\* An archive that reads back shows the entries that were promised.
LEMMA PromisedShown ==
    ASSUME NEW d, PromisesOK, Contents(d) = PromisedContents
    PROVE  EntriesOn(d) = promised
<1> DEFINE found == PromisedContents
           n == Len(promised)
           shown == [i \in 1..n |-> [name |-> promised[i].name,
                                     extra |-> promised[i].extra,
                                     data |-> promised[i].data]]
<1>1. IsSeq(promised) /\ n \in Nat
  BY LenIsNat DEF PromisesOK
<1>2. \A i \in 1..n : found[i] = [name |-> promised[i].name,
                                  extra |-> promised[i].extra,
                                  read |-> [ok |-> TRUE, data |-> promised[i].data]]
  BY DEF PromisedContents
<1>3. Len(found) = n
  <2>1. found = [i \in 1..n |-> found[i]]
    BY DEF PromisedContents
  <2> HIDE DEF found
  <2> QED
    BY <1>1, <2>1, FunctionIsSeq
<1>4. EntriesOn(d) = [i \in 1..Len(found) |->
           [name |-> found[i].name, extra |-> found[i].extra,
            data |-> IF found[i].read.ok THEN found[i].read.data
                                         ELSE Unreadable]]
  BY DEF EntriesOn
<1> HIDE DEF found
<1>5. \A i \in 1..n : /\ found[i].name = promised[i].name
                      /\ found[i].extra = promised[i].extra
                      /\ found[i].read.ok
                      /\ found[i].read.data = promised[i].data
  <2> TAKE i \in 1..n
  <2> DEFINE read == [ok |-> TRUE, data |-> promised[i].data]
  <2>1. found[i] = [name |-> promised[i].name, extra |-> promised[i].extra,
                    read |-> read]
    BY <1>2
  <2>2. read.ok /\ read.data = promised[i].data
    OBVIOUS
  <2> HIDE DEF read
  <2> QED
    BY <2>1, <2>2
<1>6. EntriesOn(d) = shown
  BY <1>3, <1>4, <1>5
<1>7. \A i \in 1..n : promised[i] = [name |-> promised[i].name,
                                     extra |-> promised[i].extra,
                                     data |-> promised[i].data]
  BY DEF PromisesOK, IsPromise
<1>8. promised = [i \in 1..n |-> promised[i]]
  BY <1>1, LenProperties DEF IsSeq
<1> HIDE DEF n
<1>9. shown = [i \in 1..n |-> promised[i]]
  BY <1>7
<1> QED
  BY <1>6, <1>8, <1>9

\* The observer's state follows from ZipWriter's.
ObservedOK == archive = Observed(disk, status, result)

\* Every step of the observed writer is a step of Archive or changes nothing
\* there.
LEMMA ObservedRefines ==
    ASSUME PromiseInv, PromiseInv', ObservedOK, ObservedOK',
           Next, FinishedReadsBack'
    PROVE  Abstract!Next
<1>1. ObservedStep
  BY NextPromise
<1>2. CASE ~Shown(status, result) /\ LiveStep
  <2>1. archive = Abstract!Nothing /\ archive' = Abstract!Nothing
    BY <1>2, NothingShown DEF ObservedOK, LiveStep, Goes
  <2>2. CASE UNCHANGED promised
    BY <2>1, <2>2 DEF Abstract!Next, Abstract!SetComment
  <2>3. CASE UNCHANGED comment /\ Added
    BY <2>1, <2>3 DEF Added, Abstract!Next, Abstract!AddEntry, Abstract!Open,
                      Front, Abstract!Front
  <2>4. CASE UNCHANGED comment /\ Extended
    BY <2>1, <2>4 DEF Extended, Extends, Abstract!Next, Abstract!ExtendEntry,
                      Abstract!Open, Front, Abstract!Front, Last,
                      Abstract!Last, IsPrefix, Abstract!IsPrefix
  <2> QED
    BY <1>2, <2>2, <2>3, <2>4 DEF LiveStep, Grows
<1>3. CASE ~Shown(status, result) /\ Finalizes
  <2>1. archive = Abstract!Nothing
    BY <1>3, NothingShown DEF ObservedOK
  <2>2. ReadsBack' /\ UNCHANGED <<promised, comment>>
    BY <1>3 DEF Finalizes, FinishedReadsBack
  <2>3. EntriesOn(disk') = promised'
    <3>1. PromisesOK' /\ Contents(disk') = PromisedContents'
      BY <2>2 DEF PromiseInv, ReadsBack
    <3>2. \A d : PromisesOK /\ Contents(d) = PromisedContents
                   => EntriesOn(d) = promised
      BY PromisedShown
    <3> QED
      BY <2>2, <3>1, <3>2 DEF PromisesOK, PromisedContents
  <2>4. archive' = [ok |-> OpenArchive(disk').ok, entries |-> EntriesOn(disk'),
                    comment |-> OpenArchive(disk').comment]
    BY <1>3 DEF ObservedOK, Observed, Finalizes, Committed
  <2>5. archive' = [ok |-> TRUE, entries |-> promised, comment |-> comment]
    BY <2>2, <2>3, <2>4 DEF ReadsBack
  <2> QED
    BY <2>1, <2>2, <2>5 DEF Abstract!Next, Abstract!Publish, Abstract!Open
<1>4. CASE status = "finished" /\ UNCHANGED <<disk, status, promised>>
  <2>1. UNCHANGED archive
    BY <1>4 DEF ObservedOK, Observed
  <2> QED
    BY <1>4, <2>1 DEF Abstract!Next, Abstract!SetComment
<1> QED
  BY <1>1, <1>2, <1>3, <1>4 DEF ObservedStep

\* ZipWriter implements Archive as far as a successful finish or drop leaves
\* an archive that reads back: whatever fails, whatever is retried, before
\* that step only the last entry changes, and grows; what the observer finds
\* appears in that step and is what was promised; and no later call, nor the
\* drop, changes it.
THEOREM ArchiveImplemented ==
    ObservedSpec /\ []FinishedReadsBack => ImplementsArchive
<1>1. ObservedInit => ObservedOK /\ Abstract!Init
  BY NothingShown DEF ObservedInit, HistoryInit, Init, New, NewAppend, InitWriter, ObservedOK,
       Shown, Abstract!Init
<1>2. ObservedOK /\ [ObservedNext]_<<vars, outgrown, archive>> => ObservedOK'
  BY DEF ObservedOK, ObservedNext, HistoryNext, vars, sinkVars, callVars
<1>3. PromiseInv /\ PromiseInv' /\ ObservedOK /\ ObservedOK'
      /\ [ObservedNext]_<<vars, outgrown, archive>> /\ FinishedReadsBack'
        => [Abstract!Next]_(Abstract!vars)
  <2>1. ASSUME PromiseInv, PromiseInv', ObservedOK, ObservedOK', ObservedNext,
               FinishedReadsBack'
        PROVE  Abstract!Next
    BY <2>1, ObservedRefines DEF ObservedNext, HistoryNext
  <2>2. UNCHANGED <<vars, outgrown, archive>> => UNCHANGED (Abstract!vars)
    BY DEF vars, dataVars, ghostVars, Abstract!vars
  <2> QED
    BY <2>1, <2>2
<1> QED
  BY <1>1, <1>2, <1>3, ObservedInvariance, PTL
  DEF ObservedSpec, ImplementsArchive, Abstract!Spec

\* While the sink does not fail, ZipWriter implements Archive: what a finished
\* archive reads back as is no hypothesis any more, but follows.  What is left
\* of it are the limits of the format: no entry outgrows its options, ZIP64
\* records fit, and the directory can be told from what is around it.
THEOREM WriterImplementsArchive ==
    ObservedSpec /\ [](faults = 0) /\ []RoomForZip64 /\ [](~outgrown)
    /\ [](Committed => DirectoryReadable)
      => ImplementsArchive
<1>1. PromiseInv /\ CentralInv /\ HistoryInv /\ ~outgrown /\ faults = 0
      /\ (Committed => DirectoryReadable)
        => FinishedReadsBack
  BY CommittedReadsBack DEF HistoryInv, DataInv, FinishedReadsBack
<1>2. ObservedSpec /\ [](faults = 0) /\ []RoomForZip64 /\ [](~outgrown)
      /\ [](Committed => DirectoryReadable)
        => []FinishedReadsBack
  BY <1>1, ObservedIsWriter, ObservedIsHistory, HistoryInvariance,
     PromiseInvariance, CentralInvariance, PTL
<1> QED
  BY <1>2, ArchiveImplemented, PTL
=============================================================================

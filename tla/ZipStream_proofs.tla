-------------------------- MODULE ZipStream_proofs --------------------------
(***************************************************************************)
(* What a visitor may rely on when a read returns the end of the data, and *)
(* where the stream is when the next header is read: for every stream,     *)
(* every decoder, every use a visitor makes of its files and every         *)
(* failure.  And, for streams whose files stand in the order of the        *)
(* directory, that a visit shows what the directory lists.                 *)
(***************************************************************************)
EXTENDS ZipStream, Vectors_proofs

\* The file in the visitor's hands keeps the promise its history is to keep;
\* the history is a vector, so that its elements are those that were appended.
Verified == seen = "end" => hasher = file.crc32

VisitedIsSeq == IsSeq(visited)

IInv == VisitedIsSeq /\ Verified /\ EndIsVerified

\* Nothing was read and nobody was told of an end before the first file.
LEMMA InitInv == Init => IInv
<1> SUFFICES ASSUME Init PROVE IInv
  OBVIOUS
<1>1. visited = << >> /\ seen = "nothing"
  BY DEF Init
<1>2. VisitedIsSeq /\ Len(visited) = 0
  BY <1>1, EmptyIsSeq DEF VisitedIsSeq
<1>3. Verified /\ EndIsVerified
  BY <1>1, <1>2 DEF Verified, EndIsVerified
<1> QED
  BY <1>2, <1>3 DEF IInv

\* A step that leaves the history alone and keeps Verified keeps all.
LEMMA SameHistory ==
    ASSUME IInv, visited' = visited, Verified'
    PROVE  IInv'
BY DEF IInv, VisitedIsSeq, EndIsVerified

\* read() reports the end only behind the comparison of the checksum.
LEMMA VisitorReadsStep == ASSUME IInv, VisitorReads PROVE IInv'
<1>1. visited' = visited /\ file' = file
  BY DEF VisitorReads, historyVars
<1>2. \E m, new, damaged, end : ReadOutcome(m, new, damaged, end)
  BY DEF VisitorReads
<1>3. Verified'
  BY <1>1, <1>2 DEF ReadOutcome, Verified, InvalidCheck
<1> QED
  BY <1>1, <1>3, SameHistory

\* What the visitor was told last goes into the history with what it read.
LEMMA VisitorReturnsStep == ASSUME IInv, VisitorReturns PROVE IInv'
<1> DEFINE e == [name |-> file.name, crc32 |-> file.crc32, data |-> hasher,
                 seen |-> seen]
<1>1. visited' = Append(visited, e) /\ UNCHANGED <<file, hasher, seen>>
  BY DEF VisitorReturns
<1>2. e.seen = "end" => e.data = e.crc32
  BY DEF IInv, Verified
<1> HIDE DEF e
<1>3. /\ IsSeq(visited')
      /\ \A i \in 1..Len(visited') :
           visited'[i] = e \/ \E j \in 1..Len(visited) : visited'[i] = visited[j]
  BY <1>1, AppendIsSeq DEF IInv, VisitedIsSeq
<1>4. EndIsVerified'
  BY <1>2, <1>3 DEF IInv, EndIsVerified
<1>5. Verified'
  BY <1>1 DEF IInv, Verified
<1> QED
  BY <1>3, <1>4, <1>5 DEF IInv, VisitedIsSeq

\* Every step keeps the invariant.
LEMMA NextInv == IInv /\ [Next]_vars => IInv'
<1> SUFFICES ASSUME IInv, [Next]_vars PROVE IInv'
  OBVIOUS
<1> USE DEF streamVars, fileVars, historyVars
<1>1. CASE LendFile
  <2>1. seen' = "nothing" /\ visited' = visited
    BY <1>1 DEF LendFile
  <2> QED
    BY <2>1, SameHistory DEF Verified
<1>2. CASE \/ NoReader \/ RefuseFile \/ ReachDirectory \/ HeaderReadFails \/ Drain
           \/ DropFile \/ DrainPanics \/ ParseCentralDirectory \/ UNCHANGED vars
  <2>1. UNCHANGED <<fileVars, visited>>
    BY <1>2 DEF NoReader, RefuseFile, ReachDirectory, HeaderReadFails, Drain, DropFile,
                DrainPanics, ParseCentralDirectory, vars
  <2>2. Verified'
    BY <2>1 DEF IInv, Verified
  <2> QED
    BY <2>1, <2>2, SameHistory
<1>3. CASE VisitorReads
  BY <1>3, VisitorReadsStep
<1>4. CASE VisitorReadFails
  <2>1. seen' = "error" /\ visited' = visited
    BY <1>4 DEF VisitorReadFails
  <2> QED
    BY <2>1, SameHistory DEF Verified
<1>5. CASE VisitorReturns
  BY <1>5, VisitorReturnsStep
<1> QED
  BY <1>1, <1>2, <1>3, <1>4, <1>5 DEF Next

\* A visitor that was told a file is at its end has read what the checksum
\* says, whatever failed before and however often it tried again
\* (crc32.rs 39-53).
THEOREM EndOfDataIsVerified == Spec => []EndIsVerified
<1>1. IInv => EndIsVerified
  BY DEF IInv
<1> QED
  BY <1>1, InitInv, NextInv, PTL DEF Spec

-----------------------------------------------------------------------------
(***************************************************************************)
(* The loop over an extra field.                                           *)
(***************************************************************************)
\* The cursor is at the first record.
Unparsed(f) == [file |-> f, skip |-> 0]

\* The loop of parse_extra_field over the records whose indices are in a set,
\* the highest last: the function that FoldLeftDomain defines by recursion (idx
\* is the sequence 1, 2, ...).
IsFold(g, f, extra, idx, n) ==
    g = [s \in SUBSET (1..n) |->
           IF s = {} THEN f
           ELSE ParseExtraRecord(g[s \ {Max(s)}], extra, idx[Max(s)])]

\* The highest of the indices up to one of them.
LEMMA HighestIndex ==
    ASSUME NEW n \in Nat, NEW s \in SUBSET (1..n + 1), n + 1 \in s
    PROVE  Max(s) = n + 1
<1>1. \A x \in s : x \in Int /\ n + 1 >= x
  OBVIOUS
<1>2. \A x \in s : (\A y \in s : x >= y) => x = n + 1
  BY <1>1
<1> QED
  BY <1>1, <1>2 DEF Max

\* There is such a function.
LEMMA FoldExists ==
    ASSUME NEW f, NEW extra, NEW idx, NEW n \in Nat
    PROVE  \E g : IsFold(g, f, extra, idx, n)
<1> DEFINE S == {m \in Nat : \E g : IsFold(g, f, extra, idx, m)}
           Step(g, s) == IF s = {} THEN f
                         ELSE ParseExtraRecord(g[s \ {Max(s)}], extra, idx[Max(s)])
<1>1. 0 \in S
  <2> DEFINE g == [s \in SUBSET (1..0) |-> f]
  <2>1. \A s \in SUBSET (1..0) : s = {}
    OBVIOUS
  <2>2. IsFold(g, f, extra, idx, 0)
    BY <2>1 DEF IsFold
  <2> QED
    BY <2>2
<1>2. ASSUME NEW m \in Nat, m \in S PROVE m + 1 \in S
  <2>1. PICK g : IsFold(g, f, extra, idx, m)
    BY <1>2
  <2> DEFINE last(s) == ParseExtraRecord(g[s \ {m + 1}], extra, idx[m + 1])
             h == [s \in SUBSET (1..m + 1) |->
                     IF m + 1 \in s THEN last(s) ELSE g[s]]
  <2>2. \A s \in SUBSET (1..m + 1) :
            m + 1 \notin s => s \in SUBSET (1..m)
    OBVIOUS
  <2>3. ASSUME NEW s \in SUBSET (1..m + 1) PROVE h[s] = Step(h, s)
    <3>1. CASE m + 1 \in s
      <4>1. Max(s) = m + 1 /\ s # {}
        BY <3>1, HighestIndex
      <4>2. s \ {m + 1} \in SUBSET (1..m + 1) /\ m + 1 \notin s \ {m + 1}
        OBVIOUS
      <4>3. h[s] = last(s) /\ h[s \ {m + 1}] = g[s \ {m + 1}]
        BY <3>1, <4>2
      <4> HIDE DEF h
      <4> QED
        BY <4>1, <4>3
    <3>2. CASE m + 1 \notin s
      <4>1. s \ {Max(s)} \in SUBSET (1..m + 1) /\ m + 1 \notin s \ {Max(s)}
        BY <3>2
      <4>2. h[s] = g[s] /\ h[s \ {Max(s)}] = g[s \ {Max(s)}]
        BY <3>2, <4>1
      <4>3. g[s] = Step(g, s)
        BY <2>1, <2>2, <3>2 DEF IsFold
      <4> HIDE DEF h
      <4> QED
        BY <4>2, <4>3
    <3> QED
      BY <3>1, <3>2
  <2>4. h = [s \in SUBSET (1..m + 1) |-> h[s]]
    OBVIOUS
  <2> HIDE DEF h
  <2>5. IsFold(h, f, extra, idx, m + 1)
    BY <2>3, <2>4 DEF IsFold
  <2> QED
    BY <2>5
<1> HIDE DEF S
<1>3. n \in S
  BY <1>1, <1>2, Induction
<1> QED
  BY <1>3 DEF S

\* FoldLeftDomain is its value for all indices.
Parses(g, idx, f, extra, n) ==
    /\ IsFold(g, Unparsed(f), extra, idx, n)
    /\ \A i \in 1..n : idx[i] = i
    /\ ParseExtraField(f, extra) = g[1..n].file

LEMMA ParseIsFold ==
    ASSUME NEW f, NEW n \in Nat, NEW extra, DOMAIN extra = 1..n
    PROVE  \E g, idx : Parses(g, idx, f, extra, n)
<1> DEFINE idx == [i \in DOMAIN extra |-> i]
           iter[s \in SUBSET (DOMAIN idx)] ==
             IF s = {} THEN Unparsed(f)
             ELSE ParseExtraRecord(iter[s \ {Max(s)}], extra, idx[Max(s)])
<1>1. IsFold(iter, Unparsed(f), extra, idx, n)
  <2>1. iter = CHOOSE g : IsFold(g, Unparsed(f), extra, idx, n)
    BY Zenon DEF IsFold
  <2> HIDE DEF iter
  <2> QED
    BY <2>1, FoldExists, Zenon
<1>2. DOMAIN idx = 1..n /\ \A i \in 1..n : idx[i] = i
  OBVIOUS
<1>3. ParseExtraField(f, extra) = iter[1..n].file
  BY <1>2 DEF ParseExtraField, FoldLeftDomain, FoldLeft, MapThenFoldSet, Unparsed
<1>4. Parses(iter, idx, f, extra, n)
  BY <1>1, <1>2, <1>3 DEF Parses
<1> QED
  BY <1>4

\* What the loop leaves as it is: the fields a ZIP64 record does not have, and
\* that sizes are numbers.
ParsedFrom(f, g) ==
    /\ DOMAIN g = DOMAIN f
    /\ g.data_start = f.data_start /\ g.name = f.name /\ g.method = f.method
    /\ g.compressed_size \in Nat

\* In the midst of the loop.
Parsing(f, st) ==
    /\ DOMAIN st = {"file", "skip"} /\ ParsedFrom(f, st.file)

\* The compressed size that a ZIP64 record leaves is a number.
LEMMA NumbersKeep ==
    ASSUME NEW u, NEW c \in Nat, NEW h, NEW payload \in Seq(Nat), NEW n \in Nat
    PROVE  ParseZip64(u, c, h, payload, AsNumbers(n)).compressed_size \in Nat
<1> DEFINE numbers == payload \o AsNumbers(n)
           su == Take64([ok |-> TRUE, next |-> 1, val |-> 0], u, numbers)
           sc == Take64(su, c, numbers)
<1>1. AsNumbers(n) \in [1..n -> Nat]
  BY BytesThrAssumption DEF AsNumbers
<1>2. AsNumbers(n) \in Seq(Nat)
  BY <1>1
<1>3. numbers \in Seq(Nat)
  BY <1>2
<1>4. ParseZip64(u, c, h, payload, AsNumbers(n)).compressed_size = sc.val
  BY DEF ParseZip64
<1> HIDE DEF numbers
<1>5. su.next \in {1, 2} /\ DOMAIN su = {"ok", "next", "val"}
  BY DEF Take64
<1> HIDE DEF su
<1>6. sc.val \in Nat
  BY <1>3, <1>5 DEF Take64
<1> QED
  BY <1>4, <1>6

LEMMA RecordKeeps ==
    ASSUME NEW f, NEW st, Parsing(f, st), NEW extra, NEW n \in Nat,
           DOMAIN extra = 1..n, Len(extra) = n, NEW i \in 1..n, IsCell(extra[i]),
           {"uncompressed_size", "compressed_size", "header_start",
            "large_file", "data_start", "name", "method"} \subseteq DOMAIN f
    PROVE  Parsing(f, ParseExtraRecord(st, extra, i))
<1> DEFINE g == st.file
           z == ParseZip64(g.uncompressed_size, g.compressed_size,
                           g.header_start, extra[i][2], AsNumbers(Len(extra) - i))
           marked == ZIP64_BYTES_THR \in
                       {g.uncompressed_size, g.compressed_size, g.header_start}
           large == \/ g.large_file
                    \/ g.uncompressed_size = ZIP64_BYTES_THR
                    \/ g.compressed_size = ZIP64_BYTES_THR
           parsed == [g EXCEPT !.uncompressed_size = z.uncompressed_size,
                               !.compressed_size = z.compressed_size,
                               !.header_start = z.header_start, !.large_file = large]
<1>1. CASE st.skip > 0
  <2>1. ParseExtraRecord(st, extra, i) = [st EXCEPT !.skip = @ - 1]
    BY <1>1 DEF ParseExtraRecord
  <2> QED
    BY <2>1 DEF Parsing
<1>2. CASE ~(st.skip > 0) /\ (extra[i][1] # "zip64" \/ ~marked)
  <2>1. ParseExtraRecord(st, extra, i) = st
    BY <1>2 DEF ParseExtraRecord
  <2> QED
    BY <2>1
<1>3. CASE ~(st.skip > 0) /\ extra[i][1] = "zip64" /\ marked
  <2>1. ParseExtraRecord(st, extra, i) = [skip |-> z.beyond, file |-> parsed]
    BY <1>3 DEF ParseExtraRecord
  <2>2. extra[i][2] \in Seq(Nat) /\ Len(extra) - i \in Nat
    BY <1>3 DEF IsCell
  <2>3. z.compressed_size \in Nat
    BY <2>2, NumbersKeep DEF Parsing, ParsedFrom
  <2> HIDE DEF z, large, marked
  <2>4. ParsedFrom(f, g)
    BY DEF Parsing
  <2> HIDE DEF g
  <2>5. ParsedFrom(f, parsed)
    BY <2>3, <2>4 DEF ParsedFrom
  <2> HIDE DEF parsed
  <2> QED
    BY <2>1, <2>5 DEF Parsing
<1> QED
  BY <1>1, <1>2, <1>3

\* So does the whole loop.
LEMMA ParseKeeps ==
    ASSUME NEW f, NEW extra, NEW n \in Nat, DOMAIN extra = 1..n, Len(extra) = n,
           \A i \in 1..n : IsCell(extra[i]), f.compressed_size \in Nat,
           {"uncompressed_size", "compressed_size", "header_start",
            "large_file", "data_start", "name", "method"} \subseteq DOMAIN f
    PROVE  ParsedFrom(f, ParseExtraField(f, extra))
<1>0. PICK g, idx : Parses(g, idx, f, extra, n)
  BY ParseIsFold
<1>1. /\ IsFold(g, Unparsed(f), extra, idx, n)
      /\ \A i \in 1..n : idx[i] = i
      /\ ParseExtraField(f, extra) = g[1..n].file
  BY <1>0 DEF Parses
<1> DEFINE S == {m \in Nat : m <= n => Parsing(f, g[1..m])}
<1>2. 0 \in S
  <2>1. 1..0 = {} /\ 1..0 \in SUBSET (1..n)
    OBVIOUS
  <2>2. g[1..0] = Unparsed(f)
    BY <1>1, <2>1 DEF IsFold
  <2>3. Parsing(f, Unparsed(f))
    BY DEF Parsing, Unparsed, ParsedFrom
  <2> QED
    BY <2>2, <2>3
<1>3. ASSUME NEW m \in Nat, m \in S PROVE m + 1 \in S
  <2> SUFFICES ASSUME m + 1 <= n PROVE Parsing(f, g[1..m + 1])
    OBVIOUS
  <2>1. /\ 1..m + 1 \in SUBSET (1..n) /\ 1..m + 1 # {}
        /\ (1..m + 1) \ {m + 1} = 1..m /\ m + 1 \in 1..m + 1
    OBVIOUS
  <2>2. Max(1..m + 1) = m + 1
    BY <2>1, HighestIndex
  <2>3. g[1..m + 1] = ParseExtraRecord(g[1..m], extra, m + 1)
    <3>1. g[1..m + 1] = ParseExtraRecord(g[1..m], extra, idx[m + 1])
      BY <1>1, <2>1, <2>2 DEF IsFold
    <3> QED
      BY <1>1, <3>1
  <2>4. Parsing(f, g[1..m]) /\ IsCell(extra[m + 1]) /\ m + 1 \in 1..n
    BY <1>3
  <2> QED
    BY <2>3, <2>4, RecordKeeps
<1> HIDE DEF S
<1>4. n \in S
  BY <1>2, <1>3, Induction
<1> QED
  BY <1>1, <1>4 DEF S, Parsing

-----------------------------------------------------------------------------
(***************************************************************************)
(* Local headers.                                                          *)
(***************************************************************************)
\* The stream never changes, and is a vector of cells.
StreamOK == stream \in Streams

LEMMA StreamFacts ==
    ASSUME StreamOK
    PROVE  /\ IsSeq(stream) /\ Len(stream) \in Nat
           /\ \A p \in 1..Len(stream) : IsCell(stream[p])
BY StreamsAssumption, LenIsNat DEF StreamOK

LEMMA MinOfTwo ==
    ASSUME NEW a \in Int, NEW b \in Int
    PROVE  Min({a, b}) = IF a <= b THEN a ELSE b
BY DEF Min

\* What is at a position is a cell of the stream, if it has a tag that matters.
LEMMA AtIsCell ==
    ASSUME StreamOK, NEW p \in Nat, At(stream, p)[1] # "hole"
    PROVE  p < Len(stream) /\ IsCell(At(stream, p))
<1>1. p < Len(stream)
  <2> SUFFICES ASSUME ~(p < Len(stream)) PROVE FALSE
    OBVIOUS
  <2>1. At(stream, p) = <<"hole">>
    BY DEF At
  <2> QED
    BY <2>1
<1>2. At(stream, p) = stream[p + 1] /\ p + 1 \in 1..Len(stream)
  BY <1>1, StreamFacts DEF At
<1> QED
  BY <1>1, <1>2, StreamFacts

\* The data of an entry begins behind its header, within the stream, and its
\* length is a number.
LEMMA HeaderFacts ==
    ASSUME StreamOK, NEW p \in Nat, HeaderWhole(p)
    PROVE  /\ DataStart(p) \in Nat /\ p < DataStart(p)
           /\ DataStart(p) <= Len(stream)
           /\ LocalHeaderToZipFile(p).data_start = DataStart(p)
           /\ LocalHeaderToZipFile(p).compressed_size \in Nat
<1> DEFINE sizes == At(stream, p + SIZES_OFFSET)
           xlen == At(stream, p + EXTRA_LEN_OFFSET)
           extra == LocalExtra(p)
           n == Len(extra)
<1>1. sizes[2] \in Nat /\ xlen[2] \in Nat
  <2>1. p + SIZES_OFFSET \in Nat /\ p + EXTRA_LEN_OFFSET \in Nat
    BY DEF SIZES_OFFSET, EXTRA_LEN_OFFSET
  <2>2. sizes[1] = "sizes" /\ xlen[1] = "extralen"
    BY DEF HeaderWhole
  <2> HIDE DEF sizes, xlen
  <2>3. IsCell(sizes) /\ IsCell(xlen)
    BY <2>1, <2>2, AtIsCell DEF sizes, xlen
  <2> QED
    BY <2>2, <2>3 DEF IsCell
<1>2. DataStart(p) = p + 4 + xlen[2] /\ p + 4 + xlen[2] <= Len(stream)
  BY DEF DataStart, HeaderWhole, HEADER_LEN
<1>3. /\ n \in Nat /\ DOMAIN extra = 1..n
      /\ \A i \in 1..n : IsCell(extra[i])
  <2> DEFINE q == p + HEADER_LEN
             e == Min({q + xlen[2], Len(stream)})
  <2>1. q \in Nat /\ e \in Nat /\ e <= Len(stream)
    <3>1. q \in Nat
      BY DEF HEADER_LEN
    <3> HIDE DEF q, xlen
    <3>2. q + xlen[2] \in Int /\ Len(stream) \in Int
      BY <1>1, <3>1, StreamFacts
    <3>3. e = IF q + xlen[2] <= Len(stream) THEN q + xlen[2] ELSE Len(stream)
      BY <3>2, MinOfTwo
    <3> QED
      BY <1>1, <3>1, <3>2, <3>3, StreamFacts
  <2>2. extra = SubSeq(stream, q + 1, e)
    BY DEF LocalExtra, Region
  <2> HIDE DEF q, e, extra
  <2>3. /\ IsSeq(extra)
        /\ \A i \in 1..Len(extra) :
             extra[i] = stream[q + i] /\ q + i \in 1..Len(stream)
    BY <2>1, <2>2, StreamFacts, SubSeqCells
  <2>4. n \in Nat /\ DOMAIN extra = 1..n
    BY <2>3, LenProperties DEF IsSeq
  <2> QED
    BY <2>3, <2>4, StreamFacts
<1> DEFINE f == FixedPart(p)
<1>4. /\ f.compressed_size = sizes[2] /\ f.data_start = DataStart(p)
      /\ {"uncompressed_size", "compressed_size", "header_start", "large_file",
          "data_start", "name", "method"} \subseteq DOMAIN f
  BY DEF FixedPart
<1> DEFINE m == AesMethod(extra, ParseExtraField(f, extra).method)
<1>5. LocalHeaderToZipFile(p) = [ParseExtraField(f, extra) EXCEPT !.method = m]
  BY DEF LocalHeaderToZipFile
<1> HIDE DEF f, extra, sizes, m
<1>6. ParsedFrom(f, ParseExtraField(f, extra))
  BY <1>1, <1>3, <1>4, ParseKeeps
<1>7. /\ LocalHeaderToZipFile(p).data_start = DataStart(p)
      /\ LocalHeaderToZipFile(p).compressed_size \in Nat
  BY <1>4, <1>5, <1>6 DEF ParsedFrom
<1> QED
  BY <1>1, <1>2, <1>7

-----------------------------------------------------------------------------
(***************************************************************************)
(* Where the headers begin.                                                *)
(***************************************************************************)
\* Where the header behind the one at p begins, as EntryStarts has it.
NextStart(p) ==
    IF ~HeaderWhole(p) THEN p
    ELSE Min({DataStart(p) + LocalHeaderToZipFile(p).compressed_size, Len(stream)})

IsStarts(g, n) ==
    g = [k \in 1..n |-> IF k = 1 THEN 0 ELSE NextStart(g[k - 1])]

LEMMA StartsExist == ASSUME NEW n \in Nat PROVE \E g : IsStarts(g, n)
<1> DEFINE S == {m \in Nat : \E g : IsStarts(g, m)}
<1>1. 0 \in S
  <2> DEFINE g == [k \in 1..0 |-> 0]
  <2>1. IsStarts(g, 0)
    BY DEF IsStarts
  <2> QED
    BY <2>1
<1>2. ASSUME NEW m \in Nat, m \in S PROVE m + 1 \in S
  <2>1. PICK g : IsStarts(g, m)
    BY <1>2
  <2> DEFINE last == IF m = 0 THEN 0 ELSE NextStart(g[m])
             h == [k \in 1..m + 1 |-> IF k = m + 1 THEN last ELSE g[k]]
  <2>2. ASSUME NEW k \in 1..m + 1
        PROVE  h[k] = IF k = 1 THEN 0 ELSE NextStart(h[k - 1])
    <3>1. CASE k = m + 1
      <4>1. h[k] = last /\ (k # 1 => h[k - 1] = g[m]) /\ (k = 1 <=> m = 0)
        BY <3>1
      <4> HIDE DEF h
      <4> QED
        BY <3>1, <4>1
    <3>2. CASE k # m + 1
      <4>1. k \in 1..m /\ h[k] = g[k] /\ (k # 1 => h[k - 1] = g[k - 1])
        BY <3>2
      <4> HIDE DEF h
      <4>2. g[k] = IF k = 1 THEN 0 ELSE NextStart(g[k - 1])
        BY <2>1, <4>1 DEF IsStarts
      <4> QED
        BY <4>1, <4>2
    <3> QED
      BY <3>1, <3>2
  <2>3. h = [k \in 1..m + 1 |-> h[k]]
    OBVIOUS
  <2> HIDE DEF h
  <2>4. IsStarts(h, m + 1)
    BY <2>2, <2>3 DEF IsStarts
  <2> QED
    BY <2>4
<1> HIDE DEF S
<1>3. n \in S
  BY <1>1, <1>2, Induction
<1> QED
  BY <1>3 DEF S

\* EntryStarts is the only such function.
LEMMA StartsAreEntryStarts ==
    ASSUME StreamOK PROVE IsStarts(EntryStarts, Len(stream) + 1)
<1>1. EntryStarts = CHOOSE g : IsStarts(g, Len(stream) + 1)
  BY DEF EntryStarts, IsStarts, NextStart
<1>2. Len(stream) + 1 \in Nat
  BY StreamFacts
<1> QED
  BY <1>1, <1>2, StartsExist, Zenon

\* Nothing but the stream says where they are.
LEMMA StartsStay == ASSUME stream' = stream PROVE EntryStarts' = EntryStarts
BY DEF EntryStarts, HeaderWhole, DataStart, LocalHeaderToZipFile, LocalExtra,
       FixedPart

-----------------------------------------------------------------------------
(***************************************************************************)
(* The position of the stream.                                             *)
(***************************************************************************)
\* The file in the visitor's hands is the entry of the k-th header, which
\* begins where the headers before it say.  Each header takes room, so that
\* there is a k-th place on the stream.
Lent(k) ==
    /\ k \in Nat \ {0}
    /\ LET p == EntryStarts[k] IN
         /\ p \in Nat /\ k <= p + 1 /\ HeaderWhole(p)
         /\ file = LocalHeaderToZipFile(p)

Lending ==
    /\ phase = "header" => Len(visited) <= pos
    /\ phase = "visit" => Lent(Len(visited) + 1)
    /\ phase = "drop" => Lent(Len(visited))

PositionInv == StreamOK /\ VisitedIsSeq /\ TypeOK /\ Positioned /\ Lending

LEMMA LentFacts ==
    ASSUME StreamOK, NEW k, Lent(k)
    PROVE  /\ k \in 1..Len(stream) /\ EntryStarts[k] < file.data_start
           /\ file.data_start \in Nat /\ file.data_start <= Len(stream)
           /\ file.compressed_size \in Nat
           /\ EntryStarts[k + 1] =
                Min({file.data_start + file.compressed_size, Len(stream)})
<1> DEFINE p == EntryStarts[k]
<1>1. p \in Nat /\ HeaderWhole(p) /\ file = LocalHeaderToZipFile(p)
      /\ k \in Nat \ {0} /\ k <= p + 1
  BY DEF Lent
<1> HIDE DEF p
<1>2. /\ p < file.data_start /\ file.data_start <= Len(stream)
      /\ file.data_start \in Nat /\ file.compressed_size \in Nat
      /\ file.data_start = DataStart(p)
  BY <1>1, HeaderFacts
<1>3. k \in 1..Len(stream) /\ k + 1 \in 1..Len(stream) + 1 /\ k + 1 # 1
      /\ k + 1 - 1 = k
  BY <1>1, <1>2, StreamFacts
<1>4. EntryStarts[k + 1] = NextStart(EntryStarts[k + 1 - 1])
  BY <1>3, StartsAreEntryStarts DEF IsStarts
<1>5. EntryStarts[k + 1] = NextStart(p)
  BY <1>3, <1>4 DEF p
<1>6. NextStart(p) = Min({file.data_start + file.compressed_size, Len(stream)})
  BY <1>1, <1>2 DEF NextStart
<1> QED
  BY <1>2, <1>3, <1>5, <1>6 DEF p

\* The same file stays lent.
LEMMA LentStays ==
    ASSUME UNCHANGED <<stream, file>>, NEW k, Lent(k) PROVE Lent(k)'
BY StartsStay DEF Lent, HeaderWhole, LocalHeaderToZipFile, LocalExtra, FixedPart, DataStart

\* The entry of the header at the k-th place is lent.
LEMMA LentNow ==
    ASSUME stream' = stream, NEW k \in Nat \ {0}, NEW p \in Nat, k <= p + 1,
           EntryStarts[k] = p, HeaderWhole(p), file' = LocalHeaderToZipFile(p)
    PROVE  Lent(k)'
BY StartsStay DEF Lent, HeaderWhole, LocalHeaderToZipFile, LocalExtra, FixedPart, DataStart

\* What the Take lets through stays within the entry and the stream.
LEMMA AvailableFacts ==
    ASSUME StreamOK, TypeOK, phase \in {"visit", "drop"},
           file.data_start \in Nat, file.compressed_size \in Nat
    PROVE  /\ Available(file) \in Nat
           /\ pos + Available(file) =
                Min({file.data_start + file.compressed_size, Len(stream)})
           /\ \A m \in 0..Available(file) :
                /\ pos + m \in 0..Len(stream)
                /\ pos + m \in file.data_start..file.data_start + file.compressed_size
<1> DEFINE a == file.data_start + file.compressed_size
           e == Min({a, Len(stream)})
<1>1. /\ pos \in 0..Len(stream) /\ pos \in file.data_start..a
      /\ a \in Int /\ Len(stream) \in Int /\ file.data_start \in Int
  BY StreamFacts DEF TypeOK
<1>2. Available(file) = e - pos
  BY DEF Available
<1> HIDE DEF a
<1>3. e = IF a <= Len(stream) THEN a ELSE Len(stream)
  BY <1>1, MinOfTwo
<1> HIDE DEF e
<1>4. e \in Int /\ pos <= e /\ e <= a /\ e <= Len(stream) /\ pos \in Int
  BY <1>1, <1>3
<1> DEFINE n == Available(file)
<1>5. n \in Nat /\ pos + n = e
  BY <1>2, <1>4
<1> HIDE DEF n
<1>6. ASSUME NEW m \in 0..n
      PROVE  pos + m \in 0..Len(stream) /\ pos + m \in file.data_start..a
  BY <1>1, <1>4, <1>5
<1> QED
  BY <1>5, <1>6 DEF a, e, n

LEMMA InitPosition == Init => PositionInv
<1> SUFFICES ASSUME Init PROVE PositionInv
  OBVIOUS
<1>1. /\ StreamOK /\ phase = "header" /\ pos = 0 /\ visited = << >>
      /\ seen = "nothing" /\ verdict = "ok" /\ faults = 0
      /\ signature_read \in BOOLEAN
  BY DEF Init, StreamOK
<1>2. VisitedIsSeq /\ Len(visited) = 0
  BY <1>1, EmptyIsSeq DEF VisitedIsSeq
<1>3. TypeOK
  BY <1>1, StreamFacts, StreamBoundsAssumption DEF TypeOK
<1>4. EntryStarts[1] = 0
  <2>1. 1 \in 1..Len(stream) + 1
    BY <1>1, StreamFacts
  <2> QED
    BY <1>1, <2>1, StartsAreEntryStarts DEF IsStarts
<1>5. Positioned
  BY <1>1, <1>2, <1>4 DEF Positioned
<1>6. Lending
  BY <1>1, <1>2 DEF Lending
<1> QED
  BY <1>1, <1>2, <1>3, <1>5, <1>6 DEF PositionInv

\* A header is read where one begins.
LEMMA LendFilePosition == ASSUME PositionInv, LendFile PROVE PositionInv'
<1>1. /\ phase = "header" /\ HeaderWhole(pos) /\ file' = LocalHeaderToZipFile(pos)
      /\ pos' = DataStart(pos) /\ phase' = "visit" /\ seen' = "nothing"
      /\ UNCHANGED <<stream, signature_read, verdict, visited, faults>>
  BY DEF LendFile, historyVars
<1>2. /\ StreamOK /\ VisitedIsSeq /\ TypeOK /\ Len(visited) <= pos
      /\ pos = EntryStarts[Len(visited) + 1]
  BY <1>1 DEF PositionInv, Positioned, Lending
<1>3. pos \in Nat /\ Len(visited) \in Nat
  BY <1>2, LenIsNat, StreamFacts DEF TypeOK, VisitedIsSeq
<1>4. /\ pos' \in Nat /\ pos' <= Len(stream) /\ file'.data_start = pos'
      /\ file'.compressed_size \in Nat
  BY <1>1, <1>2, <1>3, HeaderFacts
<1>5. TypeOK'
  BY <1>1, <1>2, <1>4, StreamFacts DEF TypeOK, Ended
<1>6. Lent(Len(visited) + 1)'
  <2> DEFINE k == Len(visited) + 1
  <2>1. k \in Nat \ {0} /\ k <= pos + 1
    BY <1>2, <1>3
  <2>2. k' = k
    BY <1>1
  <2>3. EntryStarts[k] = pos
    BY <1>2
  <2> HIDE DEF k
  <2>4. \A j : j = k => Lent(j)'
    BY <1>1, <1>3, <2>1, <2>3, LentNow
  <2> QED
    BY <2>2, <2>4 DEF k
<1> QED
  BY <1>1, <1>2, <1>5, <1>6 DEF PositionInv, StreamOK, VisitedIsSeq, Positioned,
                              Lending

\* What the invariant says while a file is read or dropped.
LEMMA OpenFacts ==
    ASSUME PositionInv, phase \in {"visit", "drop"}
    PROVE  /\ StreamOK /\ VisitedIsSeq /\ TypeOK /\ Len(visited) \in Nat
           /\ phase = "visit" => Lent(Len(visited) + 1)
           /\ phase = "drop" => Lent(Len(visited))
           /\ file.data_start \in Nat /\ file.compressed_size \in Nat
<1>1. /\ StreamOK /\ VisitedIsSeq /\ TypeOK /\ Len(visited) \in Nat
      /\ phase = "visit" => Lent(Len(visited) + 1)
      /\ phase = "drop" => Lent(Len(visited))
  BY LenIsNat DEF PositionInv, VisitedIsSeq, Lending
<1>2. \E k : Lent(k)
  BY <1>1
<1> QED
  BY <1>1, <1>2, LentFacts

\* Consuming a part of what there is of the file keeps the invariant.
LEMMA ConsumeKeeps ==
    ASSUME PositionInv, phase \in {"visit", "drop"},
           NEW m \in 0..Available(file), pos' = pos + m,
           UNCHANGED <<stream, signature_read, phase, file, verdict, visited>>,
           seen' \in {"nothing", "data", "end", "error"},
           faults' \in 0..MaxFaults
    PROVE  PositionInv'
<1>1. /\ pos' \in 0..Len(stream)
      /\ pos' \in file.data_start..file.data_start + file.compressed_size
  BY OpenFacts, AvailableFacts
<1>2. TypeOK'
  BY <1>1, OpenFacts DEF TypeOK
<1>3. Lending'
  <2>1. ASSUME phase = "visit" PROVE Lent(Len(visited) + 1)'
    BY <2>1, OpenFacts, LentStays
  <2>2. ASSUME phase = "drop" PROVE Lent(Len(visited))'
    BY <2>2, OpenFacts, LentStays
  <2> QED
    BY <2>1, <2>2 DEF Lending
<1> QED
  BY <1>2, <1>3, OpenFacts DEF PositionInv, StreamOK, VisitedIsSeq, Positioned

LEMMA VisitorReadsPosition == ASSUME PositionInv, VisitorReads PROVE PositionInv'
<1>1. /\ phase = "visit"
      /\ UNCHANGED <<stream, signature_read, phase, file, verdict, visited, faults>>
  BY DEF VisitorReads, historyVars
<1>2. \E m \in 0..Available(file) :
         pos' = pos + m /\ \E new, damaged, end : ReadOutcome(m, new, damaged, end)
  BY DEF VisitorReads
<1>3. seen' \in {"nothing", "data", "end", "error"}
  BY <1>2 DEF ReadOutcome
<1>4. faults' \in 0..MaxFaults
  BY <1>1 DEF PositionInv, TypeOK
<1> QED
  BY <1>1, <1>2, <1>3, <1>4, ConsumeKeeps

LEMMA VisitorReadFailsPosition ==
    ASSUME PositionInv, VisitorReadFails PROVE PositionInv'
<1>1. /\ phase = "visit" /\ seen' = "error"
      /\ faults < MaxFaults /\ faults' = faults + 1
      /\ \E m \in 0..Available(file) : pos' = pos + m
      /\ UNCHANGED <<stream, signature_read, phase, file, verdict, visited>>
  BY DEF VisitorReadFails, historyVars
<1>2. faults' \in 0..MaxFaults
  BY <1>1, StreamBoundsAssumption DEF PositionInv, TypeOK
<1> QED
  BY <1>1, <1>2, ConsumeKeeps

LEMMA DrainPosition == ASSUME PositionInv, Drain PROVE PositionInv'
<1>1. /\ phase = "drop"
      /\ \E k \in 1..Available(file) : pos' = pos + k
      /\ UNCHANGED <<stream, signature_read, phase, file, seen, verdict, visited,
                    faults>>
  BY DEF Drain, historyVars, fileVars
<1>2. /\ \E k \in 0..Available(file) : pos' = pos + k
      /\ seen' \in {"nothing", "data", "end", "error"}
      /\ faults' \in 0..MaxFaults
  BY <1>1 DEF PositionInv, TypeOK
<1> QED
  BY <1>1, <1>2, ConsumeKeeps

\* The file goes into the history.
LEMMA VisitorReturnsPosition ==
    ASSUME PositionInv, VisitorReturns PROVE PositionInv'
<1>1. /\ phase = "visit" /\ phase' = "drop" /\ verdict' \in {"ok", "err", "panic"}
      /\ \E e : visited' = Append(visited, e)
      /\ UNCHANGED <<stream, pos, signature_read, file, seen, faults>>
  BY DEF VisitorReturns, streamVars
<1>2. /\ StreamOK /\ VisitedIsSeq /\ TypeOK /\ Len(visited) \in Nat
      /\ Lent(Len(visited) + 1)
  BY <1>1, OpenFacts
<1>3. VisitedIsSeq' /\ Len(visited') = Len(visited) + 1
  BY <1>1, <1>2, AppendIsSeq, AppendCells DEF VisitedIsSeq
<1>4. TypeOK'
  BY <1>1, <1>2 DEF TypeOK
<1>5. Lending'
  <2> DEFINE k == Len(visited) + 1
  <2>1. Len(visited') = k /\ Lent(k)
    BY <1>2, <1>3
  <2> HIDE DEF k
  <2>2. \A j : j = k => Lent(j)'
    BY <1>1, <2>1, LentStays
  <2> QED
    BY <1>1, <2>1, <2>2 DEF Lending
<1> QED
  BY <1>1, <1>2, <1>3, <1>4, <1>5 DEF PositionInv, StreamOK, Positioned

\* When the file is drained, the stream is where the next header begins.
LEMMA DropFilePosition == ASSUME PositionInv, DropFile PROVE PositionInv'
<1>1. /\ phase = "drop" /\ Available(file) = 0
      /\ phase' = IF verdict = "ok" THEN "header" ELSE verdict
      /\ UNCHANGED <<stream, pos, signature_read, seen, verdict, visited, faults>>
  BY DEF DropFile, Drained, streamVars, fileVars, historyVars
<1>2. /\ StreamOK /\ VisitedIsSeq /\ TypeOK /\ Len(visited) \in Nat
      /\ Lent(Len(visited))
      /\ file.data_start \in Nat /\ file.compressed_size \in Nat
  BY <1>1, OpenFacts
<1>3. pos = Min({file.data_start + file.compressed_size, Len(stream)})
  <2>1. pos + 0 = Min({file.data_start + file.compressed_size, Len(stream)})
    BY <1>1, <1>2, AvailableFacts
  <2> QED
    BY <1>2, <2>1 DEF TypeOK
<1>4. EntryStarts[Len(visited) + 1] = pos
  BY <1>2, <1>3, LentFacts
<1>5. Len(visited) <= pos
  <2>1. /\ Len(visited) <= EntryStarts[Len(visited)] + 1
        /\ EntryStarts[Len(visited)] \in Nat
        /\ EntryStarts[Len(visited)] < file.data_start
    BY <1>2, LentFacts DEF Lent
  <2>2. file.data_start <= pos /\ pos \in Int
    BY <1>1, <1>2 DEF TypeOK
  <2> QED
    BY <1>2, <2>1, <2>2
<1>6. phase' \in Ended \cup {"header"}
  BY <1>1, <1>2 DEF TypeOK, Ended
<1>7. phase' \notin {"visit", "drop"}
  BY <1>6 DEF Ended
<1>8. TypeOK'
  BY <1>1, <1>2, <1>6, <1>7 DEF TypeOK
<1>9. Positioned' /\ Lending'
  BY <1>1, <1>4, <1>5, <1>7, StartsStay DEF Positioned, Lending
<1> QED
  BY <1>1, <1>2, <1>8, <1>9 DEF PositionInv, StreamOK, VisitedIsSeq

\* A step that leaves for the directory, or ends the visit.
LEMMA LeaveKeeps ==
    ASSUME PositionInv, phase' \in Ended \cup {"metadata"},
           UNCHANGED <<stream, seen, verdict, visited>>,
           signature_read' \in BOOLEAN, pos' \in 0..Len(stream),
           faults' \in 0..MaxFaults
    PROVE  PositionInv'
<1>1. phase' \notin {"header", "visit", "drop"}
  BY DEF Ended
<1>2. TypeOK'
  BY <1>1 DEF PositionInv, TypeOK
<1> QED
  BY <1>1, <1>2 DEF PositionInv, StreamOK, VisitedIsSeq, Positioned, Lending

LEMMA ParseDirectoryPosition ==
    ASSUME PositionInv, ParseCentralDirectory PROVE PositionInv'
<1>1. /\ phase' \in {"metadata", "err", "ok"}
      /\ \/ pos' = pos
         \/ CentralHeaderOk(stream, pos) /\ pos' = CentralHeaderEnd(stream, pos)
      /\ UNCHANGED <<stream, signature_read, seen, verdict, visited, faults>>
  BY DEF ParseCentralDirectory, fileVars
<1>2. StreamOK /\ pos \in 0..Len(stream) /\ pos \in Nat
  BY StreamFacts DEF PositionInv, TypeOK
<1>3. ASSUME CentralHeaderOk(stream, pos)
      PROVE  CentralHeaderEnd(stream, pos) \in 0..Len(stream)
  <2> DEFINE c == At(stream, pos)
  <2>1. c[1] = "central" /\ CentralHeaderEnd(stream, pos) <= Len(stream)
    BY <1>3 DEF CentralHeaderOk
  <2>2. IsCell(c)
    BY <1>2, <2>1, AtIsCell
  <2>3. CentralHeaderEnd(stream, pos) = pos + 1 + c[2].extra_len + c[2].comment_len
    BY DEF CentralHeaderEnd
  <2> HIDE DEF c
  <2>4. c[2].extra_len \in Nat /\ c[2].comment_len \in Nat
    BY <2>1, <2>2 DEF IsCell
  <2> QED
    BY <1>2, <2>1, <2>3, <2>4, StreamFacts
<1>4. pos' \in 0..Len(stream)
  BY <1>1, <1>2, <1>3
<1>5. signature_read' \in BOOLEAN /\ faults' \in 0..MaxFaults
  BY <1>1 DEF PositionInv, TypeOK
<1> QED
  BY <1>1, <1>4, <1>5, LeaveKeeps DEF Ended

LEMMA NextPosition == PositionInv /\ [Next]_vars => PositionInv'
<1> SUFFICES ASSUME PositionInv, [Next]_vars PROVE PositionInv'
  OBVIOUS
<1> USE DEF streamVars, fileVars, historyVars
<1>1. CASE LendFile
  BY <1>1, LendFilePosition
<1>2. CASE VisitorReads
  BY <1>2, VisitorReadsPosition
<1>3. CASE VisitorReadFails
  BY <1>3, VisitorReadFailsPosition
<1>4. CASE VisitorReturns
  BY <1>4, VisitorReturnsPosition
<1>5. CASE Drain
  BY <1>5, DrainPosition
<1>6. CASE DropFile
  BY <1>6, DropFilePosition
<1>7. CASE ParseCentralDirectory
  BY <1>7, ParseDirectoryPosition
<1>8. CASE NoReader \/ RefuseFile \/ ReachDirectory \/ HeaderReadFails \/ DrainPanics
  <2>1. /\ phase' \in {"err", "metadata", "abort", "panic"}
        /\ UNCHANGED <<stream, pos, seen, verdict, visited>>
    BY <1>8 DEF NoReader, RefuseFile, ReachDirectory, HeaderReadFails, DrainPanics
  <2>2. UNCHANGED faults \/ (faults < MaxFaults /\ faults' = faults + 1)
    BY <1>8 DEF NoReader, RefuseFile, ReachDirectory, HeaderReadFails, DrainPanics
  <2>3. signature_read' \in BOOLEAN
    <3>1. UNCHANGED signature_read \/ signature_read' = TRUE
      BY <1>8, Zenon DEF NoReader, RefuseFile, ReachDirectory, HeaderReadFails, DrainPanics
    <3>2. signature_read \in BOOLEAN
      BY DEF PositionInv, TypeOK
    <3> QED
      BY <3>1, <3>2
  <2>4. pos' \in 0..Len(stream)
    BY <2>1 DEF PositionInv, TypeOK
  <2>5. faults' \in 0..MaxFaults
    <3>1. faults \in 0..MaxFaults
      BY DEF PositionInv, TypeOK
    <3> QED
      BY <2>2, <3>1, StreamBoundsAssumption
  <2> QED
    BY <2>1, <2>3, <2>4, <2>5, LeaveKeeps DEF Ended
<1>9. CASE UNCHANGED vars
  <2>1. UNCHANGED <<stream, pos, signature_read, phase, file, seen, verdict,
                    visited, faults>>
    BY <1>9 DEF vars
  <2>2. TypeOK' /\ Positioned'
    BY <2>1, StartsStay DEF PositionInv, TypeOK, Positioned
  <2>3. Lending'
    <3>1. ASSUME phase = "visit" PROVE Lent(Len(visited) + 1)'
      BY <2>1, <3>1, OpenFacts, LentStays
    <3>2. ASSUME phase = "drop" PROVE Lent(Len(visited))'
      BY <2>1, <3>2, OpenFacts, LentStays
    <3> QED
      BY <2>1, <3>1, <3>2 DEF PositionInv, Lending
  <2> QED
    BY <2>1, <2>2, <2>3 DEF PositionInv, StreamOK, VisitedIsSeq
<1> QED
  BY <1>1, <1>2, <1>3, <1>4, <1>5, <1>6, <1>7, <1>8, <1>9 DEF Next

\* Where the stream is between the calls of the visitor, and which file it has
\* in hand, is never anything else.
THEOREM PositionInvariance == Spec => []PositionInv
BY InitPosition, NextPosition, PTL DEF Spec

\* The control state of visit is well formed, and the stream is never consumed
\* past its end or past the entry that is lent (read.rs 984-1128).
THEOREM VisitIsTypeCorrect == Spec => []TypeOK
<1>1. PositionInv => TypeOK
  BY DEF PositionInv
<1> QED
  BY <1>1, PositionInvariance, PTL

\* However much of a file a visitor reads, in pieces of whatever size, however
\* far its decoder reads ahead and whatever fails, the next header is read
\* where the headers before it say that it begins (read.rs 984-1128,
\* read/stream.rs 43-55).
THEOREM VisitFindsHeaders == Spec => []Positioned
<1>1. PositionInv => Positioned
  BY DEF PositionInv
<1> QED
  BY <1>1, PositionInvariance, PTL

-----------------------------------------------------------------------------
(***************************************************************************)
(* What the visitor saw, and what the central directory says.              *)
(***************************************************************************)
\* Max() and Min() of the offsets that a search found.
LEMMA LastFound ==
    ASSUME NEW n \in Nat, NEW S, S \subseteq 0..n - 1, S # {}
    PROVE  Max(S) \in S
<1> DEFINE T == {n - s : s \in S}
<1>1. T \subseteq Nat /\ T # {}
  OBVIOUS
<1> HIDE DEF T
<1>2. PICK m \in T : m \in Nat /\ \A t \in T : t \in Nat /\ m <= t
  BY <1>1, SmallestNat
<1>3. PICK s \in S : m = n - s
  BY <1>2 DEF T
<1>4. \A x \in S : s >= x
  <2> SUFFICES ASSUME NEW x \in S PROVE s >= x
    OBVIOUS
  <2>1. m <= n - x /\ x \in Int /\ s \in Int
    BY <1>2 DEF T
  <2> QED
    BY <1>3, <2>1
<1> QED
  BY <1>3, <1>4 DEF Max

LEMMA FirstFound ==
    ASSUME NEW S, S \subseteq Nat, S # {} PROVE Min(S) \in S
BY SmallestNat DEF Min

\* The number of files comes from an end record of the stream.
LEMMA FilesAreCounted ==
    ASSUME StreamOK, GetDirectoryCounts(stream).ok
    PROVE  GetDirectoryCounts(stream).nfiles \in Nat
<1> DEFINE cde     == Max(EndOffsets(stream))
           footer  == At(stream, cde)
           locator == At(stream, Len(stream) - 2 - footer[5])
           found   == End64Offsets(stream, locator[2], cde - 2)
           end64   == Min(found)
<1>1. EndOffsets(stream) # {}
  BY DEF GetDirectoryCounts, NoDirectory
<1>2. \/ GetDirectoryCounts(stream).nfiles = footer[2]
      \/ /\ locator[1] = "loc64" /\ found # {}
         /\ GetDirectoryCounts(stream).nfiles = At(stream, end64)[2]
  BY <1>1 DEF GetDirectoryCounts, NoDirectory
<1>3. cde \in Nat /\ footer[1] = "end"
  <2>1. EndOffsets(stream) \subseteq 0..Len(stream) - 1
    <3> DEFINE back == Len(stream) - 1 - ZIP64_ENTRY_THR
    <3>1. back \in Int
      BY StreamFacts, EntryThrAssumption
    <3> HIDE DEF back
    <3>2. Max({0, back}) >= 0 /\ Max({0, back}) \in Int
      <4>1. \A x \in {0, back} : x \in Int
        BY <3>1
      <4>2. \E x \in {0, back} : \A y \in {0, back} : x >= y
        BY <3>1
      <4>3. Max({0, back}) \in {0, back} /\ \A y \in {0, back} : Max({0, back}) >= y
        BY <4>2, Zenon DEF Max
      <4> QED
        BY <4>1, <4>3
    <3>3. EndOffsets(stream) \subseteq Max({0, back})..Len(stream) - 1
      BY DEF EndOffsets, back
    <3> HIDE DEF back
    <3>4. Len(stream) \in Nat
      BY StreamFacts
    <3> DEFINE low == Max({0, back})
    <3> HIDE DEF low
    <3>5. low >= 0 /\ low \in Int /\ EndOffsets(stream) \subseteq low..Len(stream) - 1
      BY <3>2, <3>3 DEF low
    <3> QED
      BY <3>4, <3>5
  <2>2. cde \in EndOffsets(stream)
    BY <1>1, <2>1, StreamFacts, LastFound
  <2> HIDE DEF cde
  <2>3. cde \in 0..Len(stream) - 1 /\ stream[cde + 1][1] = "end"
    BY <2>1, <2>2 DEF EndOffsets
  <2> QED
    BY <2>3, StreamFacts DEF At
<1> HIDE DEF cde
<1>4. IsCell(footer)
  BY <1>3, AtIsCell
<1> HIDE DEF footer
<1>5. footer[2] \in Nat /\ footer[5] \in Nat
  BY <1>3, <1>4 DEF IsCell
<1>6. ASSUME locator[1] = "loc64", found # {}
      PROVE  At(stream, end64)[2] \in Nat
  <2> DEFINE p == Len(stream) - 2 - footer[5]
  <2>1. p \in Int
    BY <1>5, StreamFacts
  <2>2. p \in Nat
    <3> SUFFICES ASSUME p < 0 PROVE FALSE
      BY <2>1
    <3> HIDE DEF p
    <3>1. At(stream, p) = <<"hole">>
      BY <2>1 DEF At
    <3>2. At(stream, p)[1] = "loc64"
      BY <1>6 DEF p
    <3> QED
      BY <3>1, <3>2
  <2>3. locator = At(stream, p)
    OBVIOUS
  <2> HIDE DEF p, locator
  <2>4. IsCell(locator)
    BY <1>6, <2>2, <2>3, AtIsCell
  <2>5. locator[2] \in Nat
    BY <1>6, <2>4 DEF IsCell
  <2>6. found \subseteq Nat
    BY <1>3, <2>5 DEF End64Offsets
  <2>7. end64 \in found
    BY <1>6, <2>6, FirstFound
  <2>8. end64 \in Nat /\ At(stream, end64)[1] = "end64"
    BY <2>6, <2>7 DEF End64Offsets
  <2> HIDE DEF end64
  <2>9. IsCell(At(stream, end64))
    BY <2>8, AtIsCell
  <2> QED
    BY <2>8, <2>9 DEF IsCell
<1> QED
  BY <1>2, <1>5, <1>6

\* The files are a vector.
LEMMA FilesAreSeq ==
    ASSUME StreamOK, OpenArchive(stream).ok
    PROVE  Len(OpenArchive(stream).files) \in Nat
<1> DEFINE dir == GetDirectoryCounts(stream)
<1>1. \E F : /\ OpenArchive(stream).files = [k \in 1..dir.nfiles |-> F[k]]
             /\ dir.ok
  <2> DEFINE starts == CHOOSE g : g = [k \in 1..dir.nfiles + 1 |->
               IF k = 1 THEN dir.start
               ELSE IF g[k - 1] >= 0 /\ CentralHeaderOk(stream, g[k - 1])
                 THEN CentralHeaderEnd(stream, g[k - 1]) ELSE -1]
             F == [k \in 1..dir.nfiles |->
                     CentralHeaderToZipFile(stream, starts[k], dir.archive_offset)]
  <2>1. dir.ok /\ OpenArchive(stream).files = F
    BY DEF OpenArchive, NoArchive
  <2>2. F = [k \in 1..dir.nfiles |-> F[k]]
    OBVIOUS
  <2> HIDE DEF F
  <2> QED
    BY <2>1, <2>2
<1>2. dir.nfiles \in Nat
  BY <1>1, FilesAreCounted
<1> HIDE DEF dir
<1> QED
  BY <1>1, <1>2

\* The i-th file the visitor was given, v, is the entry of the i-th header.
IsEntry(v, i) ==
    LET p == EntryStarts[i] IN
    /\ p \in Nat /\ HeaderWhole(p)
    /\ v.name = LocalHeaderToZipFile(p).name
    /\ v.crc32 = LocalHeaderToZipFile(p).crc32

Shown == \A i \in 1..Len(visited) : IsEntry(visited[i], i)

\* The files are at their end where the directory begins.
AtDirectory ==
    phase \in {"metadata", "ok"} =>
        At(stream, EntryStarts[Len(visited) + 1])[1] = "central"

ShownInv == PositionInv /\ Shown /\ AtDirectory

LEMMA InitShown == Init => ShownInv
<1> SUFFICES ASSUME Init PROVE ShownInv
  OBVIOUS
<1>1. PositionInv /\ phase = "header" /\ visited = << >>
  BY InitPosition DEF Init
<1>2. Len(visited) = 0
  BY <1>1, EmptyIsSeq
<1> QED
  BY <1>1, <1>2 DEF ShownInv, Shown, AtDirectory

LEMMA IsEntryStays ==
    ASSUME stream' = stream, NEW v, NEW i, IsEntry(v, i)
    PROVE  \A w, j : w = v /\ j = i => IsEntry(w, j)'
BY StartsStay DEF IsEntry, HeaderWhole, LocalHeaderToZipFile, LocalExtra, FixedPart, DataStart

\* The file the visitor is done with goes into the history.
LEMMA VisitorReturnsShown ==
    ASSUME ShownInv, VisitorReturns PROVE Shown' /\ AtDirectory'
<1> DEFINE n == Len(visited) + 1
           v == [name |-> file.name, crc32 |-> file.crc32,
                 data |-> hasher, seen |-> seen]
<1>1. /\ phase = "visit" /\ phase' = "drop" /\ stream' = stream
      /\ visited' = Append(visited, v)
  BY DEF VisitorReturns, streamVars
<1>2. Shown /\ VisitedIsSeq /\ Len(visited) \in Nat /\ Lent(n)
  BY <1>1, OpenFacts DEF ShownInv
<1>3. v.name = file.name /\ v.crc32 = file.crc32
  OBVIOUS
<1> HIDE DEF v
<1>4. /\ Len(visited') = n /\ visited'[n] = v
      /\ \A i \in 1..Len(visited) : visited'[i] = visited[i]
  BY <1>1, <1>2, AppendCells DEF VisitedIsSeq
<1>5. IsEntry(v, n)
  BY <1>2, <1>3 DEF IsEntry, Lent
<1> HIDE DEF n
<1>6. \A w, j : w = v /\ j = n => IsEntry(w, j)'
  BY <1>1, <1>5, IsEntryStays
<1>7. \A i \in 1..Len(visited) :
        \A w, j : w = visited[i] /\ j = i => IsEntry(w, j)'
  BY <1>1, <1>2, IsEntryStays DEF Shown
<1>8. ASSUME NEW i \in 1..n PROVE IsEntry(visited[i], i)'
  BY <1>2, <1>4, <1>6, <1>7 DEF n
<1>9. Shown'
  BY <1>4, <1>8 DEF Shown
<1> QED
  BY <1>1, <1>9 DEF AtDirectory

LEMMA NextShown == ShownInv /\ [Next]_vars => ShownInv'
<1> SUFFICES ASSUME ShownInv, [Next]_vars PROVE ShownInv'
  OBVIOUS
<1> USE DEF streamVars, fileVars, historyVars
<1>1. PositionInv'
  BY NextPosition DEF ShownInv
<1>2. ASSUME stream' = stream, visited' = visited PROVE Shown'
  <2>1. \A i \in 1..Len(visited) :
          \A w, j : w = visited[i] /\ j = i => IsEntry(w, j)'
    BY <1>2, IsEntryStays DEF ShownInv, Shown
  <2> QED
    BY <1>2, <2>1 DEF Shown
<1>3. ASSUME UNCHANGED <<stream, visited>>,
             phase' \notin {"metadata", "ok"} \/ phase \in {"metadata", "ok"}
      PROVE  ShownInv'
  BY <1>1, <1>2, <1>3, StartsStay DEF ShownInv, AtDirectory
<1>4. CASE VisitorReturns
  BY <1>1, <1>4, VisitorReturnsShown DEF ShownInv
<1>5. CASE ReachDirectory
  <2>1. /\ phase = "header" /\ At(stream, pos)[1] = "central"
        /\ UNCHANGED <<stream, visited>>
    BY <1>5 DEF ReachDirectory
  <2>2. pos = EntryStarts[Len(visited) + 1]
    BY <2>1 DEF ShownInv, PositionInv, Positioned
  <2> QED
    BY <1>1, <1>2, <2>1, <2>2, StartsStay DEF ShownInv, AtDirectory
<1>6. CASE DropFile
  <2>1. /\ UNCHANGED <<stream, visited>>
        /\ phase' = IF verdict = "ok" THEN "header" ELSE verdict
    BY <1>6 DEF DropFile
  <2>2. verdict \in {"ok", "err", "panic"}
    BY DEF ShownInv, PositionInv, TypeOK
  <2> QED
    BY <1>3, <2>1, <2>2
<1>7. CASE ParseCentralDirectory
  BY <1>3, <1>7 DEF ParseCentralDirectory
<1>8. CASE LendFile \/ NoReader \/ RefuseFile \/ HeaderReadFails \/ VisitorReads
           \/ VisitorReadFails \/ Drain \/ DrainPanics
  <2>1. UNCHANGED <<stream, visited>>
    BY <1>8 DEF LendFile, NoReader, RefuseFile, HeaderReadFails, VisitorReads,
                VisitorReadFails, Drain, DrainPanics
  <2>2. phase' \in {"visit", "err", "drop", "panic", "abort"}
    BY <1>8 DEF LendFile, NoReader, RefuseFile, HeaderReadFails, VisitorReads,
                VisitorReadFails, Drain, DrainPanics
  <2> QED
    BY <1>3, <2>1, <2>2
<1>9. CASE UNCHANGED vars
  BY <1>3, <1>9 DEF vars
<1> QED
  BY <1>4, <1>5, <1>6, <1>7, <1>8, <1>9 DEF Next

\* Where the directory says that the data of the i-th file ends.
HeaderAfter(fs, i) ==
    IF i = 0 THEN 0 ELSE DataStart(fs[i].header_start) + fs[i].compressed_size

\* What a reader that cannot seek must count on: the files stand one behind the
\* other from the start of the stream, in the order of the directory, nothing
\* that looks like a file stands behind the last, and each local header has
\* the name, checksum and compressed size of its central header.
Packed ==
    LET fs == OpenArchive(stream).files IN
    /\ \A i \in 1..Len(fs) :
         LET local == LocalHeaderToZipFile(fs[i].header_start) IN
         /\ fs[i].header_start = HeaderAfter(fs, i - 1)
         /\ HeaderWhole(fs[i].header_start)
         /\ local.name = fs[i].name /\ local.crc32 = fs[i].crc32
         /\ local.compressed_size = fs[i].compressed_size
    /\ At(stream, HeaderAfter(fs, Len(fs)))[1] # "local"

\* The place behind the file of the i-th header.
LEMMA NextPlace ==
    ASSUME StreamOK, NEW i \in Nat \ {0}, EntryStarts[i] \in Nat,
           i <= EntryStarts[i] + 1, HeaderWhole(EntryStarts[i])
    PROVE  LET p == EntryStarts[i]
               q == DataStart(p) + LocalHeaderToZipFile(p).compressed_size
           IN  /\ q \in Nat /\ p < q
               /\ EntryStarts[i + 1] = IF q <= Len(stream) THEN q ELSE Len(stream)
<1> DEFINE p == EntryStarts[i]
           q == DataStart(p) + LocalHeaderToZipFile(p).compressed_size
<1>1. /\ DataStart(p) \in Nat /\ p < DataStart(p) /\ DataStart(p) <= Len(stream)
      /\ LocalHeaderToZipFile(p).compressed_size \in Nat
  BY HeaderFacts
<1>2. i + 1 \in 1..Len(stream) + 1 /\ i + 1 # 1 /\ i + 1 - 1 = i
  BY <1>1, StreamFacts
<1>3. EntryStarts[i + 1] = NextStart(EntryStarts[i + 1 - 1])
  BY <1>2, StartsAreEntryStarts DEF IsStarts
<1>4. EntryStarts[i + 1] = Min({q, Len(stream)})
  BY <1>2, <1>3 DEF NextStart
<1>5. q \in Nat /\ p < q
  BY <1>1
<1> HIDE DEF p, q
<1>6. Min({q, Len(stream)}) = IF q <= Len(stream) THEN q ELSE Len(stream)
  BY <1>5, MinOfTwo, StreamFacts
<1> QED
  BY <1>4, <1>5, <1>6 DEF p, q

\* Going by the headers alone finds the files of the directory.
LEMMA PackedPlaces ==
    ASSUME StreamOK, OpenArchive(stream).ok, Packed
    PROVE  LET fs == OpenArchive(stream).files IN
           /\ \A i \in 1..Len(fs) : EntryStarts[i] = fs[i].header_start
           /\ At(stream, EntryStarts[Len(fs) + 1])[1] # "local"
<1> DEFINE fs == OpenArchive(stream).files
           n == Len(fs)
           Placed(i) == /\ EntryStarts[i] \in Nat /\ i <= EntryStarts[i] + 1
                        /\ EntryStarts[i] = fs[i].header_start
           Behind(i) ==
             EntryStarts[i + 1] = IF HeaderAfter(fs, i) <= Len(stream)
                                  THEN HeaderAfter(fs, i) ELSE Len(stream)
           S == {i \in Nat : i <= n =>
                   /\ i # 0 => Placed(i)
                   /\ HeaderAfter(fs, i) \in Nat /\ i <= HeaderAfter(fs, i)
                   /\ Behind(i)}
<1>1. n \in Nat /\ Len(stream) \in Nat
  BY FilesAreSeq, StreamFacts
<1>2. ASSUME NEW i \in 1..n
      PROVE  /\ fs[i].header_start = HeaderAfter(fs, i - 1)
             /\ HeaderWhole(fs[i].header_start)
             /\ LocalHeaderToZipFile(fs[i].header_start).compressed_size
                  = fs[i].compressed_size
  BY DEF Packed
<1>3. At(stream, HeaderAfter(fs, n))[1] # "local"
  BY DEF Packed
<1> HIDE DEF fs, n
<1>4. 0 \in S
  <2>1. EntryStarts[1] = 0
    BY <1>1, StartsAreEntryStarts DEF IsStarts
  <2>2. HeaderAfter(fs, 0) = 0
    BY DEF HeaderAfter
  <2> QED
    BY <1>1, <2>1, <2>2
<1>5. ASSUME NEW m \in Nat, m \in S PROVE m + 1 \in S
  <2> SUFFICES ASSUME m + 1 <= n
               PROVE  /\ Placed(m + 1) /\ HeaderAfter(fs, m + 1) \in Nat
                      /\ m + 1 <= HeaderAfter(fs, m + 1) /\ Behind(m + 1)
    OBVIOUS
  <2> DEFINE i == m + 1
             p == HeaderAfter(fs, m)
  <2>1. i \in 1..n /\ i \in Nat \ {0} /\ i - 1 = m
    BY <1>1
  <2>2. p \in Nat /\ m <= p /\ Behind(m)
    BY <1>1, <1>5, <2>1
  <2>3. /\ fs[i].header_start = p /\ HeaderWhole(p)
        /\ LocalHeaderToZipFile(p).compressed_size = fs[i].compressed_size
    BY <1>2, <2>1
  <2> HIDE DEF p
  <2>4. p <= Len(stream)
    BY <1>1, <2>2, <2>3, HeaderFacts
  <2>5. EntryStarts[i] = p
    BY <2>2, <2>4 DEF p
  <2>6. Placed(i)
    BY <2>1, <2>2, <2>3, <2>5
  <2> DEFINE q == DataStart(p) + LocalHeaderToZipFile(p).compressed_size
  <2> HIDE DEF i
  <2>7. /\ q \in Nat /\ p < q
        /\ EntryStarts[i + 1] = IF q <= Len(stream) THEN q ELSE Len(stream)
    BY <2>1, <2>3, <2>5, <2>6, NextPlace
  <2>8. HeaderAfter(fs, i) = q
    BY <2>1, <2>3 DEF HeaderAfter
  <2> HIDE DEF q
  <2>9. i <= q
    BY <2>2, <2>7 DEF i
  <2> QED
    BY <2>6, <2>7, <2>8, <2>9 DEF i
<1>6. \A i \in Nat : i \in S
  <2> HIDE DEF S
  <2> QED
    BY <1>4, <1>5, Induction
<1>7. ASSUME NEW i \in 1..n PROVE EntryStarts[i] = fs[i].header_start
  BY <1>1, <1>6
<1>8. At(stream, EntryStarts[n + 1])[1] # "local"
  <2>1. HeaderAfter(fs, n) \in Nat /\ Behind(n)
    BY <1>1, <1>6
  <2>2. CASE HeaderAfter(fs, n) <= Len(stream)
    BY <1>3, <2>1, <2>2
  <2>3. CASE ~(HeaderAfter(fs, n) <= Len(stream))
    <3>1. EntryStarts[n + 1] = Len(stream)
      BY <2>1, <2>3
    <3>2. At(stream, Len(stream)) = <<"hole">>
      BY <1>1 DEF At
    <3> QED
      BY <3>1, <3>2
  <2> QED
    BY <2>2, <2>3
<1> QED
  BY <1>7, <1>8 DEF fs, n

\* An entry that ZipArchive reads is what its checksum says.
LEMMA ReadIsVerified ==
    ASSUME NEW disk, NEW f, ReadEntry(disk, f).ok
    PROVE  ReadEntry(disk, f).data = f.crc32
BY DEF ReadEntry, NoContent

\* A visit that ends well has shown what the directory lists.
LEMMA PackedAgrees ==
    ASSUME ShownInv, EndIsVerified, Packed PROVE AgreesWithDirectory
<1> SUFFICES ASSUME phase = "ok", OpenArchive(stream).ok
             PROVE  AgreesWithDirectory
  BY DEF AgreesWithDirectory
<1> DEFINE fs == OpenArchive(stream).files
           n == Len(fs)
<1>1. /\ StreamOK /\ n \in Nat /\ Len(visited) \in Nat
      /\ Shown /\ At(stream, EntryStarts[Len(visited) + 1])[1] = "central"
  BY FilesAreSeq, LenIsNat DEF ShownInv, PositionInv, VisitedIsSeq, AtDirectory
<1>2. /\ \A i \in 1..n : EntryStarts[i] = fs[i].header_start
      /\ At(stream, EntryStarts[n + 1])[1] # "local"
  BY <1>1, PackedPlaces
<1>3. \A i \in 1..n :
        /\ HeaderWhole(EntryStarts[i])
        /\ LocalHeaderToZipFile(EntryStarts[i]).name = fs[i].name
        /\ LocalHeaderToZipFile(EntryStarts[i]).crc32 = fs[i].crc32
  BY <1>2 DEF Packed
<1>4. \A i \in 1..Len(visited) : IsEntry(visited[i], i)
  BY <1>1 DEF Shown
<1> HIDE DEF fs
<1>5. ~(Len(visited) < n)
  <2> SUFFICES ASSUME Len(visited) < n PROVE FALSE
    OBVIOUS
  <2>1. HeaderWhole(EntryStarts[Len(visited) + 1])
    BY <1>1, <1>3
  <2> QED
    BY <1>1, <2>1 DEF HeaderWhole
<1>6. ~(n < Len(visited))
  <2> SUFFICES ASSUME n < Len(visited) PROVE FALSE
    OBVIOUS
  <2>1. HeaderWhole(EntryStarts[n + 1])
    BY <1>1, <1>4 DEF IsEntry
  <2> QED
    BY <1>2, <2>1 DEF HeaderWhole
<1>7. Len(visited) = n
  BY <1>1, <1>5, <1>6
<1>8. ASSUME NEW i \in 1..n
      PROVE  /\ visited[i].name = fs[i].name
             /\ visited[i].seen = "end" /\ ReadEntry(stream, fs[i]).ok =>
                  visited[i].data = ReadEntry(stream, fs[i]).data
  <2>1. visited[i].name = fs[i].name /\ visited[i].crc32 = fs[i].crc32
    BY <1>3, <1>4, <1>7 DEF IsEntry
  <2>2. visited[i].seen = "end" => visited[i].data = visited[i].crc32
    BY <1>7 DEF EndIsVerified
  <2>3. ReadEntry(stream, fs[i]).ok => ReadEntry(stream, fs[i]).data = fs[i].crc32
    BY ReadIsVerified
  <2> QED
    BY <2>1, <2>2, <2>3
<1> QED
  BY <1>7, <1>8 DEF AgreesWithDirectory, fs

\* On a stream with its files in the order of its directory, a visit that succeeds
\* has shown every file of the central directory, in its order, under its
\* name, and the bytes that ZipArchive reads; it stops neither early nor late
\* (read/stream.rs 43-55, read.rs 984-1128).  On other streams the two
\* readers may differ, as one goes by the local headers.
THEOREM PackedStreamsAgree == Spec => [](Packed => AgreesWithDirectory)
<1>1. Spec => []ShownInv
  BY InitShown, NextShown, PTL DEF Spec
<1>2. ShownInv /\ EndIsVerified => (Packed => AgreesWithDirectory)
  BY PackedAgrees
<1> QED
  BY <1>1, <1>2, EndOfDataIsVerified, PTL
=============================================================================

------------------------ MODULE ZipWriterSink_proofs ------------------------
(***************************************************************************)
(* What ZipWriter does to its sink, for every value of its constants:      *)
(* finished entries stay as they are, what was promised only grows at its  *)
(* end, the local headers are those of the directory, data is aligned as   *)
(* asked, calls do not panic, and the directory is the one a reader finds. *)
(***************************************************************************)
EXTENDS ZipWriter_proofs

-----------------------------------------------------------------------------
(***************************************************************************)
(* One write.                                                              *)
(***************************************************************************)
\* The smaller of two integers.
LEMMA MinOfTwo ==
    ASSUME NEW a \in Int, NEW b \in Int
    PROVE  Min({a, b}) = IF a <= b THEN a ELSE b
BY DEF Min

\* A gap is a vector of holes.
LEMMA HolesFill ==
    ASSUME NEW n \in Int
    PROVE  /\ Holes(n) \in Seq({<<"hole">>})
           /\ Len(Holes(n)) = IF n > 0 THEN n ELSE 0
<1>1. CASE n > 0
  <2> DEFINE h == [i \in 1..n |-> <<"hole">>]
  <2>1. n \in Nat /\ h \in [1..n -> {<<"hole">>}]
    BY <1>1
  <2>2. h \in Seq({<<"hole">>}) /\ DOMAIN h = 1..n
    BY <2>1
  <2> HIDE DEF h
  <2>3. Len(h) = n
    BY <2>1, <2>2, LenProperties
  <2>4. Holes(n) = h
    BY <1>1 DEF Holes, h
  <2> QED
    BY <1>1, <2>2, <2>3, <2>4
<1>2. CASE ~(n > 0)
  BY <1>2 DEF Holes
<1> QED
  BY <1>1, <1>2

\* A concatenation begins with what its first part begins with.
LEMMA ConcatKeeps ==
    ASSUME NEW T, NEW s \in Seq(T), NEW t \in Seq(T),
           NEW m \in Nat, m <= Len(s)
    PROVE  /\ s \o t \in Seq(T)
           /\ Len(s \o t) = Len(s) + Len(t)
           /\ \A i \in 1..m : (s \o t)[i] = s[i]
<1>1. Len(s) \in Nat /\ Len(t) \in Nat
  BY LenProperties
<1>2. /\ s \o t \in Seq(T)
      /\ Len(s \o t) = Len(s) + Len(t)
      /\ \A i \in 1..Len(s) + Len(t) :
            (s \o t)[i] = IF i <= Len(s) THEN s[i] ELSE t[i - Len(s)]
  BY ConcatProperties
<1>3. \A i \in 1..m : i \in 1..Len(s) + Len(t) /\ i <= Len(s)
  BY <1>1
<1> QED
  BY <1>2, <1>3

\* Writing never shortens the file, reaches as far as what is written, and
\* leaves what lies in front alone.
LEMMA WriteAtKeeps ==
    ASSUME NEW d, IsSeq(d), NEW p \in Nat, NEW cells, IsSeq(cells)
    PROVE  /\ IsSeq(WriteAt(d, p, cells))
           /\ Len(WriteAt(d, p, cells)) \in Nat
           /\ Len(d) <= Len(WriteAt(d, p, cells))
           /\ p + Len(cells) <= Len(WriteAt(d, p, cells))
           /\ \A i \in 1..Len(d) : i <= p => WriteAt(d, p, cells)[i] = d[i]
<1> DEFINE T == {d[i] : i \in DOMAIN d} \cup {cells[i] : i \in DOMAIN cells}
                  \cup {<<"hole">>}
           n == Len(cells)
           m == Min({p, Len(d)})
           front == SubSeq(d, 1, m)
           gap == Holes(p - Len(d))
           back == SubSeq(d, p + n + 1, Len(d))
           start == front \o gap
           middle == start \o cells
           after == middle \o back
<1>1. d \in Seq(T) /\ cells \in Seq(T) /\ {<<"hole">>} \subseteq T
  BY DEF IsSeq
<1> HIDE DEF T
<1>2. Len(d) \in Nat /\ n \in Nat
  BY <1>1, LenProperties
<1>3. m = (IF p <= Len(d) THEN p ELSE Len(d)) /\ m \in Nat
  BY <1>2, MinOfTwo
<1>4. \A i \in 1..Len(d) : d[i] \in T
  BY <1>1, ElementOfSeq
<1> HIDE DEF m, n
<1>5. front \in Seq(T) /\ Len(front) = m /\ \A i \in 1..m : front[i] = d[i]
  BY <1>2, <1>3, <1>4, SubSeqProperties
<1>6. /\ gap \in Seq({<<"hole">>})
      /\ Len(gap) = IF p > Len(d) THEN p - Len(d) ELSE 0
  BY <1>2, HolesFill
<1>7. gap \in Seq(T)
  BY <1>1, <1>6, SeqMonotonic
<1>8. back \in Seq(T) /\ Len(back) \in Nat
      /\ Len(d) <= p + n + Len(back)
  <2>1. p + n + 1 \in Int /\ \A i \in p + n + 1..Len(d) : d[i] \in T
    BY <1>2, <1>4
  <2>2. /\ back \in Seq(T)
        /\ Len(back) = IF p + n + 1 <= Len(d) THEN Len(d) - (p + n + 1) + 1 ELSE 0
    BY <1>2, <2>1, SubSeqProperties
  <2>3. CASE p + n + 1 <= Len(d)
    BY <1>2, <2>2, <2>3
  <2>4. CASE ~(p + n + 1 <= Len(d))
    BY <1>2, <2>2, <2>4
  <2> QED
    BY <2>3, <2>4
<1> HIDE DEF front, gap, back
<1>9. start \in Seq(T) /\ Len(start) = p /\ \A i \in 1..m : start[i] = d[i]
  <2>1. m <= Len(front) /\ Len(front) + Len(gap) = p
    <3>1. CASE p <= Len(d)
      BY <1>2, <1>3, <1>5, <1>6, <3>1
    <3>2. CASE ~(p <= Len(d))
      BY <1>2, <1>3, <1>5, <1>6, <3>2
    <3> QED
      BY <3>1, <3>2
  <2> QED
    BY <1>3, <1>5, <1>7, <2>1, ConcatKeeps
<1> HIDE DEF start
<1>10. middle \in Seq(T) /\ Len(middle) = p + n /\ \A i \in 1..m : middle[i] = d[i]
  <2>1. m <= Len(start)
    BY <1>2, <1>3, <1>9
  <2> QED
    <3>1. /\ start \o cells \in Seq(T)
          /\ Len(start \o cells) = Len(start) + Len(cells)
          /\ \A i \in 1..m : (start \o cells)[i] = start[i]
      <4>1. start \in Seq(T) /\ cells \in Seq(T) /\ m \in Nat
        BY <1>1, <1>3, <1>9
      <4> QED
        BY <2>1, <4>1, ConcatKeeps
    <3>2. middle = start \o cells
      OBVIOUS
    <3> HIDE DEF middle
    <3> QED
      BY <1>9, <3>1, <3>2 DEF n
<1> HIDE DEF middle
<1>11. /\ after \in Seq(T) /\ Len(after) = p + n + Len(back)
       /\ \A i \in 1..m : after[i] = d[i]
  <2>1. m <= p /\ Len(middle) \in Nat
    BY <1>2, <1>3, <1>10
  <2>2. m <= Len(middle)
    BY <1>2, <1>3, <1>10, <2>1
  <2>3. /\ after \in Seq(T) /\ Len(after) = Len(middle) + Len(back)
        /\ \A i \in 1..m : after[i] = middle[i]
    BY <1>3, <1>8, <1>10, <2>2, ConcatKeeps
  <2> QED
    BY <1>10, <2>3
<1> HIDE DEF after
<1>12. WriteAt(d, p, cells) = after
  BY DEF WriteAt, after, middle, start, front, gap, back, m, n
<1>13. IsSeq(after)
  BY <1>11, SeqIsSeq
<1>14. Len(after) \in Nat /\ Len(d) <= Len(after) /\ p + n <= Len(after)
  BY <1>2, <1>8, <1>11
<1>15. \A i \in 1..Len(d) : i <= p => after[i] = d[i]
  BY <1>2, <1>3, <1>11
<1> QED
  BY <1>12, <1>13, <1>14, <1>15 DEF n

-----------------------------------------------------------------------------
(***************************************************************************)
(* Traces of the sink that leave its first s cells alone.                  *)
(***************************************************************************)
\* A state of the sink that begins with the first s cells of d and whose
\* position is not among them.
Keeps(d, s, state) ==
    /\ IsSeq(state[1]) /\ Len(state[1]) \in Nat /\ state[2] \in Nat
    /\ s <= Len(state[1]) /\ s <= state[2]
    /\ \A i \in 1..s : state[1][i] = d[i]

KeepingStates(d, s, states) ==
    /\ IsSeq(states)
    /\ \A i \in 1..Len(states) : Keeps(d, s, states[i])

KeepingTrace(d, s, trace) == KeepingStates(d, s, trace) /\ trace # << >>

\* A write behind the first s cells leaves them alone, wherever the position
\* is moved afterwards, as long as it stays behind them.
LEMMA WriteKeeps ==
    ASSUME NEW d, NEW s \in Nat, NEW e, NEW p, Keeps(d, s, <<e, p>>),
           NEW cells, IsSeq(cells),
           NEW at \in Nat, s <= at, NEW next \in Nat, s <= next
    PROVE  Keeps(d, s, <<WriteAt(e, at, cells), next>>)
<1>1. /\ IsSeq(e) /\ Len(e) \in Nat /\ s <= Len(e)
      /\ \A i \in 1..s : e[i] = d[i]
  BY DEF Keeps
<1> DEFINE w == WriteAt(e, at, cells)
<1>2. /\ IsSeq(w) /\ Len(w) \in Nat /\ Len(e) <= Len(w)
      /\ \A i \in 1..Len(e) : i <= at => w[i] = e[i]
  BY <1>1, WriteAtKeeps
<1> HIDE DEF w
<1>3. s <= Len(w)
  BY <1>1, <1>2
<1>4. \A i \in 1..s : w[i] = d[i]
  BY <1>1, <1>2
<1>5. Keeps(d, s, <<w, next>>)
  BY <1>2, <1>3, <1>4 DEF Keeps
<1> QED
  BY <1>5 DEF w

\* The first cells of a vector.
LEMMA PrefixIsSeq ==
    ASSUME NEW cells, IsSeq(cells), NEW n \in 0..Len(cells)
    PROVE  IsSeq(SubSeq(cells, 1, n)) /\ Len(SubSeq(cells, 1, n)) = n
<1> DEFINE T == {cells[i] : i \in DOMAIN cells}
<1>1. cells \in Seq(T)
  BY DEF IsSeq
<1> HIDE DEF T
<1>2. Len(cells) \in Nat /\ \A i \in 1..Len(cells) : cells[i] \in T
  BY <1>1, LenProperties, ElementOfSeq
<1>3. /\ SubSeq(cells, 1, n) \in Seq(T)
      /\ Len(SubSeq(cells, 1, n)) = IF 1 <= n THEN n - 1 + 1 ELSE 0
  BY <1>2, SubSeqProperties
<1>4. Len(SubSeq(cells, 1, n)) = n
  BY <1>2, <1>3
<1> QED
  BY <1>3, <1>4, SeqIsSeq

\* Writing cells one after the other ends with all of them written.
LEMMA WriteTraceEnds ==
    ASSUME NEW e, NEW p \in Nat, NEW cells, IsSeq(cells)
    PROVE  /\ IsSeq(WriteTrace(e, p, cells))
           /\ Len(cells) \in Nat
           /\ Len(WriteTrace(e, p, cells)) = Len(cells) + 1
           /\ WriteTrace(e, p, cells)[Len(cells) + 1]
                = <<WriteAt(e, p, cells), p + Len(cells)>>
<1> DEFINE n == Len(cells)
           trace == WriteTrace(e, p, cells)
           w(i) == WriteAt(e, p, SubSeq(cells, 1, i - 1))
<1>1. n \in Nat /\ SubSeq(cells, 1, n) = cells
  BY LenProperties, SubSeqFull DEF IsSeq
<1>2. trace = [i \in 1..n + 1 |-> <<w(i), p + i - 1>>]
  BY DEF WriteTrace
<1>3. w(n + 1) = WriteAt(e, p, cells) /\ p + (n + 1) - 1 = p + n
  <2>1. (n + 1) - 1 = n /\ p + (n + 1) - 1 = p + n
    BY <1>1
  <2> QED
    BY <1>1, <2>1, Zenon
<1>4. trace[n + 1] = <<w(n + 1), p + (n + 1) - 1>>
  BY <1>1, <1>2
<1> HIDE DEF trace, w, n
<1>5. trace = [i \in 1..n + 1 |-> trace[i]]
  BY <1>2
<1>6. IsSeq(trace) /\ Len(trace) = n + 1
  BY <1>1, <1>5, FunctionIsSeq
<1> QED
  BY <1>1, <1>3, <1>4, <1>6 DEF trace, n

\* Writing cells one after the other behind the first s.
LEMMA WriteTraceKeeps ==
    ASSUME NEW d, NEW s \in Nat, NEW e, NEW p, Keeps(d, s, <<e, p>>),
           NEW cells, IsSeq(cells)
    PROVE  KeepingTrace(d, s, WriteTrace(e, p, cells))
<1> DEFINE n == Len(cells)
           trace == WriteTrace(e, p, cells)
           w(i) == WriteAt(e, p, SubSeq(cells, 1, i - 1))
<1>1. p \in Nat /\ s <= p
  BY DEF Keeps
<1>2. n \in Nat /\ IsSeq(trace) /\ Len(trace) = n + 1
  BY <1>1, WriteTraceEnds
<1>3. trace = [i \in 1..n + 1 |-> <<w(i), p + i - 1>>]
  BY DEF WriteTrace
<1>4. ASSUME NEW i \in 1..n + 1
      PROVE  Keeps(d, s, <<w(i), p + i - 1>>)
  <2>1. i - 1 \in 0..n
    BY <1>2
  <2>2. IsSeq(SubSeq(cells, 1, i - 1))
    BY <2>1, PrefixIsSeq
  <2>3. p + i - 1 \in Nat /\ s <= p + i - 1
    BY <1>1, <1>2
  <2> QED
    BY <1>1, <2>2, <2>3, WriteKeeps
<1> HIDE DEF trace, w, n
<1>5. trace # << >>
  <2>1. Len(trace) # 0
    BY <1>2
  <2> QED
    BY <2>1, EmptyIsSeq
<1>6. \A i \in 1..Len(trace) : Keeps(d, s, trace[i])
  BY <1>2, <1>3, <1>4
<1>7. KeepingTrace(d, s, trace)
  BY <1>2, <1>5, <1>6 DEF KeepingTrace, KeepingStates
<1> QED
  BY <1>7 DEF trace

\* The sink as it is, when its position is behind the first s cells.
LEMMA HereKeeps ==
    ASSUME NEW d, NEW s \in Nat, IsSeq(d), s <= Len(d),
           NEW p \in Nat, s <= p
    PROVE  Keeps(d, s, <<d, p>>)
<1>1. Len(d) \in Nat
  BY LenProperties DEF IsSeq
<1> QED
  BY <1>1 DEF Keeps

\* A trace of one, two or three states.
LEMMA ShortTraceKeeps ==
    ASSUME NEW d, NEW s \in Nat,
           NEW x, Keeps(d, s, x), NEW y, Keeps(d, s, y), NEW z, Keeps(d, s, z)
    PROVE  /\ KeepingTrace(d, s, <<x>>)
           /\ KeepingTrace(d, s, <<x, y>>)
           /\ KeepingTrace(d, s, <<x, y, z>>)
<1> DEFINE T == {x, y, z}
<1>1. \A t \in Seq(T) : t # << >> => KeepingTrace(d, s, t)
  <2> TAKE t \in Seq(T)
  <2>1. IsSeq(t)
    BY SeqIsSeq
  <2>2. \A i \in 1..Len(t) : t[i] \in T
    BY ElementOfSeq
  <2> QED
    BY <2>1, <2>2 DEF KeepingTrace, KeepingStates
<1>2. /\ <<x>> \in Seq(T) /\ <<x, y>> \in Seq(T) /\ <<x, y, z>> \in Seq(T)
      /\ Len(<<x>>) = 1 /\ Len(<<x, y>>) = 2 /\ Len(<<x, y, z>>) = 3
  OBVIOUS
<1>3. <<x>> # << >> /\ <<x, y>> # << >> /\ <<x, y, z>> # << >>
  BY <1>2, EmptyIsSeq
<1> HIDE DEF T
<1> QED
  BY <1>1, <1>2, <1>3

\* One list of states after the other.
LEMMA ConcatTraceKeeps ==
    ASSUME NEW d, NEW s \in Nat, NEW before, NEW after,
           KeepingStates(d, s, before), KeepingStates(d, s, after)
    PROVE  /\ KeepingStates(d, s, before \o after)
           /\ Len(before \o after) = Len(before) + Len(after)
           /\ before # << >> => KeepingTrace(d, s, before \o after)
<1> DEFINE T == {before[i] : i \in DOMAIN before} \cup {after[i] : i \in DOMAIN after}
           both == before \o after
<1>1. before \in Seq(T) /\ after \in Seq(T)
  BY DEF KeepingStates, IsSeq
<1> HIDE DEF T
<1>2. Len(before) \in Nat /\ Len(after) \in Nat /\ (before # << >> => Len(before) # 0)
  BY <1>1, LenProperties, EmptySeq
<1>3. /\ both \in Seq(T) /\ Len(both) = Len(before) + Len(after)
      /\ \A i \in 1..Len(before) + Len(after) :
            both[i] = IF i <= Len(before) THEN before[i] ELSE after[i - Len(before)]
  BY <1>1, ConcatProperties
<1> HIDE DEF both
<1>4. IsSeq(both)
  BY <1>3, SeqIsSeq
<1>5. before # << >> => both # << >>
  <2>1. before # << >> => Len(both) # 0
    BY <1>2, <1>3
  <2> QED
    BY <2>1, EmptyIsSeq
<1>6. ASSUME NEW i \in 1..Len(both)
      PROVE  Keeps(d, s, both[i])
  <2>1. CASE i <= Len(before)
    <3>1. i \in 1..Len(before) /\ both[i] = before[i]
      BY <1>2, <1>3, <2>1
    <3> QED
      BY <3>1 DEF KeepingStates
  <2>2. CASE ~(i <= Len(before))
    <3>1. i - Len(before) \in 1..Len(after) /\ both[i] = after[i - Len(before)]
      BY <1>2, <1>3, <2>2
    <3> QED
      BY <3>1 DEF KeepingStates
  <2> QED
    BY <2>1, <2>2
<1>7. KeepingStates(d, s, both)
  BY <1>4, <1>6 DEF KeepingStates
<1> QED
  BY <1>3, <1>5, <1>7 DEF both, KeepingTrace

\* A trace repeats its last state.
LEMMA StillKeeps ==
    ASSUME NEW d, NEW s \in Nat, NEW trace, KeepingTrace(d, s, trace)
    PROVE  /\ KeepingTrace(d, s, Still(trace))
           /\ Len(trace) \in Nat \ {0} /\ Len(Still(trace)) = Len(trace) + 1
           /\ Still(trace)[Len(trace) + 1] = trace[Len(trace)]
<1> DEFINE last == trace[Len(trace)]
           T == {trace[i] : i \in DOMAIN trace}
<1>1. trace \in Seq(T) /\ trace # << >>
  BY DEF KeepingTrace, KeepingStates, IsSeq
<1>2. Len(trace) \in Nat \ {0} /\ DOMAIN trace = 1..Len(trace)
  BY <1>1, LenProperties, EmptySeq
<1>3. last \in T /\ Keeps(d, s, last)
  BY <1>2 DEF KeepingTrace, KeepingStates
<1> HIDE DEF T
<1>4. /\ Append(trace, last) \in Seq(T)
      /\ Len(Append(trace, last)) = Len(trace) + 1
      /\ Append(trace, last) # << >>
      /\ Append(trace, last)[Len(trace) + 1] = last
      /\ \A i \in 1..Len(trace) : Append(trace, last)[i] = trace[i]
  BY <1>1, <1>3, AppendProperties
<1>5. Still(trace) = Append(trace, last)
  BY DEF Still
<1> HIDE DEF last
<1>6. ASSUME NEW i \in 1..Len(trace) + 1
      PROVE  Keeps(d, s, Append(trace, last)[i])
  <2>1. i \in 1..Len(trace) \/ i = Len(trace) + 1
    BY <1>2
  <2> QED
    BY <1>3, <1>4, <2>1 DEF KeepingTrace, KeepingStates
<1>7. IsSeq(Append(trace, last))
  BY <1>4, SeqIsSeq
<1>8. KeepingTrace(d, s, Append(trace, last))
  BY <1>4, <1>6, <1>7 DEF KeepingTrace, KeepingStates
<1> QED
  BY <1>2, <1>4, <1>5, <1>8 DEF last

\* A stretch of code that succeeds or fails along such a trace.
LEMMA MoveKeeps ==
    ASSUME NEW d, NEW s \in Nat, NEW trace, KeepingTrace(d, s, trace),
           \/ Succeeds(trace)
           \/ \E i \in 1..Len(trace) : FailsAt(trace, i) \/ MoveSink(trace[i])
    PROVE  Keeps(d, s, <<disk', pos'>>)
<1>1. Len(trace) \in 1..Len(trace)
  BY LenProperties, EmptySeq DEF KeepingTrace, KeepingStates, IsSeq
<1>2. \E i \in 1..Len(trace) : MoveSink(trace[i])
  BY <1>1 DEF Succeeds, FailsAt
<1> QED
  BY <1>2 DEF MoveSink, KeepingTrace, KeepingStates, Keeps

-----------------------------------------------------------------------------
(***************************************************************************)
(* The invariant: everything the writer emits is a vector, and the last    *)
(* entry's local header lies in front of the position and in the file.     *)
(***************************************************************************)
BufferOK(w) == "buffer" \in DOMAIN w /\ IsSeq(w.buffer)

CallOK(c) ==
    /\ {"align", "headers", "source"} \subseteq DOMAIN c
    /\ c.align \in Nat /\ c.headers \in Nat
    /\ IsSeq(c.source.cells) /\ IsSeq(c.source.plain)

EntriesOK == \A i \in 1..Len(files) : IsEntry(files[i])

VectorsOK ==
    /\ IsSeq(disk) /\ pos \in Nat /\ IsSeq(comment)
    /\ BufferOK(inner) /\ EntriesOK /\ CallOK(call)

LastFileLocated ==
    files # << >> =>
        /\ LastFile.header_start <= pos
        /\ LastFile.header_start <= Len(disk)
        /\ writing_to_extra_field =>
               /\ LastFile.data_start \in Nat
               /\ LastFile.header_start <= LastFile.data_start

SinkInv == IInv /\ VectorsOK /\ LastFileLocated

\* What must not be written again.
Sealed == IF files = << >> THEN 0 ELSE LastFile.header_start

Preserved == Keeps(disk, Sealed, <<disk', pos'>>)

\* What every step is shown to do.
SinkStep == Preserved /\ VectorsOK' /\ LastFileLocated'

\* The last file of a vector that has one.
LEMMA LastFileIsEntry ==
    ASSUME IsSeq(files), EntriesOK, files # << >>
    PROVE  IsEntry(LastFile) /\ Len(files) \in 1..Len(files)
<1>1. Len(files) \in 1..Len(files)
  BY LenProperties, EmptySeq DEF IsSeq
<1> QED
  BY <1>1 DEF EntriesOK, LastFile

\* What is sealed is in the file and in front of the position.
LEMMA SealedBounds ==
    ASSUME SinkInv
    PROVE  /\ Sealed \in Nat /\ Keeps(disk, Sealed, <<disk, pos>>)
           /\ IsSeq(files) /\ Len(files) \in Nat
<1>1. IsSeq(files) /\ EntriesOK /\ IsSeq(disk) /\ pos \in Nat
  BY DEF SinkInv, IInv, TypeOK, VectorsOK
<1>2. Len(files) \in Nat /\ Len(disk) \in Nat
  BY <1>1, LenProperties DEF IsSeq
<1>3. Sealed \in Nat /\ Sealed <= pos /\ Sealed <= Len(disk)
  BY <1>1, <1>2, LastFileIsEntry DEF Sealed, SinkInv, LastFileLocated, IsEntry
<1> QED
  BY <1>1, <1>2, <1>3, HereKeeps

\* A step that leaves the files and the end of extra data alone.
LEMMA FilesKept ==
    ASSUME SinkInv, Preserved, UNCHANGED files,
           writing_to_extra_field' => writing_to_extra_field,
           IsSeq(comment'), BufferOK(inner'), CallOK(call')
    PROVE  SinkStep
<1>1. IsSeq(disk') /\ pos' \in Nat /\ Sealed <= Len(disk') /\ Sealed <= pos'
  BY DEF Preserved, Keeps
<1>2. VectorsOK'
  BY <1>1 DEF VectorsOK, SinkInv, EntriesOK
<1>3. LastFileLocated'
  BY <1>1 DEF SinkInv, LastFileLocated, Sealed, LastFile
<1> QED
  BY <1>2, <1>3 DEF SinkStep

\* A step that changes the last file's record, but not where it begins.
LEMMA LastFileChanged ==
    ASSUME SinkInv, Preserved, files # << >>,
           NEW f, files' = SetLastFile(f), IsEntry(f),
           f.header_start = LastFile.header_start,
           writing_to_extra_field' => /\ f.data_start \in Nat
                                      /\ f.header_start <= f.data_start,
           IsSeq(comment'), BufferOK(inner'), CallOK(call')
    PROVE  SinkStep
<1>1. IsSeq(disk') /\ pos' \in Nat /\ Sealed <= Len(disk') /\ Sealed <= pos'
  BY DEF Preserved, Keeps
<1>2. /\ IsSeq(files) /\ EntriesOK /\ Len(files) \in 1..Len(files)
  BY LastFileIsEntry, SealedBounds DEF SinkInv, VectorsOK
<1>3. /\ Len(files') = Len(files) /\ files' # << >>
      /\ files'[Len(files)] = f
      /\ \A i \in 1..Len(files) : files'[i] = f \/ files'[i] = files[i]
  <2> DEFINE T == {files[i] : i \in DOMAIN files} \cup {f}
  <2>1. files \in Seq(T) /\ f \in T
    BY <1>2 DEF IsSeq
  <2> HIDE DEF T
  <2>2. /\ Len(SetLastFile(f)) = Len(files)
        /\ \A j \in 1..Len(files) :
              SetLastFile(f)[j] = IF j = Len(files) THEN f ELSE files[j]
    BY <1>2, <2>1, ExceptSeq DEF SetLastFile
  <2>3. SetLastFile(f) # << >>
    BY <1>2, SetLastIsSeq
  <2> QED
    BY <1>2, <2>2, <2>3
<1>4. EntriesOK'
  BY <1>2, <1>3 DEF EntriesOK
<1>5. VectorsOK'
  BY <1>1, <1>4 DEF VectorsOK
<1>6. LastFileLocated'
  BY <1>1, <1>3 DEF LastFileLocated, Sealed, LastFile
<1> QED
  BY <1>5, <1>6 DEF SinkStep

\* A step that leaves the sink alone.
LEMMA SinkUntouched ==
    ASSUME SinkInv, UNCHANGED sinkVars
    PROVE  Preserved
<1>1. disk' = disk /\ pos' = pos
  BY DEF sinkVars
<1> QED
  BY <1>1, SealedBounds DEF Preserved

\* A step that moves the sink along a trace that keeps what is sealed.
LEMMA SinkMoved ==
    ASSUME SinkInv, NEW trace, KeepingTrace(disk, Sealed, trace),
           \/ Succeeds(trace)
           \/ \E i \in 1..Len(trace) : FailsAt(trace, i) \/ MoveSink(trace[i])
    PROVE  Preserved
BY SealedBounds, MoveKeeps DEF Preserved

-----------------------------------------------------------------------------
(***************************************************************************)
(* Calls and writers.                                                      *)
(***************************************************************************)
\* The buffers of the writers of new(), of a lost sink, and of switch_to.
LEMMA BuffersOK ==
    /\ BufferOK(Closed) /\ BufferOK(Plain)
    /\ \A w, method, level :
          BufferOK(w) => BufferOK(SwitchTo(w, method, level))
    /\ \A e : BufferOK([Plain EXCEPT !.encrypted = e])
BY EmptyIsSeq DEF Closed, Plain, SwitchTo, BufferOK

\* What a ZipCryptoWriter keeps of a vector is a vector.
LEMMA KeptIsSeq ==
    ASSUME NEW w, BufferOK(w), NEW cells, IsSeq(cells)
    PROVE  IsSeq(Kept(w, cells))
BY ConcatIsSeq DEF Kept, BufferOK

\* What a compressor holds back is at most one cell.
LEMMA PendingIsSeq ==
    ASSUME NEW w
    PROVE  IsSeq(Pending(w)) /\ \A e : IsSeq(Append(Pending(w), e))
<1>1. IsSeq(Pending(w))
  BY EmptyIsSeq, SingleIsSeq DEF Pending
<1> QED
  BY <1>1, AppendIsSeq

\* A call that copies nothing.
LEMMA NoCallOK == CallOK(NoCall)
BY EmptyIsSeq DEF NoCall, NoSource, CallOK

-----------------------------------------------------------------------------
(***************************************************************************)
(* Every step.  First the calls that begin.                                *)
(***************************************************************************)
\* The beginning of a call touches nothing.
LEMMA BeginSink ==
    ASSUME SinkInv, NEW c, NEW step, CallOK(c), Begin(c, step)
    PROVE  SinkStep
<1>1. UNCHANGED <<sinkVars, files, comment, inner, writing_to_extra_field>>
      /\ call' = c
  BY DEF Begin, dataVars, flagVars
<1>2. Preserved
  BY <1>1, SinkUntouched
<1>3. IsSeq(comment') /\ BufferOK(inner') /\ CallOK(call')
  BY <1>1 DEF SinkInv, VectorsOK
<1> QED
  BY <1>1, <1>2, <1>3, FilesKept

\* start_file, start_file_with_extra_data and start_file_aligned begin.
LEMMA StartFileSink ==
    ASSUME SinkInv, StartFile \/ StartFileWithExtraData \/ StartFileAligned
    PROVE  SinkStep
<1> DEFINE c(op, n, o)    == [NoCall EXCEPT !.op = op, !.name = n, !.options = o]
           k(op, n, o, a) == [NoCall EXCEPT !.op = op, !.name = n, !.options = o,
                                            !.align = a]
<1>1. \/ \E n \in Names, o \in Options : \E op, step : Begin(c(op, n, o), step)
      \/ \E n \in Names, o \in Options, a \in Nat : \E op, step :
            Begin(k(op, n, o, a), step)
  <2>1. \A a \in 0..MaxAlign : a \in Nat
    BY BoundsAssumption
  <2> QED
    BY <2>1 DEF StartFile, StartFileWithExtraData, StartFileAligned, AddEntry
<1>2. \A op, n, o : CallOK(c(op, n, o)) /\ \A a \in Nat : CallOK(k(op, n, o, a))
  BY EmptyIsSeq DEF NoCall, NoSource, CallOK
<1> HIDE DEF c, k
<1> QED
  BY <1>1, <1>2, BeginSink

\* add_directory and add_symlink begin.
LEMMA AddDirectorySink ==
    ASSUME SinkInv, AddDirectory \/ AddSymlink
    PROVE  SinkStep
<1> DEFINE c(n, o)    == [NoCall EXCEPT !.op = "add_directory", !.name = n,
                            !.options = [o EXCEPT !.method = "stored"]]
           k(n, o, b) == [NoCall EXCEPT !.op = "add_symlink", !.name = n,
                            !.options = [o EXCEPT !.method = "stored"],
                            !.cell = b]
<1>1. \/ \E n \in Names, o \in Options : \E step : Begin(c(n, o), step)
      \/ \E n \in Names, o \in Options, b \in Bytes : \E step :
            Begin(k(n, o, b), step)
  BY DEF AddDirectory, AddSymlink, AddEntry
<1>2. \A n, o : CallOK(c(n, o)) /\ \A b : CallOK(k(n, o, b))
  BY EmptyIsSeq DEF NoCall, NoSource, CallOK
<1> HIDE DEF c, k
<1> QED
  BY <1>1, <1>2, BeginSink

\* raw_copy_file begins; its source holds a vector of cells.
LEMMA RawCopyFileSink ==
    ASSUME SinkInv, RawCopyFile
    PROVE  SinkStep
<1> DEFINE c(n, s) == [NoCall EXCEPT !.op = "raw_copy_file", !.name = n,
                                     !.source = s, !.options = RawOptions(s)]
<1>1. PICK n \in Names, s \in Sources : AddEntry(c(n, s))
  BY DEF RawCopyFile
<1>2. CallOK(c(n, s))
  BY VectorsAssumption DEF NoCall, CallOK
<1> HIDE DEF c
<1> QED
  BY <1>1, <1>2, BeginSink DEF AddEntry

\* The other calls that begin, or are over at once.
LEMMA OtherCallsSink ==
    ASSUME SinkInv,
           \/ EndExtraData \/ EndLocalStartCentralExtraData
           \/ Finish \/ SetComment \/ Drop
    PROVE  SinkStep
<1>1. \A op, u : /\ CallOK([NoCall EXCEPT !.op = op])
                 /\ CallOK([NoCall EXCEPT !.op = op, !.unwinding = u])
  BY EmptyIsSeq DEF NoCall, NoSource, CallOK
<1>2. CASE EndExtraData \/ EndLocalStartCentralExtraData \/ Finish
  BY <1>1, <1>2, BeginSink DEF EndExtraData, EndLocalStartCentralExtraData, Finish
<1>3. CASE SetComment \/ Drop
  <2>1. UNCHANGED <<sinkVars, files, inner, writing_to_extra_field>>
    BY <1>3 DEF SetComment, Drop, dataVars, flagVars
  <2>2. IsSeq(comment')
    BY <1>3, VectorsAssumption DEF SetComment, Drop, dataVars, SinkInv, VectorsOK
  <2>3. CallOK(call')
    <3>1. CASE SetComment
      BY <3>1, NoCallOK DEF SetComment
    <3>2. CASE Drop
      BY <1>1, <3>2, Zenon DEF Drop
    <3> QED
      BY <1>3, <3>1, <3>2
  <2>4. Preserved /\ BufferOK(inner')
    BY <2>1, SinkUntouched DEF SinkInv, VectorsOK
  <2> QED
    BY <2>1, <2>2, <2>3, <2>4, FilesKept
<1> QED
  BY <1>2, <1>3

\* Calls that are refused, a panic in end_extra_data, and a finish_file with
\* nothing to patch.
LEMMA RefusalsSink ==
    ASSUME SinkInv,
           WriteRefused \/ ExtraRefused \/ EndLocalExtraPanics \/ KeepHeader
    PROVE  SinkStep
<1>1. UNCHANGED <<sinkVars, files, inner, comment, writing_to_extra_field, call>>
  BY DEF WriteRefused, ExtraRefused, EndLocalExtraPanics, KeepHeader,
         Return, Fail, Panic, Goto, dataVars, flagVars
<1>2. /\ Preserved /\ IsSeq(comment') /\ BufferOK(inner') /\ CallOK(call')
  BY <1>1, SinkUntouched DEF SinkInv, VectorsOK
<1> QED
  BY <1>1, <1>2, FilesKept

-----------------------------------------------------------------------------
(***************************************************************************)
(* The steps that write at the position of the sink.                       *)
(***************************************************************************)
\* Writing at the position keeps what is sealed.
LEMMA WriteHereKeeps ==
    ASSUME SinkInv, NEW cells, IsSeq(cells)
    PROVE  /\ KeepingTrace(disk, Sealed, WriteTrace(disk, pos, cells))
           /\ KeepingTrace(disk, Sealed, Still(WriteTrace(disk, pos, cells)))
<1>1. Sealed \in Nat /\ Keeps(disk, Sealed, <<disk, pos>>)
  BY SealedBounds
<1>2. KeepingTrace(disk, Sealed, WriteTrace(disk, pos, cells))
  BY <1>1, WriteTraceKeeps
<1> QED
  BY <1>1, <1>2, StillKeeps

\* A successful write ends behind what was written.
LEMMA WriteHereEnds ==
    ASSUME SinkInv, NEW cells, IsSeq(cells),
           NEW trace, trace = Still(WriteTrace(disk, pos, cells))
    PROVE  trace[Len(trace)] = <<WriteAt(disk, pos, cells), pos + Len(cells)>>
<1> DEFINE written == WriteTrace(disk, pos, cells)
<1>1. Sealed \in Nat /\ KeepingTrace(disk, Sealed, written)
  BY SealedBounds, WriteHereKeeps
<1>2. /\ Len(cells) \in Nat
      /\ Len(written) = Len(cells) + 1
      /\ written[Len(cells) + 1] = <<WriteAt(disk, pos, cells), pos + Len(cells)>>
  BY WriteTraceEnds DEF SinkInv, VectorsOK
<1> HIDE DEF written
<1>3. /\ Len(trace) = Len(written) + 1
      /\ trace[Len(written) + 1] = written[Len(written)]
  <2>1. trace = Still(written)
    BY DEF written
  <2> QED
    BY <1>1, <2>1, StillKeeps
<1> QED
  BY <1>2, <1>3

\* So does writing through a ZipCryptoWriter.
LEMMA SinkTraceKeeps ==
    ASSUME SinkInv, NEW w, NEW cells, IsSeq(cells)
    PROVE  /\ KeepingTrace(disk, Sealed, SinkTrace(w, cells))
           /\ KeepingTrace(disk, Sealed, Still(SinkTrace(w, cells)))
<1>1. Sealed \in Nat /\ Keeps(disk, Sealed, <<disk, pos>>)
  BY SealedBounds
<1>2. KeepingTrace(disk, Sealed, SinkTrace(w, cells))
  BY <1>1, WriteHereKeeps, ShortTraceKeeps DEF SinkTrace
<1> QED
  BY <1>1, <1>2, StillKeeps

\* The failures of a trace are among its states.
LEMMA FailsMoves ==
    ASSUME NEW trace, IsSeq(trace), Fails(trace)
    PROVE  \E i \in 1..Len(trace) : FailsAt(trace, i)
BY LenIsNat DEF Fails

\* finalize writes the central directory and the end records.
LEMMA WriteCentralHeaderSink ==
    ASSUME SinkInv, WriteCentralHeader
    PROVE  SinkStep
<1> DEFINE f     == files[call.headers + 1]
           cells == IF OverflowChecks /\ Len(CentralExtra(f)) > ZIP64_ENTRY_THR
                    THEN HeaderBegun ELSE CentralHeader(f)
           trace == WriteTrace(disk, pos, cells)
           next  == [call EXCEPT !.headers = @ + 1, !.central_start = CentralStart]
<1>0. /\ call.headers < Len(files)
      /\ \/ Succeeds(trace) /\ call' = next
         \/ Succeeds(trace) /\ Panic
         \/ Fails(trace) /\ Fail
      /\ UNCHANGED <<inner, dataVars, flagVars>>
  BY DEF WriteCentralHeader
<1>1. /\ CallOK(call) /\ BufferOK(inner) /\ IsSeq(comment) /\ EntriesOK
      /\ Len(files) \in Nat
  BY SealedBounds DEF SinkInv, VectorsOK
<1>2. call.headers + 1 \in 1..Len(files)
  BY <1>0, <1>1 DEF CallOK
<1>3. IsSeq(f.extra_field)
  BY <1>1, <1>2 DEF EntriesOK, IsEntry
<1>4. IsSeq(cells)
  <2>1. IsSeq(CentralExtra(f))
    BY <1>3, EmptyIsSeq, SingleIsSeq, ConcatIsSeq DEF CentralExtra
  <2>2. IsSeq(CentralHeader(f))
    BY <2>1, SingleIsSeq, ConcatIsSeq DEF CentralHeader
  <2>3. IsSeq(HeaderBegun)
    BY SingleIsSeq DEF HeaderBegun
  <2> QED
    BY <2>2, <2>3
<1> HIDE DEF cells
<1>5. KeepingTrace(disk, Sealed, trace)
  BY <1>4, WriteHereKeeps
<1>6. CallOK(next)
  BY <1>1 DEF CallOK
<1> HIDE DEF trace, next
<1>7. Preserved
  BY <1>0, <1>5, SinkMoved, FailsMoves DEF KeepingTrace, KeepingStates
<1>8. CallOK(call')
  BY <1>0, <1>1, <1>6 DEF Panic, Fail
<1> QED
  BY <1>0, <1>1, <1>7, <1>8, FilesKept DEF dataVars, flagVars

\* finalize writes the end records.
LEMMA WriteEndRecordsSink ==
    ASSUME SinkInv, WriteEndRecords
    PROVE  SinkStep
<1> DEFINE cells == EndRecords(Len(files), CentralStart, pos - CentralStart, comment)
           trace == Still(WriteTrace(disk, pos, cells))
<1>0. /\ Succeeds(trace) \/ Fails(trace)
      /\ inner' = Closed \/ inner' = inner
      /\ UNCHANGED <<call, dataVars, flagVars>>
  BY DEF WriteEndRecords, HandedBack, Fail
<1>1. CallOK(call) /\ BufferOK(inner) /\ IsSeq(comment)
  BY DEF SinkInv, VectorsOK
<1>2. IsSeq(cells)
  <2>1. \A a, b : IsSeq(<<a, b>>)
    <3> TAKE a, b
    <3>1. <<a, b>> \in Seq({a, b})
      OBVIOUS
    <3> QED
      BY <3>1, SeqIsSeq
  <2> QED
    BY <1>1, <2>1, EmptyIsSeq, SingleIsSeq, ConcatIsSeq DEF EndRecords
<1> HIDE DEF cells
<1>3. KeepingTrace(disk, Sealed, trace)
  BY <1>2, WriteHereKeeps
<1> HIDE DEF trace
<1>4. Preserved
  BY <1>0, <1>3, SinkMoved, FailsMoves DEF KeepingTrace, KeepingStates
<1> QED
  BY <1>0, <1>1, <1>4, BuffersOK, FilesKept DEF dataVars, flagVars

\* switch_to(Stored) emits the tail of the compressor.
LEMMA SwitchStoredSink ==
    ASSUME SinkInv, SwitchStored
    PROVE  SinkStep
<1> DEFINE tail  == Append(Pending(inner), <<"zend", inner.method>>)
           trace == SinkTrace(inner, tail)
           after == [inner EXCEPT !.method = "stored", !.pending = << >>,
                                  !.buffer = Kept(inner, tail)]
<1>0. /\ \/ UNCHANGED <<sinkVars, inner>>
         \/ Succeeds(trace) /\ inner' = after
         \/ Fails(trace) /\ inner' = Closed
      /\ UNCHANGED <<call, dataVars, flagVars>>
  BY DEF SwitchStored, Fail, Goto
<1>1. CallOK(call) /\ BufferOK(inner) /\ IsSeq(comment)
  BY DEF SinkInv, VectorsOK
<1>2. IsSeq(tail)
  BY PendingIsSeq
<1> HIDE DEF tail
<1>3. KeepingTrace(disk, Sealed, trace)
  BY <1>2, SinkTraceKeeps
<1>4. BufferOK(after)
  BY <1>1, <1>2, KeptIsSeq DEF BufferOK
<1> HIDE DEF trace, after
<1>5. Preserved
  BY <1>0, <1>3, SinkMoved, SinkUntouched, FailsMoves DEF KeepingTrace, KeepingStates
<1>6. BufferOK(inner')
  BY <1>0, <1>1, <1>4, BuffersOK
<1> QED
  BY <1>0, <1>1, <1>5, <1>6, FilesKept DEF dataVars, flagVars

\* ZipCryptoWriter::finish emits all it kept.
LEMMA FinishCryptoSink ==
    ASSUME SinkInv, FinishCrypto
    PROVE  SinkStep
<1> DEFINE cells == <<<<"crypthdr", stats.hasher>>>> \o Encrypted(inner.buffer)
           trace == Still(WriteTrace(disk, pos, cells))
<1>0. /\ Succeeds(trace) \/ Fails(trace)
      /\ inner' = Closed \/ inner' = Plain
      /\ UNCHANGED <<call, dataVars, flagVars>>
  BY DEF FinishCrypto, Fail, Goto
<1>1. CallOK(call) /\ BufferOK(inner) /\ IsSeq(comment)
  BY DEF SinkInv, VectorsOK
<1>2. IsSeq(cells)
  <2> DEFINE e == Encrypted(inner.buffer)
             n == Len(inner.buffer)
  <2>1. n \in Nat
    BY <1>1, LenIsNat DEF BufferOK
  <2>2. e = [i \in 1..n |-> e[i]]
    BY DEF Encrypted
  <2> HIDE DEF e, n
  <2>3. IsSeq(e)
    BY <2>1, <2>2, FunctionIsSeq
  <2> QED
    BY <2>3, SingleIsSeq, ConcatIsSeq DEF e
<1> HIDE DEF cells
<1>3. KeepingTrace(disk, Sealed, trace)
  BY <1>2, WriteHereKeeps
<1> HIDE DEF trace
<1>4. Preserved
  BY <1>0, <1>3, SinkMoved, FailsMoves DEF KeepingTrace, KeepingStates
<1> QED
  BY <1>0, <1>1, <1>4, BuffersOK, FilesKept DEF dataVars, flagVars

\* io::copy of the cells of another archive's entry.
LEMMA CopyRawSink ==
    ASSUME SinkInv, CopyRaw
    PROVE  SinkStep
<1> DEFINE trace == Still(WriteTrace(disk, pos, Raw.cells))
<1>0. /\ Succeeds(trace) \/ \E i \in 1..Len(trace) - 1 : FailsAt(trace, i)
      /\ UNCHANGED <<inner, files, comment, flagVars, call>>
  BY DEF CopyRaw, Return, Fail
<1>1. CallOK(call) /\ BufferOK(inner) /\ IsSeq(comment)
  BY DEF SinkInv, VectorsOK
<1>2. KeepingTrace(disk, Sealed, trace)
  BY <1>1, WriteHereKeeps DEF CallOK, Raw
<1> HIDE DEF trace
<1>3. Preserved
  BY <1>0, <1>2, SinkMoved, FailsMoves DEF KeepingTrace, KeepingStates, Fails
<1> QED
  BY <1>0, <1>1, <1>3, FilesKept DEF flagVars

\* Entry data goes to the compressor, the encryption or the sink.
LEMMA WriteDataSink ==
    ASSUME SinkInv, NEW cell, NEW writing, WriteData(cell, writing),
           UNCHANGED <<files, comment, writing_to_extra_field>>
    PROVE  SinkStep
<1> DEFINE w(split) == [inner EXCEPT !.buffer = Kept(inner, split[1]),
                                     !.pending = split[2]]
           trace(split) == SinkTrace(inner, split[1])
<1>1. PICK split \in Splits(cell) :
        /\ \/ Succeeds(trace(split)) /\ (inner' = Closed \/ inner' = w(split))
           \/ Fails(trace(split)) /\ UNCHANGED inner
        /\ UNCHANGED call
  BY DEF WriteData, Fail, Return
<1>2. CallOK(call) /\ BufferOK(inner) /\ IsSeq(comment)
  BY DEF SinkInv, VectorsOK
<1>3. IsSeq(split[1])
  BY PendingIsSeq, EmptyIsSeq, SingleIsSeq DEF Splits
<1>4. KeepingTrace(disk, Sealed, trace(split))
  BY <1>3, SinkTraceKeeps
<1>5. BufferOK(w(split))
  BY <1>2, <1>3, KeptIsSeq DEF BufferOK
<1> HIDE DEF trace, w
<1>6. Preserved
  BY <1>1, <1>4, SinkMoved, FailsMoves DEF KeepingTrace, KeepingStates
<1>7. BufferOK(inner')
  BY <1>1, <1>2, <1>5, BuffersOK
<1> QED
  BY <1>1, <1>2, <1>6, <1>7, FilesKept

\* add_symlink writes its target.
LEMMA WriteTargetSink ==
    ASSUME SinkInv, WriteTarget
    PROVE  SinkStep
BY WriteDataSink DEF WriteTarget

\* write() of extra data, which is kept, or of entry data.
LEMMA WriteSink ==
    ASSUME SinkInv, Write
    PROVE  SinkStep
<1>1. CASE ~writing_to_extra_field
  <2>1. \E b \in Bytes : WriteData(b, TRUE)
    BY <1>1 DEF Write
  <2>2. UNCHANGED <<files, comment, writing_to_extra_field>>
    BY <1>1 DEF Write
  <2> QED
    BY <2>1, <2>2, WriteDataSink
<1>2. CASE writing_to_extra_field
  <2> DEFINE f(cell) == [LastFile EXCEPT !.extra_field = Append(@, cell)]
  <2>1. PICK cell \in ExtraCells : files' = SetLastFile(f(cell))
    BY <1>2 DEF Write
  <2>2. UNCHANGED <<sinkVars, inner, call, comment, writing_to_extra_field>>
    BY <1>2 DEF Write, Return
  <2>3. files # << >> /\ IsSeq(files) /\ EntriesOK
    BY <1>2, SealedBounds DEF SinkInv, IInv, LastFileExists, VectorsOK
  <2>4. IsEntry(LastFile)
    BY <2>3, LastFileIsEntry
  <2>5. IsSeq(Append(LastFile.extra_field, cell))
    BY <2>4, AppendIsSeq DEF IsEntry
  <2>6. /\ IsEntry(f(cell)) /\ f(cell).header_start = LastFile.header_start
        /\ f(cell).data_start = LastFile.data_start
    BY <2>4, <2>5 DEF IsEntry
  <2> HIDE DEF f
  <2>7. /\ f(cell).data_start \in Nat
        /\ f(cell).header_start <= f(cell).data_start
    BY <1>2, <2>3, <2>6 DEF SinkInv, LastFileLocated
  <2>8. Preserved /\ IsSeq(comment') /\ BufferOK(inner') /\ CallOK(call')
    BY <2>2, SinkUntouched DEF SinkInv, VectorsOK
  <2> QED
    BY <2>1, <2>3, <2>6, <2>7, <2>8, LastFileChanged
<1> QED
  BY <1>1, <1>2

\* flush() emits what the compressor holds back.
LEMMA FlushSink ==
    ASSUME SinkInv, Flush
    PROVE  SinkStep
<1> DEFINE out   == SyncFlush(inner)
           trace == SinkTrace(inner, out)
           after == [inner EXCEPT !.pending = << >>, !.buffer = Kept(inner, out)]
           partly(i) == [inner EXCEPT !.pending = IF i = 1 THEN @ ELSE << >>]
<1>0. /\ \/ UNCHANGED <<sinkVars, inner>>
         \/ Succeeds(trace) /\ inner' = after
         \/ \E i \in 1..Len(trace) :
              FailsAt(Still(trace), i) /\ inner' = partly(i)
      /\ UNCHANGED <<call, dataVars, flagVars>>
  BY DEF Flush, Return
<1>1. CallOK(call) /\ BufferOK(inner) /\ IsSeq(comment)
  BY DEF SinkInv, VectorsOK
<1>2. IsSeq(out)
  BY PendingIsSeq, EmptyIsSeq DEF SyncFlush
<1> HIDE DEF out
<1>3. /\ KeepingTrace(disk, Sealed, trace)
      /\ KeepingTrace(disk, Sealed, Still(trace))
  BY <1>2, SinkTraceKeeps
<1>4. BufferOK(after) /\ \A i : BufferOK(partly(i))
  BY <1>1, <1>2, KeptIsSeq DEF BufferOK
<1> HIDE DEF trace, after, partly
<1>5. \A i \in 1..Len(trace) : i \in 1..Len(Still(trace))
  BY <1>3, SealedBounds, StillKeeps
<1>6. Preserved
  BY <1>0, <1>3, <1>5, SinkMoved, SinkUntouched
<1>7. BufferOK(inner')
  BY <1>0, <1>1, <1>4
<1> QED
  BY <1>0, <1>1, <1>6, <1>7, FilesKept DEF dataVars, flagVars

-----------------------------------------------------------------------------
(***************************************************************************)
(* The step that adds an entry.                                            *)
(***************************************************************************)
\* A local header is a vector.
LEMMA LocalHeaderIsSeq ==
    ASSUME NEW f
    PROVE  IsSeq(LocalHeader(f))
<1> DEFINE T == {<<"local", f.name, f.method, f.encrypted, FALSE>>,
                 <<"crc", f.crc32>>,
                 <<"sizes", ZIP64_BYTES_THR, ZIP64_BYTES_THR>>, LocalSizes(f),
                 <<"extralen", LocalExtraLen(f)>>}
           start == << <<"local", f.name, f.method, f.encrypted, FALSE>>,
                       <<"crc", f.crc32>>,
                       IF f.large_file
                         THEN <<"sizes", ZIP64_BYTES_THR, ZIP64_BYTES_THR>>
                         ELSE LocalSizes(f),
                       <<"extralen", LocalExtraLen(f)>> >>
           rest  == IF f.large_file THEN <<LocalZip64(f)>> ELSE << >>
<1>1. start \in Seq(T)
  OBVIOUS
<1> HIDE DEF T
<1>2. IsSeq(start)
  BY <1>1, SeqIsSeq
<1>3. IsSeq(rest)
  BY EmptyIsSeq, SingleIsSeq
<1> HIDE DEF start, rest
<1>4. LocalHeader(f) = start \o rest
  BY DEF LocalHeader, start, rest
<1> QED
  BY <1>2, <1>3, <1>4, ConcatIsSeq

\* The padding record of start_file_aligned is a vector.
LEMMA PaddingIsSeq ==
    ASSUME NEW start \in Nat, NEW align \in Nat
    PROVE  IsSeq(Padding(start, align))
<1> DEFINE n == ((align - ((start + 1) % align)) % align) + 1
           v == [i \in 1..n |-> <<"extra", "pad">>]
<1>1. CASE align > 1 /\ start % align # 0
  <2>1. n \in Nat
    <3> DEFINE m == align - ((start + 1) % align)
    <3>1. m \in Int
      BY <1>1
    <3> HIDE DEF m
    <3>2. m % align \in Nat
      BY <1>1, <3>1
    <3> QED
      BY <3>2 DEF m
  <2>2. v = [i \in 1..n |-> v[i]]
    OBVIOUS
  <2>3. Padding(start, align) = v
    BY <1>1 DEF Padding
  <2> HIDE DEF n, v
  <2> QED
    BY <2>1, <2>2, <2>3, FunctionIsSeq
<1>2. CASE ~(align > 1 /\ start % align # 0)
  BY <1>2, EmptyIsSeq DEF Padding
<1> QED
  BY <1>1, <1>2

\* start_entry writes the local header and remembers the file.
LEMMA StartEntrySink ==
    ASSUME SinkInv, StartEntry
    PROVE  SinkStep
<1> DEFINE cells == LocalHeader(NewFile)
           trace == Still(WriteTrace(disk, pos, cells))
           end   == pos + Len(cells)
           pad   == IF call.op = "start_file_aligned" THEN Padding(end, call.align)
                                                      ELSE << >>
           f     == [NewFile EXCEPT !.data_start = end, !.extra_field = pad]
           w     == [Plain EXCEPT !.encrypted = call.options.encrypted]
<1>0. /\ \/ Succeeds(trace) /\ files' = Append(files, f) /\ Started(w)
         \/ /\ Fails(trace)
            /\ UNCHANGED <<inner, files, writing_to_extra_field, call>>
      /\ UNCHANGED comment
  BY DEF StartEntry, Fail
<1>1. /\ CallOK(call) /\ BufferOK(inner) /\ IsSeq(comment) /\ IsSeq(files)
      /\ EntriesOK /\ pos \in Nat /\ IsSeq(disk)
  BY SealedBounds DEF SinkInv, VectorsOK
<1>2. IsSeq(cells) /\ Len(cells) \in Nat
  BY LocalHeaderIsSeq, LenIsNat
<1> HIDE DEF cells
<1>3. end \in Nat /\ pos <= end
  BY <1>1, <1>2
<1>4. IsSeq(pad)
  BY <1>1, <1>3, PaddingIsSeq, EmptyIsSeq DEF CallOK
<1> HIDE DEF end, pad
<1>5. IsEntry(f) /\ f.header_start = pos /\ f.data_start = end
  BY <1>1, <1>4 DEF NewFile, IsEntry
<1> HIDE DEF f
<1>6. KeepingTrace(disk, Sealed, trace)
  BY <1>2, WriteHereKeeps
<1>7. trace[Len(trace)] = <<WriteAt(disk, pos, cells), end>>
  BY <1>2, WriteHereEnds DEF end
<1> HIDE DEF trace
<1>8. Preserved
  BY <1>0, <1>6, SinkMoved, FailsMoves DEF KeepingTrace, KeepingStates
<1>9. CASE /\ Fails(trace)
           /\ UNCHANGED <<inner, files, writing_to_extra_field, call>>
  BY <1>0, <1>1, <1>8, <1>9, FilesKept
<1>10. CASE Succeeds(trace) /\ files' = Append(files, f) /\ Started(w)
  <2>1. disk' = WriteAt(disk, pos, cells) /\ pos' = end
    BY <1>7, <1>10 DEF Succeeds, MoveSink
  <2>2. pos <= Len(disk')
    <3>1. /\ Len(WriteAt(disk, pos, cells)) \in Nat
          /\ pos + Len(cells) <= Len(WriteAt(disk, pos, cells))
      BY <1>1, <1>2, WriteAtKeeps
    <3> QED
      BY <1>1, <1>2, <2>1, <3>1
  <2>3. BufferOK(inner') /\ call' = call
    <3>1. BufferOK(w) /\ BufferOK(SwitchTo(w, call.options.method, call.options.level))
      BY BuffersOK
    <3> HIDE DEF w
    <3> QED
      BY <1>10, <3>1 DEF Started, FileStarted, ExtraDataStarted,
           DirectoryAdded, SymlinkStarted, RawCopyStarted, Fail, Return, Goto
  <2>4. /\ Len(files') = Len(files) + 1 /\ Len(files) \in Nat
        /\ files'[Len(files) + 1] = f
        /\ \A i \in 1..Len(files) : files'[i] = files[i]
    <3> DEFINE T == {files[i] : i \in DOMAIN files} \cup {f}
    <3>1. files \in Seq(T) /\ f \in T
      BY <1>1 DEF IsSeq
    <3> HIDE DEF T
    <3> QED
      BY <1>10, <3>1, AppendProperties, LenProperties
  <2>5. EntriesOK'
    <3>1. ASSUME NEW i \in 1..Len(files) + 1
          PROVE  IsEntry(files'[i])
      <4>1. i \in 1..Len(files) \/ i = Len(files) + 1
        BY <2>4
      <4> QED
        BY <1>1, <1>5, <2>4, <4>1 DEF EntriesOK
    <3> QED
      BY <2>4, <3>1 DEF EntriesOK
  <2>6. IsSeq(disk') /\ pos' \in Nat
    BY <1>8 DEF Preserved, Keeps
  <2>7. VectorsOK'
    BY <1>0, <1>1, <2>3, <2>5, <2>6 DEF VectorsOK
  <2>8. LastFileLocated'
    <3>1. Len(files') = Len(files) + 1 /\ LastFile' = f
      BY <2>4 DEF LastFile
    <3>2. /\ f.header_start <= pos' /\ f.header_start <= Len(disk')
          /\ f.data_start \in Nat /\ f.header_start <= f.data_start
      BY <1>3, <1>5, <2>1, <2>2
    <3> QED
      BY <3>1, <3>2 DEF LastFileLocated
  <2> QED
    BY <1>8, <2>7, <2>8 DEF SinkStep
<1> QED
  BY <1>0, <1>9, <1>10

-----------------------------------------------------------------------------
(***************************************************************************)
(* The steps that go back into the last entry's local header.              *)
(***************************************************************************)
\* A successful end_extra_data with the record f of the last file.
LEMMA ExtraEndedSink ==
    ASSUME SinkInv, Preserved, files # << >>,
           NEW f, IsEntry(f), f.header_start = LastFile.header_start,
           f.data_start \in Nat, f.header_start <= f.data_start,
           NEW w, ExtraEnded(f, w), BufferOK(inner')
    PROVE  SinkStep
<1>1. PICK g \in {f, ForLocalHeader(f)} : files' = SetLastFile(g)
  BY DEF ExtraEnded
<1>2. /\ IsEntry(g) /\ g.header_start = f.header_start
      /\ g.data_start = f.data_start
  BY EmptyIsSeq DEF ForLocalHeader, IsEntry
<1>3. UNCHANGED <<comment, call>>
  BY DEF ExtraEnded, Return, Goto
<1>4. IsSeq(comment') /\ CallOK(call')
  BY <1>3 DEF SinkInv, VectorsOK
<1> QED
  BY <1>1, <1>2, <1>4, LastFileChanged

\* The last file while extra data is written.
LEMMA ExtraFile ==
    ASSUME SinkInv, writing_to_extra_field
    PROVE  /\ files # << >> /\ IsEntry(LastFile)
           /\ LastFile.data_start \in Nat
           /\ LastFile.header_start <= LastFile.data_start
           /\ Sealed = LastFile.header_start
<1>1. files # << >>
  BY DEF SinkInv, IInv, LastFileExists
<1>2. IsEntry(LastFile)
  BY <1>1, SealedBounds, LastFileIsEntry DEF SinkInv, VectorsOK
<1> QED
  BY <1>1, <1>2 DEF SinkInv, LastFileLocated, Sealed

\* end_extra_data after central-only extra data.
LEMMA EndCentralExtraSink ==
    ASSUME SinkInv, EndCentralExtra
    PROVE  SinkStep
<1>1. writing_to_extra_field /\ ExtraEnded(LastFile, inner)
      /\ UNCHANGED <<sinkVars, inner>>
  BY DEF EndCentralExtra, ExtraAccepted
<1>2. Preserved /\ BufferOK(inner')
  BY <1>1, SinkUntouched DEF SinkInv, VectorsOK
<1> QED
  BY <1>1, <1>2, ExtraFile, ExtraEndedSink

\* Appending the extra field and patching its length touches nothing in
\* front of the header.
LEMMA ExtraTraceKeeps ==
    ASSUME SinkInv, writing_to_extra_field,
           NEW end \in Nat, LastFile.header_start <= end
    PROVE  /\ KeepingTrace(disk, Sealed, ExtraTrace(LastFile, end))
           /\ Len(LastFile.extra_field) + 1 \in 1..Len(ExtraTrace(LastFile, end))
<1> DEFINE f       == LastFile
           cells   == f.extra_field
           h       == f.header_start
           length  == <<"extralen", LocalExtraLen(f)>>
           grown   == WriteAt(disk, pos, cells)
           patched == WriteAt(grown, h + EXTRA_LEN_OFFSET, <<length>>)
           written == WriteTrace(disk, pos, cells)
           back    == << <<grown, h + EXTRA_LEN_OFFSET>>,
                         <<patched, h + EXTRA_LEN_OFFSET + 1>>, <<patched, end>> >>
<1>1. /\ IsSeq(cells) /\ h \in Nat /\ Sealed = h /\ Sealed \in Nat
      /\ Keeps(disk, Sealed, <<disk, pos>>) /\ pos \in Nat /\ Sealed <= pos
  BY ExtraFile, SealedBounds DEF IsEntry, Keeps
<1>2. /\ h + EXTRA_LEN_OFFSET \in Nat /\ Sealed <= h + EXTRA_LEN_OFFSET
      /\ h + EXTRA_LEN_OFFSET + 1 \in Nat /\ Sealed <= h + EXTRA_LEN_OFFSET + 1
      /\ Sealed <= end
  BY <1>1 DEF EXTRA_LEN_OFFSET
<1>3. /\ KeepingTrace(disk, Sealed, written) /\ Len(cells) \in Nat
      /\ Len(written) = Len(cells) + 1
  <2> HIDE DEF cells
  <2>1. KeepingTrace(disk, Sealed, written)
    BY <1>1, WriteHereKeeps
  <2>2. Len(cells) \in Nat /\ Len(written) = Len(cells) + 1
    BY <1>1, WriteTraceEnds
  <2> QED
    BY <2>1, <2>2
<1>4. IsSeq(<<length>>)
  BY SingleIsSeq
<1>5. ExtraTrace(f, end) = written \o back
  BY DEF ExtraTrace
<1> DEFINE at == h + EXTRA_LEN_OFFSET
<1> HIDE DEF cells, h, f, length, written, at
<1>6. Keeps(disk, Sealed, <<grown, at>>)
  BY <1>1, <1>2, WriteKeeps DEF at
<1> HIDE DEF grown
<1>7. /\ Keeps(disk, Sealed, <<patched, at + 1>>)
      /\ Keeps(disk, Sealed, <<patched, end>>)
  BY <1>1, <1>2, <1>4, <1>6, WriteKeeps DEF at
<1> HIDE DEF patched
<1>8. KeepingTrace(disk, Sealed, back)
  BY <1>1, <1>6, <1>7, ShortTraceKeeps DEF at
<1>9. /\ KeepingTrace(disk, Sealed, written \o back)
      /\ Len(written \o back) = Len(written) + Len(back)
      /\ Len(back) \in Nat
  <2> HIDE DEF back
  <2>1. /\ KeepingStates(disk, Sealed, written) /\ written # << >>
        /\ KeepingStates(disk, Sealed, back) /\ IsSeq(back)
    BY <1>3, <1>8 DEF KeepingTrace, KeepingStates
  <2>2. /\ KeepingTrace(disk, Sealed, written \o back)
        /\ Len(written \o back) = Len(written) + Len(back)
    BY <1>1, <2>1, ConcatTraceKeeps
  <2> QED
    BY <2>1, <2>2, LenIsNat
<1> HIDE DEF back
<1>10. Len(cells) + 1 \in 1..Len(written \o back)
  BY <1>3, <1>9
<1> QED
  BY <1>5, <1>9, <1>10 DEF f, cells

\* end_extra_data moves local extra data to the sink.
LEMMA EndLocalExtraSink ==
    ASSUME SinkInv, EndLocalExtra
    PROVE  SinkStep
<1> DEFINE end   == LastFile.data_start + Len(LastFile.extra_field)
           moved == [LastFile EXCEPT !.data_start = end]
           w     == SwitchTo(inner, moved.method, moved.level)
           trace == ExtraTrace(LastFile, end)
           n     == Len(LastFile.extra_field)
<1>0. /\ writing_to_extra_field
      /\ \/ /\ Succeeds(trace) /\ inner' = w
            /\ \/ /\ files' = SetLastFile(moved)
                  /\ UNCHANGED <<comment, flagVars, call>>
               \/ ExtraEnded(moved, w)
         \/ /\ MoveSink(trace[n + 1])
            /\ files' = SetLastFile(moved)
            /\ UNCHANGED <<inner, comment, flagVars, call>>
         \/ /\ \E i \in 1..Len(trace) - 1 : FailsAt(trace, i)
            /\ files' = SetLastFile(moved) \/ files' = files
            /\ UNCHANGED <<inner, comment, flagVars, call>>
  BY DEF EndLocalExtra, EndingLocalExtra, ExtraAccepted, Fail, Panic
<1>1. /\ files # << >> /\ IsEntry(LastFile) /\ LastFile.data_start \in Nat
      /\ LastFile.header_start <= LastFile.data_start
  BY <1>0, ExtraFile
<1>2. /\ CallOK(call) /\ BufferOK(inner) /\ IsSeq(comment)
  BY DEF SinkInv, VectorsOK
<1>3. end \in Nat /\ LastFile.header_start <= end
  <2>1. n \in Nat /\ LastFile.header_start \in Nat
    BY <1>1, LenIsNat DEF IsEntry
  <2> QED
    BY <1>1, <2>1
<1>4. /\ IsEntry(moved) /\ moved.header_start = LastFile.header_start
      /\ moved.data_start = end
  BY <1>1 DEF IsEntry
<1>5. BufferOK(w)
  BY <1>2, BuffersOK
<1> HIDE DEF w, moved, end
<1>6. KeepingTrace(disk, Sealed, trace) /\ n + 1 \in 1..Len(trace)
  BY <1>0, <1>3, ExtraTraceKeeps
<1> HIDE DEF trace, n
<1>7. Preserved
  <2>1. \/ Succeeds(trace)
        \/ \E i \in 1..Len(trace) : FailsAt(trace, i) \/ MoveSink(trace[i])
    <3>1. \A i \in 1..Len(trace) - 1 : i \in 1..Len(trace)
      BY <1>6, LenIsNat DEF KeepingTrace, KeepingStates
    <3> QED
      BY <1>0, <1>6, <3>1
  <2> QED
    BY <1>6, <2>1, SinkMoved
<1>8. BufferOK(inner')
  BY <1>0, <1>2, <1>5
<1>9. CASE ExtraEnded(moved, w)
  BY <1>1, <1>3, <1>4, <1>7, <1>8, <1>9, ExtraEndedSink
<1>10. CASE /\ files' = SetLastFile(moved)
            /\ UNCHANGED <<comment, flagVars, call>>
  BY <1>1, <1>2, <1>3, <1>4, <1>7, <1>8, <1>10, LastFileChanged
<1>11. CASE UNCHANGED <<files, comment, flagVars, call>>
  BY <1>2, <1>7, <1>8, <1>11, FilesKept DEF flagVars
<1> QED
  BY <1>0, <1>9, <1>10, <1>11

\* update_local_file_header touches nothing in front of the header.
LEMMA HeaderTraceKeeps ==
    ASSUME SinkInv, NEW f, f.header_start = Sealed
    PROVE  KeepingTrace(disk, Sealed, HeaderTrace(f))
<1> DEFINE h      == f.header_start
           crc    == <<<<"crc", f.crc32>>>>
           summed == WriteAt(disk, h + CRC32_OFFSET, crc)
           at     == h + SizesOffset(f)
           sizes  == <<IF f.large_file THEN LocalZip64(f) ELSE LocalSizes(f)>>
           sized  == WriteAt(summed, at, sizes)
           first  == << <<disk, pos>>, <<disk, h + CRC32_OFFSET>>,
                        <<summed, h + SIZES_OFFSET>> >>
           seek   == IF f.large_file THEN << <<summed, at>> >> ELSE << >>
           last   == << <<sized, at + 1>>, <<sized, pos>> >>
<1>1. /\ h \in Nat /\ Sealed = h /\ Sealed \in Nat
      /\ Keeps(disk, Sealed, <<disk, pos>>) /\ pos \in Nat /\ Sealed <= pos
      /\ IsSeq(disk) /\ Sealed <= Len(disk)
  BY SealedBounds DEF Keeps
<1>2. /\ h + CRC32_OFFSET \in Nat /\ Sealed <= h + CRC32_OFFSET
      /\ h + SIZES_OFFSET \in Nat /\ Sealed <= h + SIZES_OFFSET
      /\ at \in Nat /\ Sealed <= at /\ at + 1 \in Nat /\ Sealed <= at + 1
  BY <1>1 DEF CRC32_OFFSET, SIZES_OFFSET, ZIP64_OFFSET, SizesOffset
<1>3. IsSeq(crc) /\ IsSeq(sizes)
  BY SingleIsSeq
<1>4. HeaderTrace(f) = first \o (IF TooLarge(f) THEN << >> ELSE seek \o last)
  BY DEF HeaderTrace
<1> DEFINE c == h + CRC32_OFFSET
           z == h + SIZES_OFFSET
<1> HIDE DEF crc, sizes, at, c, z
<1>5. Keeps(disk, Sealed, <<disk, c>>)
  BY <1>1, <1>2, HereKeeps DEF c
<1>6. Keeps(disk, Sealed, <<summed, z>>) /\ Keeps(disk, Sealed, <<summed, at>>)
  BY <1>1, <1>2, <1>3, WriteKeeps DEF c, z
<1> HIDE DEF summed
<1>7. Keeps(disk, Sealed, <<sized, at + 1>>) /\ Keeps(disk, Sealed, <<sized, pos>>)
  BY <1>1, <1>2, <1>3, <1>6, WriteKeeps
<1> HIDE DEF sized
<1>8. /\ KeepingTrace(disk, Sealed, first) /\ KeepingTrace(disk, Sealed, last)
  BY <1>1, <1>5, <1>6, <1>7, ShortTraceKeeps DEF c, z
<1>9. KeepingStates(disk, Sealed, << >>)
  BY EmptyIsSeq DEF KeepingStates
<1>10. KeepingStates(disk, Sealed, seek)
  <2>1. KeepingTrace(disk, Sealed, << <<summed, at>> >>)
    BY <1>1, <1>6, ShortTraceKeeps
  <2> QED
    BY <1>9, <2>1 DEF KeepingTrace
<1> HIDE DEF first, seek, last
<1>11. /\ KeepingStates(disk, Sealed, first) /\ first # << >>
       /\ KeepingStates(disk, Sealed, last)
  BY <1>8 DEF KeepingTrace
<1>12. KeepingStates(disk, Sealed, seek \o last)
  BY <1>1, <1>10, <1>11, ConcatTraceKeeps
<1>13. KeepingStates(disk, Sealed, IF TooLarge(f) THEN << >> ELSE seek \o last)
  BY <1>9, <1>12
<1> QED
  BY <1>1, <1>4, <1>11, <1>13, ConcatTraceKeeps

\* finish_file patches the sizes and the checksum of the last entry.
LEMMA UpdateHeaderSink ==
    ASSUME SinkInv, UpdateHeader
    PROVE  SinkStep
<1> DEFINE f     == [Summed EXCEPT !.compressed_size = U64(pos - stats.start)]
           trace == HeaderTrace(f)
<1>0. /\ files # << >>
      /\ \/ Succeeds(trace)
         \/ UNCHANGED sinkVars
         \/ FailsAt(trace, 1)
         \/ Fails(trace)
      /\ files' = SetLastFile(f) \/ files' = SetLastFile(Summed)
      /\ UNCHANGED <<inner, comment, writing_to_extra_field, call>>
  BY DEF UpdateHeader, Fail, Panic, Goto
<1>1. /\ IsEntry(LastFile) /\ CallOK(call) /\ BufferOK(inner) /\ IsSeq(comment)
      /\ Sealed = LastFile.header_start
  BY <1>0, SealedBounds, LastFileIsEntry DEF SinkInv, VectorsOK, Sealed
<1>2. /\ IsEntry(Summed) /\ Summed.header_start = LastFile.header_start
      /\ Summed.data_start = LastFile.data_start
  BY <1>1 DEF Summed, IsEntry
<1>3. /\ IsEntry(f) /\ f.header_start = LastFile.header_start
      /\ f.data_start = LastFile.data_start
  BY <1>2 DEF IsEntry
<1> HIDE DEF f
<1>4. KeepingTrace(disk, Sealed, trace)
  BY <1>1, <1>3, HeaderTraceKeeps
<1> HIDE DEF trace
<1>5. 1 \in 1..Len(trace)
  BY <1>4, LenIsNat DEF KeepingTrace, KeepingStates
<1>6. Preserved
  BY <1>0, <1>4, <1>5, SinkMoved, SinkUntouched, FailsMoves
     DEF KeepingTrace, KeepingStates
<1>7. PICK g \in {f, Summed} : files' = SetLastFile(g)
  BY <1>0
<1>8. /\ IsEntry(g) /\ g.header_start = LastFile.header_start
      /\ g.data_start = LastFile.data_start
  BY <1>2, <1>3
<1>9. writing_to_extra_field' => /\ g.data_start \in Nat
                                 /\ g.header_start <= g.data_start
  BY <1>0, <1>8, ExtraFile
<1> QED
  BY <1>0, <1>1, <1>6, <1>7, <1>8, <1>9, LastFileChanged

-----------------------------------------------------------------------------
(***************************************************************************)
(* The theorems.                                                           *)
(***************************************************************************)
\* new() and new_append() establish the invariant: new_append writes on
\* where the directory was, behind the last entry.
LEMMA InitSink == Init => SinkInv
<1> SUFFICES ASSUME Init PROVE SinkInv
  OBVIOUS
<1>1. IInv
  BY InitInv
<1>2. call = NoCall /\ inner = Plain /\ ~writing_to_extra_field
  BY DEF Init, New, NewAppend, InitWriter
<1>3. CallOK(call) /\ BufferOK(inner)
  BY <1>2, NoCallOK, BuffersOK
<1>4. /\ IsSeq(disk) /\ pos \in Nat /\ IsSeq(comment) /\ EntriesOK
      /\ files # << >> => /\ LastFile.header_start <= pos
                          /\ LastFile.header_start <= Len(disk)
  <2>1. CASE New
    BY <2>1, EmptyIsSeq DEF New, InitWriter, EntriesOK
  <2>2. CASE NewAppend
    <3> DEFINE a(d) == OpenArchive(d)
    <3>1. PICK d \in Existing :
            /\ a(d).ok /\ disk = d /\ pos = a(d).start
            /\ files = a(d).files /\ comment = a(d).comment
      BY <2>2 DEF NewAppend, InitWriter
    <3>2. /\ IsSeq(d) /\ IsSeq(files) /\ IsSeq(comment) /\ EntriesOK
          /\ pos \in 0..Len(d)
      BY <3>1, ExistingAssumption DEF EntriesOK
    <3>3. files # << >> => LastFile.header_start <= pos
      BY <3>1, ExistingLayout DEF LastFile
    <3>4. files # << >> => LastFile.header_start \in Nat
      BY <3>2, LastFileIsEntry DEF IsEntry
    <3>5. Len(d) \in Nat
      BY <3>2, LenIsNat
    <3> HIDE DEF a
    <3> QED
      BY <3>1, <3>2, <3>3, <3>4, <3>5
  <2> QED
    BY <2>1, <2>2 DEF Init
<1>5. VectorsOK
  BY <1>3, <1>4 DEF VectorsOK
<1>6. LastFileLocated
  BY <1>2, <1>4 DEF LastFileLocated
<1> QED
  BY <1>1, <1>5, <1>6 DEF SinkInv

\* Every step of every call, whether it succeeds, fails or panics, keeps the
\* invariant and what is sealed.
LEMMA NextSink ==
    ASSUME SinkInv, Next
    PROVE  SinkStep
BY StartFileSink, AddDirectorySink, RawCopyFileSink, OtherCallsSink,
   RefusalsSink, WriteCentralHeaderSink, WriteEndRecordsSink,
   SwitchStoredSink, FinishCryptoSink, CopyRawSink, WriteTargetSink,
   WriteSink, FlushSink, StartEntrySink, EndCentralExtraSink,
   EndLocalExtraSink, UpdateHeaderSink
DEF Next

\* Every step, and a stutter, keeps the invariant.
LEMMA NextSinkInv == SinkInv /\ [Next]_vars => SinkInv'
<1> SUFFICES ASSUME SinkInv, [Next]_vars PROVE SinkInv'
  OBVIOUS
<1>1. IInv'
  BY NextInv DEF SinkInv
<1>2. CASE Next
  BY <1>1, <1>2, NextSink DEF SinkStep, SinkInv
<1>3. CASE UNCHANGED vars
  <2>1. VectorsOK' /\ LastFileLocated'
    BY <1>3 DEF vars, sinkVars, dataVars, flagVars, callVars, SinkInv,
                VectorsOK, EntriesOK, LastFileLocated, LastFile
  <2> QED
    BY <1>1, <2>1 DEF SinkInv
<1> QED
  BY <1>2, <1>3

\* Everything ZipWriter emits is a vector of cells, its position is a
\* position, and the last entry's local header lies in the file and in front
\* of the position, with the data of an entry whose extra data is being
\* written behind it.
THEOREM SinkInvariance == Spec => []SinkInv
BY InitSink, NextSinkInv, PTL DEF Spec

\* What is kept of the sink is the region in front of the sealed position.
LEMMA PreservedRegion ==
    ASSUME SinkInv, Preserved
    PROVE  Region(disk', 0, Sealed) = Region(disk, 0, Sealed)
<1> DEFINE s == Sealed
<1>1. /\ s \in Nat /\ IsSeq(disk) /\ Len(disk) \in Nat /\ s <= Len(disk)
  BY SealedBounds DEF Keeps
<1>2. /\ IsSeq(disk') /\ Len(disk') \in Nat /\ s <= Len(disk')
      /\ \A i \in 1..s : disk'[i] = disk[i]
  BY DEF Preserved, Keeps
<1>3. s \in Int /\ 0 + s = s /\ 0 + 1 = 1
  BY <1>1
<1>4. Min({s, Len(disk)}) = s /\ Min({s, Len(disk')}) = s
  BY <1>1, <1>2, MinOfTwo
<1> HIDE DEF s
<1>5. Region(disk, 0, s) = SubSeq(disk, 1, s)
  BY <1>3, <1>4, Zenon DEF Region
<1>6. Region(disk', 0, s) = SubSeq(disk', 1, s)
  BY <1>3, <1>4, Zenon DEF Region
<1>7. SubSeq(disk', 1, s) = SubSeq(disk, 1, s)
  <2> DEFINE T == {disk[i] : i \in 1..s}
  <2>1. (\A i \in 1..s : disk[i] \in T) /\ (\A i \in 1..s : disk'[i] \in T)
    BY <1>2
  <2> HIDE DEF T
  <2>2. /\ SubSeq(disk, 1, s) \in Seq(T) /\ SubSeq(disk', 1, s) \in Seq(T)
        /\ Len(SubSeq(disk, 1, s)) = Len(SubSeq(disk', 1, s))
        /\ Len(SubSeq(disk, 1, s)) = s
        /\ \A i \in 1..s : /\ SubSeq(disk, 1, s)[i] = disk[i]
                           /\ SubSeq(disk', 1, s)[i] = disk'[i]
    <3>1. /\ SubSeq(disk, 1, s) \in Seq(T)
          /\ Len(SubSeq(disk, 1, s)) = IF 1 <= s THEN s - 1 + 1 ELSE 0
          /\ \A i \in 1..s - 1 + 1 : SubSeq(disk, 1, s)[i] = disk[1 + i - 1]
      BY <1>1, <2>1, SubSeqProperties
    <3>2. /\ SubSeq(disk', 1, s) \in Seq(T)
          /\ Len(SubSeq(disk', 1, s)) = IF 1 <= s THEN s - 1 + 1 ELSE 0
          /\ \A i \in 1..s - 1 + 1 : SubSeq(disk', 1, s)[i] = disk'[1 + i - 1]
      BY <1>1, <2>1, SubSeqProperties
    <3>3. (s - 1 + 1 = s) /\ (\A i \in 1..s : 1 + i - 1 = i) /\ (~(1 <= s) => s = 0)
      BY <1>1
    <3> QED
      BY <3>1, <3>2, <3>3
  <2> QED
    BY <1>2, <2>2, SeqEqual
<1> QED
  BY <1>5, <1>6, <1>7 DEF s

\* Whatever the order of the calls, whatever fails and whatever the caller
\* retries, nothing in front of the last entry's local header is written
\* again: not by a header that is patched, not by extra data that is moved,
\* not by a central directory that is started over.
THEOREM SealedUntouched == Spec => SealedBytesUntouched
<1>1. SinkInv /\ [Next]_vars =>
        [files # << >> =>
           LET sealed == files[Len(files)].header_start
           IN  Region(disk', 0, sealed) = Region(disk, 0, sealed)]_vars
  <2>1. ASSUME SinkInv, Next, files # << >>
        PROVE  LET sealed == files[Len(files)].header_start
               IN  Region(disk', 0, sealed) = Region(disk, 0, sealed)
    BY <2>1, NextSink, PreservedRegion DEF SinkStep, Sealed, LastFile
  <2> QED
    BY <2>1
<1> QED
  BY <1>1, SinkInvariance, PTL DEF Spec, SealedBytesUntouched

-----------------------------------------------------------------------------
(***************************************************************************)
(* What is promised only grows at its end.                                 *)
(***************************************************************************)
IsPromise(e) ==
    /\ e = [name |-> e.name, extra |-> e.extra, data |-> e.data]
    /\ IsSeq(e.extra) /\ IsSeq(e.data)

PromisesOK ==
    IsSeq(promised) /\ \A i \in 1..Len(promised) : IsPromise(promised[i])

\* The last entry, as Archive!ExtendEntry lets it change.
Extends(old, new) ==
    /\ new.name = old.name
    /\ \/ IsPrefix(old.data, new.data) /\ new.extra = old.extra
       \/ IsPrefix(old.extra, new.extra) /\ new.data = old.data
       \/ new = [old EXCEPT !.extra = << >>]

Added ==
    /\ Len(promised') = Len(promised) + 1
    /\ Front(promised') = promised

Extended ==
    /\ promised # << >> /\ Len(promised') = Len(promised)
    /\ Front(promised') = Front(promised)
    /\ Extends(Last(promised), Last(promised'))

Grows == PromisesOK' /\ (Added \/ Extended \/ UNCHANGED promised)

\* The first n elements of two vectors that agree on them.
LEMMA SamePrefix ==
    ASSUME NEW s, IsSeq(s), NEW t, IsSeq(t),
           NEW n \in Nat, n <= Len(s), n <= Len(t),
           \A i \in 1..n : s[i] = t[i]
    PROVE  SubSeq(s, 1, n) = SubSeq(t, 1, n)
<1> DEFINE T == {s[i] : i \in 1..n}
<1>1. (\A i \in 1..n : s[i] \in T) /\ (\A i \in 1..n : t[i] \in T)
  OBVIOUS
<1>2. Len(s) \in Nat /\ Len(t) \in Nat
  BY LenIsNat
<1> HIDE DEF T
<1>3. /\ SubSeq(s, 1, n) \in Seq(T)
      /\ Len(SubSeq(s, 1, n)) = IF 1 <= n THEN n - 1 + 1 ELSE 0
      /\ \A i \in 1..n - 1 + 1 : SubSeq(s, 1, n)[i] = s[1 + i - 1]
  BY <1>1, <1>2, SubSeqProperties
<1>4. /\ SubSeq(t, 1, n) \in Seq(T)
      /\ Len(SubSeq(t, 1, n)) = IF 1 <= n THEN n - 1 + 1 ELSE 0
      /\ \A i \in 1..n - 1 + 1 : SubSeq(t, 1, n)[i] = t[1 + i - 1]
  BY <1>1, <1>2, SubSeqProperties
<1>5. (n - 1 + 1 = n) /\ (\A i \in 1..n : 1 + i - 1 = i) /\ (~(1 <= n) => n = 0)
  OBVIOUS
<1>6. /\ Len(SubSeq(s, 1, n)) = Len(SubSeq(t, 1, n))
      /\ \A i \in 1..Len(SubSeq(s, 1, n)) : SubSeq(s, 1, n)[i] = SubSeq(t, 1, n)[i]
  BY <1>3, <1>4, <1>5
<1> QED
  BY <1>3, <1>4, <1>6, SeqEqual

\* The whole of a vector.
LEMMA WholePrefix ==
    ASSUME NEW s, IsSeq(s)
    PROVE  SubSeq(s, 1, Len(s)) = s
BY SubSeqFull DEF IsSeq

\* push() extends a vector.
LEMMA AppendExtends ==
    ASSUME NEW s, IsSeq(s), NEW e
    PROVE  /\ IsSeq(Append(s, e)) /\ Len(Append(s, e)) = Len(s) + 1
           /\ Len(s) \in Nat
           /\ \A i \in 1..Len(s) : Append(s, e)[i] = s[i]
           /\ Append(s, e)[Len(s) + 1] = e
           /\ IsPrefix(s, Append(s, e))
           /\ Front(Append(s, e)) = s
<1> DEFINE T == {s[i] : i \in DOMAIN s} \cup {e}
           a == Append(s, e)
           n == Len(s)
<1>1. s \in Seq(T) /\ e \in T
  BY DEF IsSeq
<1> HIDE DEF T
<1>2. /\ IsSeq(a) /\ Len(a) = n + 1 /\ n \in Nat
      /\ \A i \in 1..n : a[i] = s[i]
      /\ a[n + 1] = e
  BY <1>1, AppendProperties, LenProperties, AppendIsSeq
<1> HIDE DEF a
<1>3. n <= Len(s) /\ n <= Len(a) /\ Len(a) - 1 = n
  BY <1>2
<1> HIDE DEF n
<1>4. SubSeq(s, 1, n) = SubSeq(a, 1, n)
  BY <1>2, <1>3, SamePrefix
<1>5. SubSeq(s, 1, n) = s
  BY WholePrefix DEF n
<1>6. Front(a) = s
  BY <1>3, <1>4, <1>5, Zenon DEF Front
<1>7. IsPrefix(s, a)
  BY <1>3, <1>4 DEF IsPrefix, n
<1> QED
  BY <1>2, <1>6, <1>7 DEF a, n

\* A new entry is promised.
LEMMA PromiseAdded ==
    ASSUME PromisesOK, NEW e, IsPromise(e), promised' = Append(promised, e)
    PROVE  Grows
<1>1. /\ IsSeq(promised') /\ Len(promised') = Len(promised) + 1
      /\ Len(promised) \in Nat
      /\ \A i \in 1..Len(promised) : promised'[i] = promised[i]
      /\ promised'[Len(promised) + 1] = e
      /\ Front(promised') = promised
  BY AppendExtends DEF PromisesOK
<1>2. \A i \in 1..Len(promised') : i \in 1..Len(promised) \/ i = Len(promised) + 1
  BY <1>1
<1>3. PromisesOK'
  BY <1>1, <1>2 DEF PromisesOK
<1> QED
  BY <1>1, <1>3 DEF Grows, Added

\* The last entry is promised anew.
LEMMA PromiseChanged ==
    ASSUME PromisesOK, NEW e,
           promised # << >> => /\ IsPromise(e)
                               /\ Extends(promised[Len(promised)], e),
           promised' = [promised EXCEPT ![Len(promised)] = e]
    PROVE  Grows
<1> DEFINE n == Len(promised)
<1>1. IsSeq(promised) /\ n \in Nat /\ DOMAIN promised = 1..n
  BY LenProperties DEF PromisesOK, IsSeq
<1>2. CASE promised = << >>
  BY <1>2 DEF Grows, PromisesOK
<1>3. CASE promised # << >>
  <2>1. n \in 1..n
    BY <1>1, <1>3, LenIsNat
  <2> DEFINE T == {promised[i] : i \in DOMAIN promised} \cup {e}
  <2>2. promised \in Seq(T) /\ e \in T
    BY <1>1 DEF IsSeq
  <2> HIDE DEF T
  <2>3. /\ promised' \in Seq(T) /\ Len(promised') = n
        /\ \A j \in 1..n : promised'[j] = IF j = n THEN e ELSE promised[j]
    BY <2>1, <2>2, ExceptSeq
  <2>4. IsSeq(promised')
    BY <2>3, SeqIsSeq
  <2>5. PromisesOK'
    BY <1>3, <2>3, <2>4 DEF PromisesOK
  <2>6. Front(promised') = Front(promised)
    <3>1. n - 1 \in Nat /\ n - 1 <= n /\ \A i \in 1..n - 1 : i \in 1..n /\ i # n
      BY <2>1
    <3>2. SubSeq(promised', 1, n - 1) = SubSeq(promised, 1, n - 1)
      BY <1>1, <2>3, <2>4, <3>1, SamePrefix
    <3> QED
      BY <2>3, <3>2 DEF Front
  <2>7. Last(promised') = e /\ Last(promised) = promised[n]
    BY <2>1, <2>3 DEF Last
  <2> QED
    BY <1>3, <2>3, <2>5, <2>6, <2>7 DEF Grows, Extended
<1> QED
  BY <1>2, <1>3

\* Assignments to the fields of a promise.
LEMMA PromiseFields ==
    ASSUME NEW n, NEW x, NEW d, NEW e, NEW v,
           e = [name |-> n, extra |-> x, data |-> d]
    PROVE  /\ [e EXCEPT !.data = v] = [name |-> n, extra |-> x, data |-> v]
           /\ [e EXCEPT !.extra = v] = [name |-> n, extra |-> v, data |-> d]
OBVIOUS

\* The last entry is given one more cell of data, or of extra data, or loses
\* the extra data of its local header.
LEMMA LastPromiseGrows ==
    ASSUME PromisesOK, NEW cell,
           \/ promised' = [promised EXCEPT
                             ![Len(promised)].data = Append(@, cell)]
           \/ promised' = [promised EXCEPT
                             ![Len(promised)].extra = Append(@, cell)]
           \/ promised' = [promised EXCEPT ![Len(promised)].extra = << >>]
    PROVE  Grows
<1> DEFINE old == promised[Len(promised)]
           a == [old EXCEPT !.data = Append(old.data, cell)]
           b == [old EXCEPT !.extra = Append(old.extra, cell)]
           c == [old EXCEPT !.extra = << >>]
<1>1. promised # << >> => IsPromise(old)
  BY LenIsNat DEF PromisesOK
<1>2. \/ promised' = [promised EXCEPT ![Len(promised)] = a]
      \/ promised' = [promised EXCEPT ![Len(promised)] = b]
      \/ promised' = [promised EXCEPT ![Len(promised)] = c]
  OBVIOUS
<1> HIDE DEF old
<1>3. ASSUME IsPromise(old)
      PROVE  /\ IsPromise(a) /\ Extends(old, a)
             /\ IsPromise(b) /\ Extends(old, b)
             /\ IsPromise(c) /\ Extends(old, c)
  <2>1. PICK n, x, d : /\ old = [name |-> n, extra |-> x, data |-> d]
                       /\ IsSeq(x) /\ IsSeq(d)
    BY <1>3 DEF IsPromise
  <2>2. old.name = n /\ old.extra = x /\ old.data = d
    BY <2>1
  <2>3. /\ a = [name |-> n, extra |-> x, data |-> Append(d, cell)]
        /\ b = [name |-> n, extra |-> Append(x, cell), data |-> d]
        /\ c = [name |-> n, extra |-> << >>, data |-> d]
    <3>1. \A v : /\ [old EXCEPT !.data = v] = [name |-> n, extra |-> x, data |-> v]
                 /\ [old EXCEPT !.extra = v] = [name |-> n, extra |-> v, data |-> d]
      BY <2>1, PromiseFields, SMTT(30)
    <3> QED
      BY <2>2, <3>1
  <2>4. /\ IsSeq(Append(d, cell)) /\ IsPrefix(d, Append(d, cell))
        /\ IsSeq(Append(x, cell)) /\ IsPrefix(x, Append(x, cell))
        /\ IsSeq(<< >>)
    BY <2>1, AppendExtends, EmptyIsSeq
  <2>5. Extends(old, c)
    BY <2>2, <2>3 DEF Extends
  <2> HIDE DEF a, b, c
  <2>6. Extends(old, a) /\ Extends(old, b)
    BY <2>2, <2>3, <2>4 DEF Extends
  <2>7. IsPromise(a) /\ IsPromise(b) /\ IsPromise(c)
    BY <2>1, <2>3, <2>4 DEF IsPromise
  <2> QED
    BY <2>5, <2>6, <2>7
<1> HIDE DEF a, b, c
<1> QED
  BY <1>1, <1>2, <1>3, PromiseChanged DEF old

-----------------------------------------------------------------------------
(***************************************************************************)
(* The invariant: what was promised are entries; finish_file ends the      *)
(* extra data before anything else; a dropped writer takes no step; and a  *)
(* finished one has no sink, no extra data to end and no drop to run.      *)
(***************************************************************************)
AfterExtraSteps ==
    {"switch_stored", "finish_crypto", "update_header", "local_header", "central"}

ExtraDone == pc \in AfterExtraSteps => ~writing_to_extra_field

Ended ==
    /\ status \in {"dropped", "aborted"} => pc = "idle"
    /\ status = "finished" =>
           IsClosed(inner) /\ ~writing_to_extra_field /\ call.op # "drop"

PromiseInv == SinkInv /\ PromisesOK /\ ExtraDone /\ Ended

\* Whether the observer is shown the sink.
Shown(s, r) == s = "finished" \/ (s = "dropped" /\ r = "ok")

\* A step of a live writer that does not end in an archive.
Goes ==
    /\ ExtraDone'
    /\ ~Shown(status', result')
    /\ status' = "live" \/ (status' \in {"dropped", "aborted"} /\ pc' = "idle")

LiveStep == Goes /\ Grows /\ (UNCHANGED comment \/ UNCHANGED promised)

\* The step that ends in one.
Finalizes == Committed' /\ Ended' /\ ExtraDone' /\ UNCHANGED <<promised, comment>>

\* A call that returns, fails or panics.
LEMMA ReturnGoes ==
    ASSUME status = "live", Fail \/ Panic \/ \E r : Return(r)
    PROVE  Goes
BY DEF Fail, Panic, Return, Goes, Shown, ExtraDone, AfterExtraSteps

\* A call that goes on.
LEMMA GotoGoes ==
    ASSUME status = "live", NEW step, Goto(step),
           step \in AfterExtraSteps => ~writing_to_extra_field'
    PROVE  Goes
BY DEF Goto, Goes, Shown, ExtraDone

\* A call that begins, with finish_file or with end_extra_data.
LEMMA BeginGoes ==
    ASSUME status = "live", NEW c,
           Begin(c, FinishFile) \/ Begin(c, "end_extra")
    PROVE  Goes /\ UNCHANGED promised
BY DEF Begin, FinishFile, AfterExtraSteps, flagVars, ghostVars, Goes, Shown,
       ExtraDone

\* A step that promises nothing.
LEMMA NothingPromised ==
    ASSUME PromiseInv, Goes, UNCHANGED promised
    PROVE  LiveStep
BY DEF PromiseInv, PromisesOK, LiveStep, Grows

-----------------------------------------------------------------------------
(***************************************************************************)
(* Every step of a live writer.                                            *)
(***************************************************************************)
\* Calls that begin, and calls that are over at once.
LEMMA CallsLive ==
    ASSUME PromiseInv, status = "live",
           \/ StartFile \/ StartFileWithExtraData \/ StartFileAligned
           \/ AddDirectory \/ AddSymlink \/ RawCopyFile
           \/ EndExtraData \/ EndLocalStartCentralExtraData
           \/ Finish \/ SetComment \/ Drop \/ WriteRefused \/ Flush
    PROVE  LiveStep
<1>1. CASE \/ StartFile \/ StartFileWithExtraData \/ StartFileAligned
           \/ AddDirectory \/ AddSymlink \/ RawCopyFile
           \/ EndExtraData \/ EndLocalStartCentralExtraData \/ Finish
  <2>1. \E c : Begin(c, FinishFile) \/ Begin(c, "end_extra")
    BY <1>1 DEF StartFile, StartFileWithExtraData, StartFileAligned,
         AddDirectory, AddSymlink, RawCopyFile, AddEntry,
         EndExtraData, EndLocalStartCentralExtraData, Finish
  <2> QED
    BY <2>1, BeginGoes, NothingPromised
<1>2. CASE SetComment
  BY <1>2, NothingPromised
  DEF SetComment, Idle, flagVars, ghostVars, Goes, Shown, ExtraDone,
      AfterExtraSteps
<1>3. CASE Drop
  <2>1. ExtraDone'
    BY <1>3 DEF Drop, FinishFile, ExtraDone, AfterExtraSteps, flagVars
  <2>2. /\ result' = "none" /\ UNCHANGED promised
        /\ status' = "live" \/ (status' = "dropped" /\ pc' = "idle")
    BY <1>3 DEF Drop, ghostVars
  <2> QED
    BY <2>1, <2>2, NothingPromised DEF Goes, Shown
<1>4. CASE WriteRefused \/ Flush
  BY <1>4, ReturnGoes, NothingPromised DEF WriteRefused, Flush, ghostVars
<1> QED
  BY <1>1, <1>2, <1>3, <1>4

\* write() and the target of a symbolic link.
LEMMA WriteDataLive ==
    ASSUME PromiseInv, status = "live", NEW cell, NEW writing,
           WriteData(cell, writing), UNCHANGED comment
    PROVE  LiveStep
<1>1. Goes
  BY ReturnGoes DEF WriteData
<1>2. \/ UNCHANGED promised
      \/ promised' = [promised EXCEPT ![Len(promised)].data = Append(@, cell)]
  BY DEF WriteData
<1>3. Grows
  BY <1>2, LastPromiseGrows DEF PromiseInv, PromisesOK, Grows
<1> QED
  BY <1>1, <1>3 DEF LiveStep

LEMMA WriteLive ==
    ASSUME PromiseInv, status = "live", Write \/ WriteTarget
    PROVE  LiveStep
<1>1. CASE \E cell, writing : WriteData(cell, writing)
  BY <1>1, WriteDataLive DEF Write, WriteTarget
<1>2. CASE ~\E cell, writing : WriteData(cell, writing)
  <2>1. PICK cell : promised' = [promised EXCEPT
                                   ![Len(promised)].extra = Append(@, cell)]
    BY <1>2 DEF Write, WriteTarget
  <2>2. Return("ok") /\ UNCHANGED comment
    BY <1>2 DEF Write, WriteTarget
  <2>3. Grows
    BY <2>1, LastPromiseGrows DEF PromiseInv
  <2> QED
    BY <2>2, <2>3, ReturnGoes DEF LiveStep
<1> QED
  BY <1>1, <1>2

\* end_extra_data: extra data of the local header alone is not promised.
LEMMA ExtraEndedLive ==
    ASSUME PromiseInv, status = "live", NEW f, NEW w, ExtraEnded(f, w),
           pc \in ExtraSteps
    PROVE  LiveStep
<1>1. Goes
  <2>1. CASE pc = "end_extra"
    BY <2>1, ReturnGoes DEF ExtraEnded
  <2>2. CASE pc = "finish_extra"
    <3>1. ~writing_to_extra_field' /\ Goto(AfterExtra(w))
      BY <2>2 DEF ExtraEnded, EntersCentral
    <3> QED
      BY <3>1, GotoGoes
  <2> QED
    BY <2>1, <2>2 DEF ExtraSteps
<1>2. /\ \/ UNCHANGED promised
         \/ promised' = [promised EXCEPT ![Len(promised)].extra = << >>]
      /\ UNCHANGED comment
  BY DEF ExtraEnded
<1>3. Grows
  BY <1>2, LastPromiseGrows DEF PromiseInv, PromisesOK, Grows
<1> QED
  BY <1>1, <1>2, <1>3 DEF LiveStep

LEMMA EndExtraLive ==
    ASSUME PromiseInv, status = "live",
           ExtraRefused \/ EndLocalExtraPanics \/ EndCentralExtra \/ EndLocalExtra
    PROVE  LiveStep
<1>1. CASE \E f, w : ExtraEnded(f, w)
  BY <1>1, ExtraEndedLive
  DEF ExtraRefused, EndLocalExtraPanics, EndCentralExtra, EndLocalExtra,
      EndingLocalExtra
<1>2. CASE ~\E f, w : ExtraEnded(f, w)
  <2>1. Fail \/ Panic
    BY <1>2 DEF ExtraRefused, EndLocalExtraPanics, EndCentralExtra, EndLocalExtra
  <2>2. UNCHANGED promised
    BY <1>2 DEF ExtraRefused, EndLocalExtraPanics, EndCentralExtra, EndLocalExtra,
                ghostVars
  <2> QED
    BY <2>1, <2>2, ReturnGoes, NothingPromised
<1> QED
  BY <1>1, <1>2

\* The rest of finish_file, a raw copy and the central directory.
LEMMA FinishFileLive ==
    ASSUME PromiseInv, status = "live",
           \/ SwitchStored \/ FinishCrypto \/ KeepHeader \/ UpdateHeader
           \/ CopyRaw \/ WriteCentralHeader
    PROVE  LiveStep
<1>1. UNCHANGED <<promised, writing_to_extra_field>>
  BY DEF SwitchStored, FinishCrypto, KeepHeader, UpdateHeader, CopyRaw,
         WriteCentralHeader, flagVars, ghostVars
<1>2. pc \in AfterExtraSteps => ~writing_to_extra_field'
  BY <1>1 DEF PromiseInv, ExtraDone
<1>3. CASE SwitchStored \/ FinishCrypto \/ KeepHeader \/ UpdateHeader
  <2>1. pc \in AfterExtraSteps
    BY <1>3 DEF SwitchStored, FinishCrypto, KeepHeader, UpdateHeader, AfterExtraSteps
  <2>2. Fail \/ Panic \/ \E step : Goto(step)
    BY <1>3 DEF SwitchStored, FinishCrypto, KeepHeader, UpdateHeader
  <2>3. Goes
    BY <1>2, <2>1, <2>2, ReturnGoes, GotoGoes
  <2> QED
    BY <1>1, <2>3, NothingPromised
<1>4. CASE CopyRaw
  BY <1>1, <1>4, ReturnGoes, NothingPromised DEF CopyRaw
<1>5. CASE WriteCentralHeader
  <2>1. Goes
    <3>1. CASE UNCHANGED <<pc, result, status>>
      BY <1>2, <3>1 DEF Goes, Shown, ExtraDone
    <3>2. CASE ~UNCHANGED <<pc, result, status>>
      BY <1>5, <3>2, ReturnGoes DEF WriteCentralHeader
    <3> QED
      BY <3>1, <3>2
  <2> QED
    BY <1>1, <2>1, NothingPromised
<1> QED
  BY <1>3, <1>4, <1>5

\* start_entry promises a new entry.
LEMMA StartEntryLive ==
    ASSUME PromiseInv, status = "live", StartEntry
    PROVE  LiveStep
<1>1. UNCHANGED comment
  BY DEF StartEntry
<1>2. CASE Fail /\ UNCHANGED promised
  BY <1>2, ReturnGoes, NothingPromised
<1>3. CASE promised' = Append(promised, Promise) /\ \E w : Started(w)
  <2>1. IsPromise(Promise)
    <3>1. IsSeq(Raw.plain)
      BY DEF PromiseInv, SinkInv, VectorsOK, CallOK, Raw
    <3> QED
      BY <3>1, EmptyIsSeq DEF Promise, IsPromise
  <2>2. Grows
    BY <1>3, <2>1, PromiseAdded DEF PromiseInv
  <2>3. Goes
    BY <1>3, ReturnGoes, GotoGoes
    DEF Started, FileStarted, ExtraDataStarted, DirectoryAdded, SymlinkStarted,
        RawCopyStarted, AfterExtraSteps
  <2> QED
    BY <1>1, <2>2, <2>3 DEF LiveStep
<1> QED
  BY <1>2, <1>3 DEF StartEntry

\* The end records: the one step that shows the archive.
LEMMA WriteEndRecordsLive ==
    ASSUME PromiseInv, status = "live", WriteEndRecords
    PROVE  LiveStep \/ Finalizes
<1>1. UNCHANGED <<promised, comment, writing_to_extra_field>>
  BY DEF WriteEndRecords, dataVars, flagVars
<1>2. ~writing_to_extra_field
  BY DEF WriteEndRecords, PromiseInv, ExtraDone, AfterExtraSteps
<1>3. CASE Fail
  BY <1>1, <1>3, ReturnGoes, NothingPromised
<1>4. CASE ~Fail
  <2>1. /\ pc' = "idle" /\ result' = "ok" /\ UNCHANGED call
        /\ inner' = HandedBack(inner)
        /\ status' = IF call.op = "finish" THEN "finished" ELSE "dropped"
    BY <1>4 DEF WriteEndRecords
  <2>2. Committed'
    BY <2>1 DEF Committed
  <2>3. Ended'
    BY <1>1, <1>2, <2>1 DEF Ended, HandedBack, IsClosed, Closed
  <2>4. ExtraDone'
    BY <2>1 DEF ExtraDone, AfterExtraSteps
  <2> QED
    BY <1>1, <2>2, <2>3, <2>4 DEF Finalizes
<1> QED
  BY <1>3, <1>4

-----------------------------------------------------------------------------
(***************************************************************************)
(* Every step of a writer that is finished or gone.                        *)
(***************************************************************************)
\* A finished writer refuses every call, and leaves what it wrote alone.
LEMMA FinishedStep ==
    ASSUME PromiseInv, status = "finished", Next
    PROVE  UNCHANGED <<disk, status, promised>> /\ ExtraDone' /\ Ended'
<1>1. IInv /\ IsClosed(inner) /\ ~writing_to_extra_field /\ call.op # "drop"
  BY DEF PromiseInv, SinkInv, Ended
<1>2. UNCHANGED <<disk, inner>>
  BY <1>1, ClosedStep DEF sinkVars
<1>3. /\ ~IsPlain(inner)
      /\ pc \notin {"finish_crypto", "update_header", "local_header", "central",
                    "copy", "target"}
  BY <1>1 DEF IInv, GetPlainSafe, SafeAt, IsClosed, IsPlain
<1>4. UNCHANGED <<status, promised, writing_to_extra_field>> /\ call'.op # "drop"
  <2>1. CASE \/ StartFile \/ StartFileWithExtraData \/ StartFileAligned
             \/ AddDirectory \/ AddSymlink \/ RawCopyFile
             \/ EndExtraData \/ EndLocalStartCentralExtraData \/ Finish
    <3>1. CASE StartFile \/ StartFileWithExtraData
      BY <3>1 DEF StartFile, StartFileWithExtraData, AddEntry, Begin, NoCall, flagVars, ghostVars
    <3>2. CASE StartFileAligned \/ AddDirectory
      BY <3>2 DEF StartFileAligned, AddDirectory, AddEntry, Begin, NoCall, flagVars, ghostVars
    <3>3. CASE AddSymlink \/ RawCopyFile
      BY <3>3 DEF AddSymlink, RawCopyFile, AddEntry, Begin, NoCall, flagVars, ghostVars
    <3>4. CASE EndExtraData \/ EndLocalStartCentralExtraData \/ Finish
      BY <3>4 DEF EndExtraData, EndLocalStartCentralExtraData, Finish, Begin, NoCall,
                  flagVars, ghostVars
    <3> QED
      BY <2>1, <3>1, <3>2, <3>3, <3>4
  <2>2. CASE SetComment
    BY <2>2 DEF SetComment, NoCall, flagVars, ghostVars
  <2>3. CASE WriteRefused \/ Flush
    BY <1>1, <2>3 DEF WriteRefused, Flush, Return, flagVars, ghostVars
  <2>4. CASE ExtraRefused \/ SwitchStored
    BY <1>1, <2>4 DEF ExtraRefused, SwitchStored, Fail, flagVars, ghostVars
  <2>5. CASE Drop \/ Write \/ EndCentralExtra \/ EndLocalExtra \/ EndLocalExtraPanics
    BY <1>1, <2>5 DEF Drop, Write, EndCentralExtra, EndLocalExtra,
         EndLocalExtraPanics, EndingLocalExtra, ExtraAccepted
  <2>6. CASE \/ FinishCrypto \/ KeepHeader \/ UpdateHeader \/ StartEntry
             \/ CopyRaw \/ WriteTarget \/ WriteCentralHeader \/ WriteEndRecords
    BY <1>3, <2>6 DEF FinishCrypto, KeepHeader, UpdateHeader, StartEntry, CopyRaw,
                      WriteTarget, WriteCentralHeader, WriteEndRecords
  <2> QED
    BY <2>1, <2>2, <2>3, <2>4, <2>5, <2>6 DEF Next
<1>5. ExtraDone' /\ Ended'
  BY <1>1, <1>2, <1>4 DEF ExtraDone, Ended
<1> QED
  BY <1>2, <1>4, <1>5

\* A writer that was dropped takes no step.
LEMMA GoneStep ==
    ASSUME PromiseInv, status \in {"dropped", "aborted"}
    PROVE  ~Next
<1> SUFFICES ASSUME Next PROVE FALSE
  OBVIOUS
<1>1. pc = "idle" /\ ~Idle
  BY DEF PromiseInv, Ended, Idle
<1>2. CASE \/ StartFile \/ StartFileWithExtraData \/ StartFileAligned
           \/ AddDirectory \/ AddSymlink \/ RawCopyFile
           \/ EndExtraData \/ EndLocalStartCentralExtraData \/ Finish
  BY <1>1, <1>2 DEF StartFile, StartFileWithExtraData, StartFileAligned,
       AddDirectory, AddSymlink, RawCopyFile, AddEntry,
       EndExtraData, EndLocalStartCentralExtraData, Finish, Begin
<1>3. CASE SetComment \/ Drop \/ Write \/ WriteRefused \/ Flush
  BY <1>1, <1>3 DEF SetComment, Drop, Write, WriteRefused, Flush
<1>4. CASE ExtraRefused \/ EndCentralExtra \/ EndLocalExtraPanics \/ EndLocalExtra
  BY <1>1, <1>4 DEF ExtraRefused, EndCentralExtra, EndLocalExtraPanics, EndLocalExtra,
       EndingLocalExtra, ExtraSteps
<1>5. CASE \/ SwitchStored \/ FinishCrypto \/ KeepHeader \/ UpdateHeader
           \/ StartEntry \/ CopyRaw \/ WriteTarget
           \/ WriteCentralHeader \/ WriteEndRecords
  BY <1>1, <1>5 DEF SwitchStored, FinishCrypto, KeepHeader, UpdateHeader, StartEntry,
       CopyRaw, WriteTarget, WriteCentralHeader, WriteEndRecords
<1> QED
  BY <1>2, <1>3, <1>4, <1>5 DEF Next

-----------------------------------------------------------------------------
(***************************************************************************)
(* The invariant is kept.                                                  *)
(***************************************************************************)
\* What a step of ZipWriter is to the observer.
ObservedStep ==
    \/ ~Shown(status, result) /\ LiveStep
    \/ ~Shown(status, result) /\ Finalizes
    \/ status = "finished" /\ UNCHANGED <<disk, status, promised>>

LEMMA NextPromise ==
    ASSUME PromiseInv, Next
    PROVE  PromiseInv' /\ ObservedStep
<1>1. SinkInv'
  BY NextSinkInv DEF PromiseInv
<1>2. CASE status = "live"
  <2>1. LiveStep \/ Finalizes
    BY <1>2, CallsLive, WriteLive, EndExtraLive, FinishFileLive, StartEntryLive,
       WriteEndRecordsLive
    DEF Next
  <2>2. LiveStep => PromisesOK' /\ ExtraDone' /\ Ended'
    BY DEF LiveStep, Goes, Grows, Ended
  <2>3. Finalizes => PromisesOK' /\ ExtraDone' /\ Ended'
    BY DEF Finalizes, PromiseInv, PromisesOK
  <2> QED
    BY <1>1, <1>2, <2>1, <2>2, <2>3 DEF PromiseInv, ObservedStep, Shown
<1>3. CASE status = "finished"
  <2>1. UNCHANGED <<disk, status, promised>> /\ ExtraDone' /\ Ended'
    BY <1>3, FinishedStep
  <2> QED
    BY <1>1, <1>3, <2>1 DEF PromiseInv, PromisesOK, ObservedStep
<1>4. status \in {"live", "finished", "dropped", "aborted"}
  BY DEF PromiseInv, SinkInv, IInv, TypeOK
<1> QED
  BY <1>2, <1>3, <1>4, GoneStep

\* new() promises nothing, new_append what it finds in the archive.
LEMMA InitPromise == Init => PromiseInv
<1> SUFFICES ASSUME Init PROVE PromiseInv
  OBVIOUS
<1>1. SinkInv
  BY InitSink
<1>2. pc = "idle" /\ status = "live"
  BY DEF Init, New, NewAppend, InitWriter
<1>3. PromisesOK
  <2>1. CASE New
    <3> DEFINE none == << >>
               found == [i \in 1..Len(none) |->
                  [name |-> none[i].name, data |-> ReadEntry(none, none[i]).data,
                   extra |-> CustomExtra(none[i].extra_field)]]
    <3>1. promised = found
      BY <2>1 DEF New, InitWriter
    <3>2. Len(none) = 0
      BY EmptyIsSeq
    <3> HIDE DEF none
    <3>3. found = [i \in 1..0 |-> found[i]]
      BY <3>2
    <3> HIDE DEF found
    <3>4. IsSeq(found) /\ Len(found) = 0
      BY <3>3, FunctionIsSeq
    <3> QED
      BY <3>1, <3>4 DEF PromisesOK
  <2>2. CASE NewAppend
    <3> DEFINE a(d) == OpenArchive(d)
               fs(d) == a(d).files
               entry(d, i) ==
                  [name |-> fs(d)[i].name, data |-> ReadEntry(d, fs(d)[i]).data,
                   extra |-> CustomExtra(fs(d)[i].extra_field)]
    <3>1. PICK d \in Existing :
            a(d).ok /\ promised = [i \in 1..Len(fs(d)) |-> entry(d, i)]
      BY <2>2 DEF NewAppend, InitWriter
    <3>2. /\ IsSeq(fs(d))
          /\ \A i \in 1..Len(fs(d)) :
                /\ IsSeq(ReadEntry(d, fs(d)[i]).data)
                /\ IsSeq(CustomExtra(fs(d)[i].extra_field))
      BY <3>1, ExistingAssumption
    <3>3. \A i \in 1..Len(fs(d)) : IsPromise(entry(d, i))
      BY <3>2 DEF IsPromise
    <3> HIDE DEF entry
    <3>4. Len(fs(d)) \in Nat
      BY <3>2, LenIsNat
    <3> HIDE DEF fs
    <3>5. promised = [i \in 1..Len(fs(d)) |-> promised[i]]
      BY <3>1
    <3>6. IsSeq(promised) /\ Len(promised) = Len(fs(d))
      BY <3>4, <3>5, FunctionIsSeq
    <3> QED
      BY <3>1, <3>3, <3>6 DEF PromisesOK
  <2> QED
    BY <2>1, <2>2 DEF Init
<1> QED
  BY <1>1, <1>2, <1>3 DEF PromiseInv, ExtraDone, AfterExtraSteps, Ended

-----------------------------------------------------------------------------
(***************************************************************************)
(* Local headers.  As long as the sink does not fail, the local headers in *)
(* front of the last one are those of `files', and the last one is when    *)
(* finish_file is through, or was from the beginning, in a raw copy.       *)
(***************************************************************************)
\* No data starts so close to 2^64 that a negative size would not be large.
FitsU64 == U64_MODULUS \in Nat /\ stats.start + ZIP64_BYTES_THR < U64_MODULUS

EarlierHeaders(d, fs) ==
    \A i \in 1..Len(fs) :
        /\ HeaderKnown(fs[i])
        /\ i < Len(fs) => /\ HeaderAgrees(d, fs[i])
                          /\ HeaderEnd(fs[i]) <= fs[Len(fs)].header_start

\* The last header is through, and its sizes are not touched any more.
Settled == writing_raw \/ pc \in {"local_header", "central"}

\* The position is behind the header; or it was left inside the header of an
\* entry that was refused for its size.
PositionKnown(f) ==
    \/ HeaderEnd(f) <= pos /\ stats.start <= pos
    \/ /\ ~Settled /\ ~writing_to_extra_field /\ TooLarge(f)
       /\ HeaderEnd(f) <= stats.start /\ pos < stats.start

\* Where the data starts need not be known for an entry of an existing
\* archive: no more data can be written to it, and its header is only touched
\* in the drop after a panic.
Untied ==
    \/ Settled \/ result = "panic"
    \/ call.op = "drop" /\ pc \in FinishFileSteps

StartKnown(f) == HeaderEnd(f) <= stats.start \/ Untied

ExtraStartKnown(f) ==
    writing_to_extra_field =>
        /\ HeaderEnd(f) <= f.data_start
        /\ ~writing_to_central_extra_field_only => f.data_start <= pos

LastHeader(f) ==
    /\ Settled => HeaderAgrees(disk, f)
    /\ PositionKnown(f) /\ StartKnown(f) /\ ExtraStartKnown(f)

StatsOK == "start" \in DOMAIN stats /\ stats.start \in Nat

LiveHeaders ==
    /\ EarlierHeaders(disk, files)
    /\ files # << >> => LastHeader(LastFile)
    /\ StatsOK
    /\ pc # "idle" => result = "none"

AllHeadersAgree == \A i \in 1..Len(files) : HeaderAgrees(disk, files[i])

Headers ==
    /\ status = "live" => LiveHeaders
    /\ status = "finished" => AllHeadersAgree
    /\ Committed => AllHeadersAgree

HeadersInv == faults = 0 => Headers

\* A cell after a write: what was written, or what was there, or a hole.
LEMMA WriteAtCells ==
    ASSUME NEW d, IsSeq(d), NEW p \in Nat, NEW cells, IsSeq(cells), NEW q \in Nat
    PROVE  At(WriteAt(d, p, cells), q)
             = IF p <= q /\ q < p + Len(cells) THEN cells[q - p + 1] ELSE At(d, q)
<1> DEFINE T == {d[i] : i \in DOMAIN d} \cup {cells[i] : i \in DOMAIN cells}
                  \cup {<<"hole">>}
           n == Len(cells)
           l == Len(d)
           m == Min({p, l})
           front == SubSeq(d, 1, m)
           gap == Holes(p - l)
           back == SubSeq(d, p + n + 1, l)
           start == front \o gap
           middle == start \o cells
           after == middle \o back
<1>1. d \in Seq(T) /\ cells \in Seq(T) /\ {<<"hole">>} \subseteq T
  BY DEF IsSeq
<1> HIDE DEF T
<1>2. l \in Nat /\ n \in Nat
  BY <1>1, LenProperties
<1>3. m = (IF p <= l THEN p ELSE l) /\ m \in Nat /\ m <= l
  BY <1>2, MinOfTwo
<1>4. \A i \in 1..l : d[i] \in T
  BY <1>1, ElementOfSeq
<1> HIDE DEF m, n, l
<1>5. front \in Seq(T) /\ Len(front) = m /\ \A i \in 1..m : front[i] = d[i]
  BY <1>2, <1>3, <1>4, SubSeqProperties DEF l
<1>6. /\ gap \in Seq({<<"hole">>})
      /\ Len(gap) = IF p > l THEN p - l ELSE 0
  BY <1>2, HolesFill
<1>7. gap \in Seq(T) /\ \A i \in 1..Len(gap) : gap[i] = <<"hole">>
  <2>1. gap \in Seq(T)
    BY <1>1, <1>6, SeqMonotonic
  <2>2. \A i \in 1..Len(gap) : gap[i] \in {<<"hole">>}
    <3> HIDE DEF gap
    <3> QED
      BY <1>6, ElementOfSeq
  <2> QED
    BY <2>1, <2>2
<1>8. /\ back \in Seq(T)
      /\ Len(back) = IF p + n + 1 <= l THEN l - (p + n) ELSE 0
      /\ \A i \in 1..Len(back) : back[i] = d[p + n + i]
  <2> DEFINE b == p + n + 1
  <2>1. b \in Nat /\ \A i \in b..l : d[i] \in T
    BY <1>2, <1>4
  <2>2. /\ back \in Seq(T) /\ Len(back) = IF b <= l THEN l - b + 1 ELSE 0
        /\ \A i \in 1..l - b + 1 : back[i] = d[b + i - 1]
    <3> HIDE DEF b
    <3> QED
      BY <1>2, <2>1, SubSeqProperties DEF b, l
  <2> HIDE DEF back
  <2>3. \A i \in 1..Len(back) : b + i - 1 = p + n + i /\ i \in 1..l - b + 1
    BY <1>2, <2>2
  <2> QED
    BY <1>2, <2>2, <2>3
<1> HIDE DEF front, gap, back
<1>9. /\ start \in Seq(T) /\ Len(start) = p
      /\ \A i \in 1..p : start[i] = IF i <= l THEN d[i] ELSE <<"hole">>
  <2>1. /\ start \in Seq(T) /\ Len(start) = Len(front) + Len(gap)
        /\ \A i \in 1..Len(front) + Len(gap) :
              start[i] = IF i <= Len(front) THEN front[i] ELSE gap[i - Len(front)]
    BY <1>5, <1>7, ConcatProperties
  <2>2. Len(front) + Len(gap) = p
    BY <1>2, <1>3, <1>5, <1>6
  <2> HIDE DEF start
  <2>3. ASSUME NEW i \in 1..p
        PROVE  start[i] = IF i <= l THEN d[i] ELSE <<"hole">>
    <3>1. CASE i <= m
      <4>1. i \in 1..m /\ i <= l /\ i <= Len(front) /\ i \in 1..Len(front) + Len(gap)
        BY <1>2, <1>3, <1>5, <2>2, <3>1
      <4> QED
        BY <1>5, <2>1, <4>1
    <3>2. CASE ~(i <= m)
      <4>1. ~(i <= l) /\ ~(i <= Len(front)) /\ i - Len(front) \in 1..Len(gap)
            /\ i \in 1..Len(front) + Len(gap)
        BY <1>2, <1>3, <1>5, <1>6, <2>2, <3>2
      <4> QED
        BY <1>7, <2>1, <4>1
    <3> QED
      BY <3>1, <3>2
  <2> QED
    BY <2>1, <2>2, <2>3
<1> HIDE DEF start
<1>10. /\ middle \in Seq(T) /\ Len(middle) = p + n
       /\ \A i \in 1..p + n : middle[i] = IF i <= p THEN start[i] ELSE cells[i - p]
  BY <1>1, <1>9, ConcatProperties DEF n
<1> HIDE DEF middle
<1>11. /\ after \in Seq(T) /\ Len(after) = p + n + Len(back) /\ Len(back) \in Nat
       /\ \A i \in 1..p + n + Len(back) :
             after[i] = IF i <= p + n THEN middle[i] ELSE back[i - (p + n)]
  <2>1. Len(back) \in Nat /\ p + n \in Nat
    BY <1>2, <1>8
  <2>2. /\ after \in Seq(T) /\ Len(after) = Len(middle) + Len(back)
        /\ \A i \in 1..Len(middle) + Len(back) :
              after[i] = IF i <= Len(middle) THEN middle[i]
                                             ELSE back[i - Len(middle)]
    BY <1>8, <1>10, ConcatProperties
  <2> HIDE DEF after
  <2>3. Len(middle) = p + n
    BY <1>10
  <2> QED
    BY <2>1, <2>2, <2>3
<1> HIDE DEF after
<1>12. WriteAt(d, p, cells) = after
  BY DEF WriteAt, after, middle, start, front, gap, back, m, n, l
<1>13. At(after, q) = IF q < Len(after) THEN after[q + 1] ELSE <<"hole">>
  BY DEF At
<1>14. At(d, q) = IF q < l THEN d[q + 1] ELSE <<"hole">>
  BY DEF At, l
<1>15. At(after, q) = IF p <= q /\ q < p + n THEN cells[q - p + 1] ELSE At(d, q)
  <2>1. CASE q < p
    <3>1. q + 1 \in 1..p /\ q + 1 \in 1..p + n /\ q + 1 \in 1..p + n + Len(back)
          /\ q + 1 <= p + n /\ q + 1 <= p /\ q < Len(after)
      BY <1>2, <1>11, <2>1
    <3>2. after[q + 1] = start[q + 1]
      BY <1>10, <1>11, <3>1
    <3>3. start[q + 1] = IF q < l THEN d[q + 1] ELSE <<"hole">>
      BY <1>2, <1>9, <3>1
    <3> QED
      BY <1>13, <1>14, <2>1, <3>1, <3>2, <3>3
  <2>2. CASE p <= q /\ q < p + n
    <3>1. q + 1 \in 1..p + n /\ q + 1 \in 1..p + n + Len(back)
          /\ q + 1 <= p + n /\ ~(q + 1 <= p) /\ q < Len(after) /\ q + 1 - p = q - p + 1
      BY <1>2, <1>11, <2>2
    <3>2. after[q + 1] = cells[q - p + 1]
      BY <1>10, <1>11, <3>1
    <3> QED
      BY <1>13, <2>2, <3>1, <3>2
  <2>3. CASE p + n <= q
    <3>1. CASE q < l
      <4> DEFINE j == q + 1 - (p + n)
      <4>1. /\ Len(back) = l - (p + n) /\ j \in 1..Len(back)
            /\ q + 1 \in 1..p + n + Len(back) /\ ~(q + 1 <= p + n) /\ q < Len(after)
            /\ p + n + j = q + 1
        BY <1>2, <1>8, <1>11, <2>3, <3>1
      <4>2. after[q + 1] = back[j]
        <5>1. after[q + 1] = IF q + 1 <= p + n THEN middle[q + 1] ELSE back[j]
          BY <1>2, <1>11, <4>1
        <5> QED
          BY <4>1, <5>1
      <4> HIDE DEF j
      <4>3. back[j] = d[q + 1]
        BY <1>8, <4>1
      <4>4. At(after, q) = d[q + 1]
        BY <1>13, <4>1, <4>2, <4>3
      <4>5. At(d, q) = d[q + 1]
        BY <1>14, <3>1
      <4>6. ~(p <= q /\ q < p + n)
        BY <1>2, <2>3
      <4> QED
        BY <4>4, <4>5, <4>6
    <3>2. CASE ~(q < l)
      <4>1. ~(q < Len(after))
        BY <1>2, <1>8, <1>11, <2>3, <3>2
      <4> QED
        BY <1>2, <1>13, <1>14, <2>3, <3>2, <4>1
    <3> QED
      BY <3>1, <3>2
  <2> QED
    BY <1>2, <2>1, <2>2, <2>3
<1> QED
  BY <1>12, <1>15 DEF n

\* Where a header is known, and how long it is.
LEMMA HeaderEndIs ==
    ASSUME NEW f, HeaderKnown(f)
    PROVE  /\ f.header_start \in Nat /\ HeaderEnd(f) \in Nat
           /\ HeaderEnd(f) = f.header_start + (IF f.large_file THEN 5 ELSE 4)
BY DEF HeaderKnown, IsEntry, HeaderEnd, ZeroOrOne, HEADER_LEN

\* A write behind a header, or at the length of its extra field.
LEMMA WriteBehindHeader ==
    ASSUME NEW d, IsSeq(d), NEW p \in Nat, NEW cells, IsSeq(cells),
           NEW f, HeaderKnown(f), HeaderAgrees(d, f),
           \/ HeaderEnd(f) <= p
           \/ p = f.header_start + EXTRA_LEN_OFFSET /\ Len(cells) = 1
    PROVE  HeaderAgrees(WriteAt(d, p, cells), f)
<1> DEFINE w == WriteAt(d, p, cells)
           h == f.header_start
<1>1. /\ h \in Nat /\ Len(cells) \in Nat
      /\ HeaderEnd(f) = h + (IF f.large_file THEN 5 ELSE 4)
  BY HeaderEndIs, LenIsNat
<1>2. \A q \in Nat : ~(p <= q /\ q < p + Len(cells)) => At(w, q) = At(d, q)
  BY WriteAtCells
<1> HIDE DEF w, h
<1>3. /\ h + 1 \in Nat /\ h + 2 \in Nat /\ h + 4 \in Nat
      /\ ~(p <= h + 1 /\ h + 1 < p + Len(cells))
      /\ ~(p <= h + 2 /\ h + 2 < p + Len(cells))
      /\ f.large_file => ~(p <= h + 4 /\ h + 4 < p + Len(cells))
  <2>1. CASE HeaderEnd(f) <= p
    BY <1>1, <2>1
  <2>2. CASE p = h + 3 /\ Len(cells) = 1
    BY <1>1, <2>2
  <2> QED
    BY <2>1, <2>2 DEF EXTRA_LEN_OFFSET, h
<1>4. /\ At(w, h + 1) = At(d, h + 1) /\ At(w, h + 2) = At(d, h + 2)
      /\ f.large_file => At(w, h + 4) = At(d, h + 4)
  BY <1>2, <1>3
<1> QED
  BY <1>4 DEF HeaderAgrees, CRC32_OFFSET, SIZES_OFFSET, ZIP64_OFFSET, w, h

\* What lies in front of the position is not written.
Forward ==
    /\ pos' \in Nat /\ pos <= pos'
    /\ \A q \in Nat : q < pos => At(disk', q) = At(disk, q)

\* Two records of an entry with the same local header.
SameHeader(f, g) ==
    /\ HeaderKnown(g)
    /\ g.header_start = f.header_start /\ g.data_start = f.data_start
    /\ g.large_file = f.large_file /\ g.crc32 = f.crc32
    /\ g.compressed_size = f.compressed_size
    /\ g.uncompressed_size = f.uncompressed_size

SameHeaders ==
    /\ Len(files') = Len(files)
    /\ \A i \in 1..Len(files) : SameHeader(files[i], files'[i])

\* A step that moves on from where the writer is.
MovesOn ==
    /\ Forward /\ SameHeaders
    /\ "start" \in DOMAIN stats' /\ stats'.start = stats.start
    /\ files # << >> => (Settled' => Settled)
    /\ Untied => Untied'
    /\ writing_to_extra_field' =>
         /\ writing_to_extra_field
         /\ writing_to_central_extra_field_only
              => writing_to_central_extra_field_only'
    /\ pc' # "idle" => result' = "none"

\* A header that agrees is not touched by a write behind it.
LEMMA AgreesBehind ==
    ASSUME NEW f, HeaderKnown(f), NEW d, HeaderAgrees(d, f),
           NEW p \in Nat, HeaderEnd(f) <= p,
           NEW e, \A q \in Nat : q < p => At(e, q) = At(d, q)
    PROVE  HeaderAgrees(e, f)
<1> DEFINE h == f.header_start
<1>1. h \in Nat /\ HeaderEnd(f) = h + (IF f.large_file THEN 5 ELSE 4)
  BY HeaderEndIs
<1> HIDE DEF h
<1>2. /\ h + 1 \in Nat /\ h + 1 < p /\ h + 2 \in Nat /\ h + 2 < p
      /\ h + 4 \in Nat
      /\ f.large_file => h + 4 < p
  BY <1>1
<1>3. /\ At(e, h + 1) = At(d, h + 1) /\ At(e, h + 2) = At(d, h + 2)
      /\ f.large_file => At(e, h + 4) = At(d, h + 4)
  BY <1>2
<1> QED
  BY <1>3 DEF HeaderAgrees, CRC32_OFFSET, SIZES_OFFSET, ZIP64_OFFSET, h

\* Records with the same header agree with the same disks.
LEMMA SameHeaderAgrees ==
    ASSUME NEW f, NEW g, SameHeader(f, g)
    PROVE  /\ HeaderEnd(g) = HeaderEnd(f)
           /\ \A d : HeaderAgrees(d, f) => HeaderAgrees(d, g)
BY DEF SameHeader, HeaderEnd, HeaderAgrees, LocalZip64, LocalSizes

\* What is known of the last file.
LEMMA LastHeaderFacts ==
    ASSUME PromiseInv, LiveHeaders, files # << >>
    PROVE  /\ HeaderKnown(LastFile) /\ LastHeader(LastFile)
           /\ LastFile.header_start \in Nat /\ HeaderEnd(LastFile) \in Nat
           /\ LastFile.header_start <= pos /\ pos \in Nat
           /\ Len(files) \in 1..Len(files) /\ Len(files) \in Nat
<1>1. IsSeq(files) /\ EntriesOK /\ LastFile.header_start <= pos /\ pos \in Nat
  BY SealedBounds DEF PromiseInv, SinkInv, VectorsOK, LastFileLocated
<1>2. Len(files) \in 1..Len(files) /\ Len(files) \in Nat
  BY <1>1, LastFileIsEntry, LenIsNat
<1>3. HeaderKnown(LastFile) /\ LastHeader(LastFile)
  BY <1>2 DEF LiveHeaders, EarlierHeaders, LastFile
<1> QED
  BY <1>1, <1>2, <1>3, HeaderEndIs

\* The headers in front of the last one keep agreeing when what lies in front
\* of it is not written, and the headers stay.
LEMMA EarlierKept ==
    ASSUME PromiseInv, LiveHeaders,
           files # << >> =>
             \A q \in Nat : q < LastFile.header_start => At(disk', q) = At(disk, q),
           Len(files') = Len(files),
           files # << >> => /\ HeaderKnown(files'[Len(files)])
                            /\ files'[Len(files)].header_start = LastFile.header_start,
           \A i \in 1..Len(files) : i < Len(files) => SameHeader(files[i], files'[i])
    PROVE  EarlierHeaders(disk', files')
<1> SUFFICES ASSUME NEW i \in 1..Len(files)
             PROVE  /\ HeaderKnown(files'[i])
                    /\ i < Len(files) =>
                         /\ HeaderAgrees(disk', files'[i])
                         /\ HeaderEnd(files'[i]) <= files'[Len(files)].header_start
  BY DEF EarlierHeaders
<1>1. Len(files) \in Nat /\ IsSeq(files)
  BY SealedBounds DEF PromiseInv
<1>2. files # << >>
  BY <1>1, EmptyIsSeq
<1>3. CASE i = Len(files)
  BY <1>1, <1>2, <1>3
<1>4. CASE i < Len(files)
  <2> DEFINE f == files[i]
             g == files'[i]
  <2>1. /\ HeaderKnown(f) /\ HeaderAgrees(disk, f)
        /\ HeaderEnd(f) <= LastFile.header_start
    BY <1>4 DEF LiveHeaders, EarlierHeaders, LastFile
  <2>2. SameHeader(f, g)
    BY <1>4
  <2>3. LastFile.header_start \in Nat
    BY <1>2, LastHeaderFacts
  <2>4. \A q \in Nat : q < LastFile.header_start => At(disk', q) = At(disk, q)
    BY <1>2
  <2> HIDE DEF f, g
  <2>5. HeaderAgrees(disk', f)
    BY <2>1, <2>3, <2>4, AgreesBehind
  <2>6. HeaderAgrees(disk', g) /\ HeaderEnd(g) = HeaderEnd(f) /\ HeaderKnown(g)
    BY <2>2, <2>5, SameHeaderAgrees DEF SameHeader
  <2> QED
    BY <1>2, <2>1, <2>6 DEF g
<1> QED
  BY <1>1, <1>3, <1>4

\* A step that moves on keeps the headers.
LEMMA MovingOnKeeps ==
    ASSUME PromiseInv, PromiseInv', LiveHeaders, MovesOn
    PROVE  LiveHeaders'
<1>1. /\ Forward /\ SameHeaders
      /\ "start" \in DOMAIN stats' /\ stats'.start = stats.start
  BY DEF MovesOn
<1>2. StatsOK' /\ stats.start \in Nat
  BY <1>1 DEF LiveHeaders, StatsOK
<1>3. EarlierHeaders(disk, files)'
  <2>1. ASSUME files # << >>
        PROVE  /\ \A q \in Nat : q < LastFile.header_start => At(disk', q) = At(disk, q)
               /\ HeaderKnown(files'[Len(files)])
               /\ files'[Len(files)].header_start = LastFile.header_start
    <3>1. /\ Len(files) \in 1..Len(files) /\ pos \in Nat
          /\ LastFile.header_start \in Nat /\ LastFile.header_start <= pos
      BY <2>1, LastHeaderFacts
    <3>2. SameHeader(LastFile, files'[Len(files)])
      BY <1>1, <3>1 DEF SameHeaders, LastFile
    <3>3. \A q \in Nat : q < LastFile.header_start => q < pos
      BY <3>1
    <3> QED
      BY <1>1, <3>2, <3>3 DEF SameHeader, Forward
  <2> QED
    BY <1>1, <2>1, EarlierKept DEF SameHeaders
<1>4. ASSUME files' # << >>
      PROVE  LastHeader(LastFile)'
  <2> DEFINE f == LastFile
             g == files'[Len(files)]
  <2>1. files # << >> /\ LastFile' = g
    <3>1. IsSeq(files) /\ IsSeq(files')
      BY SealedBounds DEF PromiseInv, SinkInv, IInv, TypeOK
    <3>2. files # << >>
      BY <1>1, <1>4, <3>1, LenIsNat, EmptyIsSeq DEF SameHeaders
    <3> QED
      BY <1>1, <3>2 DEF SameHeaders, LastFile
  <2>2. /\ HeaderKnown(f) /\ LastHeader(f) /\ HeaderEnd(f) \in Nat /\ pos \in Nat
        /\ Len(files) \in 1..Len(files)
    BY <2>1, LastHeaderFacts
  <2>3. SameHeader(f, g)
    BY <1>1, <2>2 DEF SameHeaders, LastFile
  <2>4. /\ HeaderEnd(g) = HeaderEnd(f)
        /\ HeaderAgrees(disk', f) => HeaderAgrees(disk', g)
        /\ TooLarge(f) => TooLarge(g)
        /\ g.data_start = f.data_start
    BY <2>3, SameHeaderAgrees DEF SameHeader, TooLarge
  <2> HIDE DEF f, g
  <2>5. /\ pos' \in Nat /\ pos <= pos'
        /\ \A q \in Nat : q < pos => At(disk', q) = At(disk, q)
    BY <1>1 DEF Forward
  <2>6. Settled' => Settled
    BY <2>1 DEF MovesOn
  <2>7. Settled' => HeaderAgrees(disk', g)
    <3>1. Settled => HeaderAgrees(disk, f) /\ HeaderEnd(f) <= pos
      BY <2>2 DEF LastHeader, PositionKnown
    <3> QED
      BY <2>2, <2>4, <2>5, <2>6, <3>1, AgreesBehind
  <2>8. \/ HeaderEnd(g) <= pos' /\ stats'.start <= pos'
        \/ /\ ~Settled' /\ ~writing_to_extra_field' /\ TooLarge(g)
           /\ HeaderEnd(g) <= stats'.start /\ pos' < stats'.start
    <3>1. CASE HeaderEnd(f) <= pos /\ stats.start <= pos
      BY <1>1, <1>2, <2>2, <2>4, <2>5, <3>1
    <3>2. CASE /\ ~Settled /\ ~writing_to_extra_field /\ TooLarge(f)
               /\ HeaderEnd(f) <= stats.start /\ pos < stats.start
      <4>1. ~Settled' /\ ~writing_to_extra_field' /\ TooLarge(g)
        BY <2>4, <2>6, <3>2 DEF MovesOn
      <4> QED
        BY <1>1, <1>2, <2>2, <2>4, <2>5, <3>2, <4>1
    <3> QED
      BY <2>2, <3>1, <3>2 DEF LastHeader, PositionKnown
  <2>9. HeaderEnd(g) <= stats'.start \/ Untied'
    BY <1>1, <2>2, <2>4 DEF MovesOn, LastHeader, StartKnown
  <2>10. writing_to_extra_field' =>
           /\ HeaderEnd(g) <= g.data_start
           /\ ~writing_to_central_extra_field_only' => g.data_start <= pos'
    <3>1. writing_to_extra_field =>
            /\ HeaderEnd(f) <= f.data_start
            /\ ~writing_to_central_extra_field_only => f.data_start <= pos
      BY <2>2 DEF LastHeader, ExtraStartKnown
    <3>2. writing_to_extra_field => f.data_start \in Nat
      BY <2>1 DEF PromiseInv, SinkInv, LastFileLocated, f
    <3> QED
      BY <2>2, <2>4, <2>5, <3>1, <3>2 DEF MovesOn
  <2> QED
    BY <2>1, <2>7, <2>8, <2>9, <2>10
    DEF LastHeader, PositionKnown, StartKnown, ExtraStartKnown
<1> QED
  BY <1>2, <1>3, <1>4 DEF LiveHeaders, MovesOn

\* What a step of a live writer whose sink does not fail is shown from.
Premises ==
    /\ PromiseInv /\ PromiseInv' /\ LiveHeaders
    /\ status = "live" /\ status' = "live" /\ faults' = 0

\* Without a fault no write fails.
LEMMA NoFaults ==
    ASSUME Premises
    PROVE  \A trace : ~Fails(trace) /\ \A i : ~FailsAt(trace, i)
<1>1. faults \in Nat /\ faults' = 0
  BY DEF Premises, PromiseInv, SinkInv, IInv, TypeOK
<1> QED
  BY <1>1 DEF Fails, FailsAt

\* A step that leaves the sink alone, and one that writes at the position.
LEMMA StandsForward ==
    ASSUME Premises, UNCHANGED sinkVars
    PROVE  Forward
<1>1. pos \in Nat
  BY DEF Premises, PromiseInv, SinkInv, VectorsOK
<1> QED
  BY <1>1 DEF Forward, sinkVars

LEMMA WritesForward ==
    ASSUME Premises, NEW cells, IsSeq(cells),
           \/ Succeeds(WriteTrace(disk, pos, cells))
           \/ Succeeds(Still(WriteTrace(disk, pos, cells)))
           \/ \E w : Succeeds(SinkTrace(w, cells))
    PROVE  Forward
<1>1. pos \in Nat /\ IsSeq(disk) /\ Len(cells) \in Nat /\ SinkInv
  BY LenIsNat DEF Premises, PromiseInv, SinkInv, VectorsOK
<1>2. CASE disk' = WriteAt(disk, pos, cells) /\ pos' = pos + Len(cells)
  <2>1. \A q \in Nat : q < pos => At(WriteAt(disk, pos, cells), q) = At(disk, q)
    BY <1>1, WriteAtCells
  <2> QED
    BY <1>1, <1>2, <2>1 DEF Forward
<1>3. CASE Succeeds(WriteTrace(disk, pos, cells))
  <2> DEFINE trace == WriteTrace(disk, pos, cells)
             n == Len(cells) + 1
  <2>1. Len(trace) = n /\ trace[n] = <<WriteAt(disk, pos, cells), pos + Len(cells)>>
    BY <1>1, WriteTraceEnds
  <2> HIDE DEF n
  <2>2. trace[Len(trace)] = <<WriteAt(disk, pos, cells), pos + Len(cells)>>
    BY <2>1
  <2> QED
    BY <1>2, <1>3, <2>2 DEF Succeeds, MoveSink
<1>4. CASE Succeeds(Still(WriteTrace(disk, pos, cells)))
  <2> DEFINE trace == Still(WriteTrace(disk, pos, cells))
  <2>1. trace[Len(trace)] = <<WriteAt(disk, pos, cells), pos + Len(cells)>>
    BY <1>1, WriteHereEnds
  <2> QED
    BY <1>2, <1>4, <2>1 DEF Succeeds, MoveSink
<1>5. CASE \E w : Succeeds(SinkTrace(w, cells))
  <2>1. PICK w : Succeeds(SinkTrace(w, cells))
    BY <1>5
  <2>2. CASE w.encrypted
    <3>1. SinkTrace(w, cells) = << <<disk, pos>> >>
      BY <2>2 DEF SinkTrace
    <3>2. UNCHANGED sinkVars
      BY <2>1, <3>1 DEF Succeeds, MoveSink, sinkVars
    <3> QED
      BY <3>2, StandsForward
  <2>3. CASE ~w.encrypted
    BY <1>3, <2>1, <2>3 DEF SinkTrace
  <2> QED
    BY <2>2, <2>3
<1> QED
  BY <1>3, <1>4, <1>5

\* Files that stay have the same headers.
LEMMA FilesStay ==
    ASSUME Premises, UNCHANGED files
    PROVE  SameHeaders
BY DEF Premises, LiveHeaders, EarlierHeaders, SameHeaders, SameHeader

\* What becomes of Settled and Untied as long as the step is not one that
\* ends finish_file or follows it.
LEMMA ControlMoves ==
    ASSUME Premises, UNCHANGED writing_raw,
           pc \notin {"local_header", "central"},
           pc' \notin {"local_header", "central"},
           \/ result' = "panic"
           \/ pc \notin FinishFileSteps /\ result # "panic"
           \/ pc \in FinishFileSteps /\ call.op # "drop"
           \/ /\ pc \in FinishFileSteps /\ pc' \in FinishFileSteps
              /\ UNCHANGED <<call, result>>
           \/ call'.op = "drop" /\ pc' \in FinishFileSteps
    PROVE  (Settled' => Settled) /\ (Untied => Untied')
<1>1. pc \in FinishFileSteps => result = "none"
  BY DEF Premises, LiveHeaders, FinishFileSteps
<1> QED
  BY <1>1 DEF Settled, Untied

\* A step that changes neither the files nor the flags.
LEMMA QuietStep ==
    ASSUME Premises, Forward, UNCHANGED files,
           UNCHANGED stats \/ \E cells : stats' = Update(cells),
           Settled' => Settled, Untied => Untied',
           UNCHANGED <<writing_to_extra_field, writing_to_central_extra_field_only>>,
           pc' # "idle" => result' = "none"
    PROVE  LiveHeaders'
<1>1. "start" \in DOMAIN stats
  BY DEF Premises, LiveHeaders, StatsOK
<1>2. "start" \in DOMAIN stats' /\ stats'.start = stats.start
  BY <1>1 DEF Update
<1>3. MovesOn
  BY <1>2, FilesStay DEF MovesOn
<1> QED
  BY <1>3, MovingOnKeeps DEF Premises

\* Every call that begins.
LEMMA BeginHeaders ==
    ASSUME Premises, NEW c, NEW step, Begin(c, step),
           step \in FinishFileSteps \cup {"end_extra"}
    PROVE  LiveHeaders'
<1>1. /\ UNCHANGED <<files, stats, writing_raw, writing_to_extra_field,
                     writing_to_central_extra_field_only>>
      /\ pc = "idle" /\ result # "panic" /\ pc' = step /\ result' = "none"
      /\ UNCHANGED sinkVars
  BY DEF Begin, Idle, dataVars, flagVars
<1>2. pc' \notin {"local_header", "central"} /\ pc \notin FinishFileSteps
  BY <1>1 DEF FinishFileSteps
<1>3. (Settled' => Settled) /\ (Untied => Untied')
  BY <1>1, <1>2, ControlMoves
<1> QED
  BY <1>1, <1>3, StandsForward, QuietStep

LEMMA CallsHeaders ==
    ASSUME Premises,
           \/ StartFile \/ StartFileWithExtraData \/ StartFileAligned
           \/ AddDirectory \/ AddSymlink \/ RawCopyFile
           \/ EndExtraData \/ EndLocalStartCentralExtraData \/ Finish
    PROVE  LiveHeaders'
<1>1. FinishFile \in FinishFileSteps
  BY FinishFileSafe DEF Premises, PromiseInv, SinkInv, IInv, TypeOK
<1>2. ASSUME NEW c, AddEntry(c) PROVE LiveHeaders'
  BY <1>1, <1>2, BeginHeaders DEF AddEntry
<1>3. CASE \/ StartFile \/ StartFileWithExtraData \/ StartFileAligned
           \/ AddDirectory \/ AddSymlink \/ RawCopyFile
  BY <1>2, <1>3 DEF StartFile, StartFileWithExtraData, StartFileAligned,
       AddDirectory, AddSymlink, RawCopyFile
<1>4. CASE EndExtraData \/ EndLocalStartCentralExtraData
  BY <1>4, BeginHeaders DEF EndExtraData, EndLocalStartCentralExtraData
<1>5. CASE Finish
  BY <1>1, <1>5, BeginHeaders DEF Finish
<1> QED
  BY <1>3, <1>4, <1>5

LEMMA DropHeaders == ASSUME Premises, Drop PROVE LiveHeaders'
<1>1. FinishFile \in FinishFileSteps
  BY FinishFileSafe DEF Premises, PromiseInv, SinkInv, IInv, TypeOK
<1>2. /\ UNCHANGED <<files, stats, writing_raw, writing_to_extra_field,
                     writing_to_central_extra_field_only>>
      /\ pc = "idle" /\ pc' = FinishFile /\ result' = "none"
      /\ UNCHANGED sinkVars
  BY DEF Drop, dataVars, flagVars, Premises
<1>3. call'.op = "drop"
  BY DEF Drop, NoCall
<1>4. pc' \notin {"local_header", "central"}
  BY <1>1, <1>2 DEF FinishFileSteps
<1>5. (Settled' => Settled) /\ (Untied => Untied')
  BY <1>1, <1>2, <1>3, <1>4, ControlMoves
<1> QED
  BY <1>2, <1>5, StandsForward, QuietStep

\* set_comment and the calls of write that are refused.
LEMMA RefusalsHeaders ==
    ASSUME Premises, SetComment \/ WriteRefused
    PROVE  LiveHeaders'
<1>1. /\ UNCHANGED <<files, stats, writing_raw, writing_to_extra_field,
                     writing_to_central_extra_field_only>>
      /\ pc = "idle" /\ pc' = "idle" /\ result # "panic"
      /\ UNCHANGED sinkVars
  BY DEF SetComment, WriteRefused, Idle, Return, dataVars, flagVars
<1>2. pc \notin FinishFileSteps
  BY <1>1 DEF FinishFileSteps
<1>3. (Settled' => Settled) /\ (Untied => Untied')
  BY <1>1, <1>2, ControlMoves
<1> QED
  BY <1>1, <1>3, StandsForward, QuietStep

\* A call that returns or fails, files and flags as they were.
LEMMA ReturnHeaders ==
    ASSUME Premises, Forward, UNCHANGED files,
           UNCHANGED stats \/ \E cells : stats' = Update(cells),
           UNCHANGED <<writing_raw, writing_to_extra_field,
                       writing_to_central_extra_field_only>>,
           pc' = "idle", pc \notin {"local_header", "central"},
           \/ result' = "panic"
           \/ pc \notin FinishFileSteps /\ result # "panic"
           \/ pc \in FinishFileSteps /\ call.op # "drop"
    PROVE  LiveHeaders'
<1>1. (Settled' => Settled) /\ (Untied => Untied')
  BY ControlMoves
<1> QED
  BY <1>1, QuietStep

\* A failed call of a writer that is still there was no drop.
LEMMA FailIsNoDrop ==
    ASSUME Premises, Fail \/ Panic
    PROVE  call.op # "drop"
BY DEF Premises, Fail, Panic

\* A step in the middle of a call follows a result that is not a panic.
LEMMA NoPanicInside ==
    ASSUME Premises, pc # "idle"
    PROVE  result = "none"
BY DEF Premises, LiveHeaders

LEMMA FlushHeaders == ASSUME Premises, Flush PROVE LiveHeaders'
<1> DEFINE out == SyncFlush(inner)
<1>1. /\ UNCHANGED sinkVars \/ Succeeds(SinkTrace(inner, out))
      /\ UNCHANGED <<files, stats, writing_raw, writing_to_extra_field,
                     writing_to_central_extra_field_only>>
      /\ pc = "idle" /\ pc' = "idle" /\ result # "panic"
  BY NoFaults DEF Flush, Idle, Return, dataVars, flagVars
<1>2. IsSeq(out)
  BY PendingIsSeq, EmptyIsSeq DEF SyncFlush
<1> HIDE DEF out
<1>3. Forward
  BY <1>1, <1>2, StandsForward, WritesForward
<1>4. pc \notin FinishFileSteps
  BY <1>1 DEF FinishFileSteps
<1> QED
  BY <1>1, <1>3, <1>4, ReturnHeaders

LEMMA WriteDataHeaders ==
    ASSUME Premises, NEW cell, NEW writing, WriteData(cell, writing),
           UNCHANGED <<files, writing_raw, writing_to_extra_field,
                       writing_to_central_extra_field_only>>,
           pc \in {"idle", "target"}, result # "panic"
    PROVE  LiveHeaders'
<1>1. PICK split \in Splits(cell) :
        /\ Succeeds(SinkTrace(inner, split[1]))
        /\ stats' = Update(<<cell>>)
        /\ pc' = "idle"
  BY NoFaults DEF WriteData, Fail, Return
<1>2. IsSeq(split[1])
  BY PendingIsSeq, EmptyIsSeq, SingleIsSeq DEF Splits
<1>3. Forward
  BY <1>1, <1>2, WritesForward
<1>4. pc \notin FinishFileSteps /\ pc \notin {"local_header", "central"}
  BY DEF FinishFileSteps
<1> QED
  BY <1>1, <1>3, <1>4, ReturnHeaders

LEMMA WriteTargetHeaders == ASSUME Premises, WriteTarget PROVE LiveHeaders'
<1>1. pc = "target" /\ result # "panic"
  BY NoPanicInside DEF WriteTarget
<1>2. WriteData(call.cell, FALSE)
      /\ UNCHANGED <<files, writing_raw, writing_to_extra_field,
                     writing_to_central_extra_field_only>>
  BY DEF WriteTarget
<1> QED
  BY <1>1, <1>2, WriteDataHeaders

\* Another record of the last file with the same header.
LEMMA LastSameHeader ==
    ASSUME Premises, files # << >>, NEW g, SameHeader(LastFile, g),
           files' = SetLastFile(g)
    PROVE  SameHeaders
<1>1. IsSeq(files) /\ Len(files) \in 1..Len(files) /\ Len(files) \in Nat
  BY LastHeaderFacts, SealedBounds DEF Premises, PromiseInv
<1> DEFINE T == {files[i] : i \in DOMAIN files} \cup {g}
<1>2. files \in Seq(T) /\ g \in T
  BY <1>1 DEF IsSeq
<1> HIDE DEF T
<1>3. /\ Len(files') = Len(files)
      /\ \A i \in 1..Len(files) : files'[i] = IF i = Len(files) THEN g ELSE files[i]
  BY <1>1, <1>2, ExceptSeq DEF SetLastFile
<1>4. ASSUME NEW i \in 1..Len(files) PROVE SameHeader(files[i], files'[i])
  <2>1. CASE i = Len(files)
    BY <1>3, <2>1 DEF LastFile
  <2>2. CASE i # Len(files)
    BY <1>3, <2>2 DEF Premises, LiveHeaders, EarlierHeaders, SameHeader
  <2> QED
    BY <2>1, <2>2
<1> QED
  BY <1>3, <1>4 DEF SameHeaders

LEMMA WriteHeaders == ASSUME Premises, Write PROVE LiveHeaders'
<1>1. pc = "idle" /\ result # "panic" /\ writing_to_file
  BY DEF Write, Idle
<1>2. UNCHANGED <<writing_raw, writing_to_extra_field,
                  writing_to_central_extra_field_only>>
  BY DEF Write
<1>3. CASE ~writing_to_extra_field
  <2>1. \E b \in Bytes : WriteData(b, TRUE)
    BY <1>3 DEF Write
  <2>2. UNCHANGED files
    BY <1>3 DEF Write
  <2> QED
    BY <1>1, <1>2, <2>1, <2>2, WriteDataHeaders
<1>4. CASE writing_to_extra_field
  <2> DEFINE f(cell) == [LastFile EXCEPT !.extra_field = Append(@, cell)]
  <2>1. PICK cell \in ExtraCells : files' = SetLastFile(f(cell))
    BY <1>4 DEF Write
  <2>2. UNCHANGED <<sinkVars, stats>> /\ pc' = "idle"
    BY <1>4 DEF Write, Return
  <2>3. files # << >>
    BY <1>4 DEF Premises, PromiseInv, SinkInv, IInv, LastFileExists
  <2>4. HeaderKnown(LastFile)
    BY <2>3, LastHeaderFacts DEF Premises
  <2>5. IsSeq(Append(LastFile.extra_field, cell))
    BY <2>4, AppendIsSeq DEF HeaderKnown, IsEntry
  <2>6. SameHeader(LastFile, f(cell))
    BY <2>4, <2>5 DEF SameHeader, HeaderKnown, IsEntry
  <2> HIDE DEF f
  <2>7. SameHeaders
    BY <2>1, <2>3, <2>6, LastSameHeader
  <2>8. pc \notin FinishFileSteps
    BY <1>1 DEF FinishFileSteps
  <2>9. (Settled' => Settled) /\ (Untied => Untied')
    BY <1>1, <1>2, <2>2, <2>8, ControlMoves
  <2>10. "start" \in DOMAIN stats' /\ stats'.start = stats.start
    BY <2>2 DEF Premises, LiveHeaders, StatsOK
  <2>11. MovesOn
    BY <1>2, <2>2, <2>7, <2>9, <2>10, StandsForward DEF MovesOn
  <2> QED
    BY <2>11, MovingOnKeeps DEF Premises
<1> QED
  BY <1>3, <1>4

\* end_extra_data that is refused, or panics.
LEMMA ExtraRefusedHeaders ==
    ASSUME Premises, ExtraRefused \/ EndLocalExtraPanics
    PROVE  LiveHeaders'
<1>1. /\ UNCHANGED <<files, stats, writing_raw, writing_to_extra_field,
                     writing_to_central_extra_field_only>>
      /\ pc \in ExtraSteps /\ pc' = "idle" /\ UNCHANGED sinkVars
      /\ Fail \/ Panic
  BY DEF ExtraRefused, EndLocalExtraPanics, EndingLocalExtra, Fail, Panic,
       dataVars, flagVars
<1>2. call.op # "drop"
  BY <1>1, FailIsNoDrop
<1>3. result # "panic"
  BY <1>1, NoPanicInside DEF ExtraSteps
<1>4. pc \notin {"local_header", "central"}
  BY <1>1 DEF ExtraSteps
<1> QED
  BY <1>1, <1>2, <1>3, <1>4, StandsForward, ReturnHeaders

\* What end_extra_data, in its two forms, does to the control state.
LEMMA ExtraEndedControl ==
    ASSUME Premises, NEW f, NEW w, IsWriter(w), ExtraEnded(f, w), pc \in ExtraSteps
    PROVE  /\ Settled' => Settled
           /\ Untied => Untied'
           /\ writing_to_extra_field' => writing_to_central_extra_field_only'
           /\ pc' # "idle" => result' = "none"
           /\ UNCHANGED writing_raw
<1>1. /\ UNCHANGED writing_raw
      /\ writing_to_extra_field' = EntersCentral
      /\ writing_to_central_extra_field_only' = EntersCentral
  BY DEF ExtraEnded, CentralOnlyNext
<1>2. result = "none"
  BY NoPanicInside DEF ExtraSteps
<1>3. pc \notin {"local_header", "central"}
  BY DEF ExtraSteps
<1>4. CASE pc = "end_extra"
  <2>1. pc' = "idle" /\ pc \notin FinishFileSteps
    BY <1>4 DEF ExtraEnded, Return, FinishFileSteps
  <2> QED
    BY <1>1, <1>2, <1>3, <2>1, ControlMoves
<1>5. CASE pc # "end_extra"
  <2>1. pc \in FinishFileSteps
    BY <1>5 DEF ExtraSteps, FinishFileSteps
  <2>2. pc' = AfterExtra(w) /\ UNCHANGED <<call, result>>
    BY <1>5 DEF ExtraEnded, Goto
  <2>3. pc' \in FinishFileSteps /\ pc' \notin {"local_header", "central"}
    BY <2>2, AfterExtraSafe DEF FinishFileSteps
  <2> QED
    BY <1>1, <1>2, <1>3, <2>1, <2>2, <2>3, ControlMoves
<1> QED
  BY <1>4, <1>5

LEMMA EndCentralExtraHeaders ==
    ASSUME Premises, EndCentralExtra
    PROVE  LiveHeaders'
<1>1. /\ pc \in ExtraSteps /\ writing_to_extra_field
      /\ ExtraEnded(LastFile, inner) /\ UNCHANGED <<sinkVars, stats>>
  BY DEF EndCentralExtra, ExtraAccepted
<1>2. IsWriter(inner) /\ files # << >>
  BY <1>1 DEF Premises, PromiseInv, SinkInv, IInv, TypeOK, LastFileExists
<1>3. /\ Settled' => Settled
      /\ Untied => Untied'
      /\ writing_to_extra_field' => writing_to_central_extra_field_only'
      /\ pc' # "idle" => result' = "none"
  BY <1>1, <1>2, ExtraEndedControl
<1>4. HeaderKnown(LastFile)
  BY <1>2, LastHeaderFacts DEF Premises
<1>5. PICK g : files' = SetLastFile(g) /\ (g = LastFile \/ g = ForLocalHeader(LastFile))
  BY <1>1 DEF ExtraEnded
<1>6. SameHeader(LastFile, LastFile)
  BY <1>4 DEF SameHeader
<1>7. SameHeader(LastFile, ForLocalHeader(LastFile))
  <2> DEFINE none == << >>
  <2>1. IsSeq(none)
    BY EmptyIsSeq
  <2> HIDE DEF none
  <2>2. ForLocalHeader(LastFile) = [LastFile EXCEPT !.extra_field = none]
    BY DEF ForLocalHeader, none
  <2>3. SameHeader(LastFile, [LastFile EXCEPT !.extra_field = none])
    BY <1>4, <2>1 DEF SameHeader, HeaderKnown, IsEntry
  <2> QED
    BY <2>2, <2>3
<1>8. SameHeaders
  BY <1>2, <1>5, <1>6, <1>7, LastSameHeader
<1>9. "start" \in DOMAIN stats' /\ stats'.start = stats.start
  BY <1>1 DEF Premises, LiveHeaders, StatsOK
<1>10. MovesOn
  BY <1>1, <1>3, <1>8, <1>9, StandsForward DEF MovesOn
<1> QED
  BY <1>10, MovingOnKeeps DEF Premises

\* The steps of finish_file in front of the header.
LEMMA SwitchStoredHeaders == ASSUME Premises, SwitchStored PROVE LiveHeaders'
<1> DEFINE tail  == Append(Pending(inner), <<"zend", inner.method>>)
           after == [inner EXCEPT !.method = "stored", !.pending = << >>,
                                  !.buffer = Kept(inner, tail)]
<1>1. /\ \/ Fail /\ UNCHANGED sinkVars
         \/ Succeeds(SinkTrace(inner, tail)) /\ Goto(AfterExtra(after))
      /\ pc = "switch_stored"
      /\ UNCHANGED <<files, stats, writing_raw, writing_to_extra_field,
                     writing_to_central_extra_field_only>>
  BY NoFaults DEF SwitchStored, dataVars, flagVars
<1>2. IsSeq(tail)
  BY PendingIsSeq
<1> HIDE DEF tail
<1>3. pc \in FinishFileSteps /\ pc \notin {"local_header", "central"}
  BY <1>1 DEF FinishFileSteps
<1>4. result = "none"
  BY <1>1, NoPanicInside
<1>5. CASE Fail /\ UNCHANGED sinkVars
  <2>1. pc' = "idle" /\ call.op # "drop"
    BY <1>5, FailIsNoDrop DEF Fail
  <2> QED
    BY <1>1, <1>3, <1>5, <2>1, StandsForward, ReturnHeaders
<1>6. CASE Succeeds(SinkTrace(inner, tail)) /\ Goto(AfterExtra(after))
  <2>1. Forward
    BY <1>2, <1>6, WritesForward
  <2>2. pc' = AfterExtra(after) /\ UNCHANGED <<call, result>>
    BY <1>6 DEF Goto
  <2> HIDE DEF after
  <2>3. pc' \in FinishFileSteps /\ pc' \notin {"local_header", "central"}
    BY <2>2 DEF AfterExtra, FinishFileSteps
  <2>4. (Settled' => Settled) /\ (Untied => Untied')
    BY <1>1, <1>3, <2>2, <2>3, ControlMoves
  <2> QED
    BY <1>1, <1>4, <2>1, <2>2, <2>4, QuietStep
<1> QED
  BY <1>1, <1>5, <1>6

LEMMA FinishCryptoHeaders == ASSUME Premises, FinishCrypto PROVE LiveHeaders'
<1> DEFINE cells == <<<<"crypthdr", stats.hasher>>>> \o Encrypted(inner.buffer)
<1>1. /\ Succeeds(Still(WriteTrace(disk, pos, cells))) /\ Goto("update_header")
      /\ pc = "finish_crypto"
      /\ UNCHANGED <<files, stats, writing_raw, writing_to_extra_field,
                     writing_to_central_extra_field_only>>
  BY NoFaults DEF FinishCrypto, dataVars, flagVars
<1>2. IsSeq(cells)
  <2> DEFINE e == Encrypted(inner.buffer)
             n == Len(inner.buffer)
  <2>1. n \in Nat
    BY LenIsNat DEF Premises, PromiseInv, SinkInv, VectorsOK, BufferOK
  <2>2. e = [i \in 1..n |-> e[i]]
    BY DEF Encrypted
  <2> HIDE DEF e, n
  <2>3. IsSeq(e)
    BY <2>1, <2>2, FunctionIsSeq
  <2> QED
    BY <2>3, SingleIsSeq, ConcatIsSeq DEF e
<1> HIDE DEF cells
<1>3. Forward
  BY <1>1, <1>2, WritesForward
<1>4. /\ pc' = "update_header" /\ UNCHANGED <<call, result>> /\ result = "none"
  BY <1>1, NoPanicInside DEF Goto
<1>5. (Settled' => Settled) /\ (Untied => Untied')
  BY <1>1, <1>4, ControlMoves DEF FinishFileSteps
<1> QED
  BY <1>1, <1>3, <1>4, <1>5, QuietStep

\* finish_file leaves the header of a raw copy, or of an existing entry.
LEMMA KeepHeaderHeaders == ASSUME Premises, KeepHeader PROVE LiveHeaders'
<1>1. /\ UNCHANGED <<files, stats, writing_to_extra_field, sinkVars,
                     writing_to_central_extra_field_only>>
      /\ pc = "update_header" /\ (writing_raw \/ files = << >>)
      /\ Goto(AfterFinishFile)
  BY DEF KeepHeader, dataVars
<1>2. files # << >> => Settled
  BY <1>1 DEF Settled
<1>3. Untied'
  BY <1>1 DEF Untied, Settled, Goto, AfterFinishFile
<1>4. result' = "none"
  BY <1>1, NoPanicInside DEF Goto
<1>5. "start" \in DOMAIN stats' /\ stats'.start = stats.start
  BY <1>1 DEF Premises, LiveHeaders, StatsOK
<1>6. MovesOn
  BY <1>1, <1>2, <1>3, <1>4, <1>5, StandsForward, FilesStay DEF MovesOn
<1> QED
  BY <1>6, MovingOnKeeps DEF Premises

LEMMA CopyRawHeaders == ASSUME Premises, CopyRaw PROVE LiveHeaders'
<1>1. /\ Succeeds(Still(WriteTrace(disk, pos, Raw.cells)))
      /\ stats' = Update(Raw.cells) /\ pc = "copy" /\ pc' = "idle"
      /\ UNCHANGED <<files, writing_raw, writing_to_extra_field,
                     writing_to_central_extra_field_only>>
  BY NoFaults DEF CopyRaw, Return, Fail, flagVars
<1>2. IsSeq(Raw.cells)
  BY DEF Raw, Premises, PromiseInv, SinkInv, VectorsOK, CallOK
<1>3. Forward
  BY <1>1, <1>2, WritesForward
<1>4. pc \notin FinishFileSteps /\ result # "panic"
  BY <1>1, NoPanicInside DEF FinishFileSteps
<1> QED
  BY <1>1, <1>3, <1>4, ReturnHeaders

\* finalize writes the directory behind everything else.
LEMMA WriteCentralHeaderHeaders ==
    ASSUME Premises, WriteCentralHeader
    PROVE  LiveHeaders'
<1> DEFINE cells ==
             IF OverflowChecks
                  /\ Len(CentralExtra(files[call.headers + 1])) > ZIP64_ENTRY_THR
             THEN HeaderBegun ELSE CentralHeader(files[call.headers + 1])
<1>1. /\ UNCHANGED <<files, stats, writing_raw, writing_to_extra_field,
                     writing_to_central_extra_field_only>>
      /\ pc = "central" /\ call.headers < Len(files)
      /\ Succeeds(WriteTrace(disk, pos, cells))
      /\ Panic \/ UNCHANGED <<pc, result>>
  BY NoFaults DEF WriteCentralHeader, dataVars, flagVars
<1>2. IsSeq(cells)
  <2> DEFINE f == files[call.headers + 1]
  <2>1. IsEntry(f)
    <3>1. /\ IsSeq(files) /\ EntriesOK /\ call.headers \in Nat
      BY SealedBounds DEF Premises, PromiseInv, SinkInv, VectorsOK, CallOK
    <3>2. call.headers + 1 \in 1..Len(files)
      BY <1>1, <3>1, LenIsNat
    <3> QED
      BY <3>1, <3>2 DEF EntriesOK
  <2>2. IsSeq(f.extra_field)
    BY <2>1 DEF IsEntry
  <2> HIDE DEF f
  <2>3. IsSeq(CentralExtra(f))
    BY <2>2, EmptyIsSeq, SingleIsSeq, ConcatIsSeq DEF CentralExtra
  <2>4. IsSeq(CentralHeader(f))
    BY <2>3, SingleIsSeq, ConcatIsSeq DEF CentralHeader
  <2>5. IsSeq(HeaderBegun)
    BY SingleIsSeq DEF HeaderBegun
  <2> QED
    BY <2>4, <2>5 DEF f
<1> HIDE DEF cells
<1>3. Forward
  BY <1>1, <1>2, WritesForward
<1>4. Settled /\ Untied' /\ result = "none"
  BY <1>1, NoPanicInside DEF Settled, Untied, Panic
<1>5. pc' # "idle" => result' = "none"
  BY <1>1, <1>4 DEF Panic
<1> QED
  BY <1>1, <1>3, <1>4, <1>5, QuietStep

\* The header of the last entry after a step that makes its record g.
NewLastHeader(g) ==
    /\ Settled' => HeaderAgrees(disk', g)
    /\ \/ HeaderEnd(g) <= pos' /\ stats'.start <= pos'
       \/ /\ ~Settled' /\ ~writing_to_extra_field' /\ TooLarge(g)
          /\ HeaderEnd(g) <= stats'.start /\ pos' < stats'.start
    /\ HeaderEnd(g) <= stats'.start \/ Untied'
    /\ writing_to_extra_field' =>
         /\ HeaderEnd(g) <= g.data_start
         /\ ~writing_to_central_extra_field_only' => g.data_start <= pos'

LEMMA NewLastIsLast ==
    ASSUME NEW g, files'[Len(files')] = g, NewLastHeader(g)
    PROVE  LastHeader(LastFile)'
BY DEF NewLastHeader, LastFile, LastHeader, PositionKnown, StartKnown,
       ExtraStartKnown

\* A step that changes the last record, but not where its header is.
LEMMA LastHeaderChanged ==
    ASSUME Premises, files # << >>,
           NEW g, files' = SetLastFile(g), HeaderKnown(g),
           g.header_start = LastFile.header_start,
           \A q \in Nat : q < LastFile.header_start => At(disk', q) = At(disk, q),
           StatsOK', pc' # "idle" => result' = "none",
           NewLastHeader(g)
    PROVE  LiveHeaders'
<1>1. IsSeq(files) /\ Len(files) \in 1..Len(files) /\ Len(files) \in Nat
  BY LastHeaderFacts, SealedBounds DEF Premises, PromiseInv
<1> DEFINE T == {files[i] : i \in DOMAIN files} \cup {g}
<1>2. files \in Seq(T) /\ g \in T
  BY <1>1 DEF IsSeq
<1> HIDE DEF T
<1>3. /\ Len(files') = Len(files)
      /\ \A i \in 1..Len(files) : files'[i] = IF i = Len(files) THEN g ELSE files[i]
  BY <1>1, <1>2, ExceptSeq DEF SetLastFile
<1>4. files'[Len(files)] = g
  BY <1>1, <1>3
<1>5. ASSUME NEW i \in 1..Len(files), i < Len(files)
      PROVE  SameHeader(files[i], files'[i])
  BY <1>1, <1>3, <1>5 DEF Premises, LiveHeaders, EarlierHeaders, SameHeader
<1>6. EarlierHeaders(disk, files)'
  BY <1>3, <1>4, <1>5, EarlierKept DEF Premises
<1>7. LastHeader(LastFile)'
  BY <1>3, <1>4, NewLastIsLast
<1> QED
  BY <1>6, <1>7 DEF LiveHeaders

\* What a local header consists of.
LEMMA LocalHeaderCells ==
    ASSUME NEW f
    PROVE  /\ Len(LocalHeader(f)) = IF f.large_file THEN 5 ELSE 4
           /\ LocalHeader(f)[2] = <<"crc", f.crc32>>
           /\ f.large_file => LocalHeader(f)[5] = LocalZip64(f)
           /\ ~f.large_file => LocalHeader(f)[3] = LocalSizes(f)
<1> DEFINE sizes == IF f.large_file
                    THEN <<"sizes", ZIP64_BYTES_THR, ZIP64_BYTES_THR>>
                    ELSE LocalSizes(f)
           a == <<"local", f.name, f.method, f.encrypted, FALSE>>
           b == <<"crc", f.crc32>>
           c == <<"extralen", LocalExtraLen(f)>>
           T == {a, b, sizes, c}
           start == <<a, b, sizes, c>>
           z == LocalZip64(f)
           rest  == IF f.large_file THEN <<z>> ELSE << >>
<1>1. LocalHeader(f) = start \o rest
  BY DEF LocalHeader
<1>2. sizes = IF f.large_file THEN <<"sizes", ZIP64_BYTES_THR, ZIP64_BYTES_THR>>
              ELSE LocalSizes(f)
  OBVIOUS
<1> HIDE DEF a, c, sizes
<1>3. b = <<"crc", f.crc32>>
  OBVIOUS
<1> HIDE DEF b
<1>4. start \in Seq(T) /\ Len(start) = 4 /\ start[2] = b /\ start[3] = sizes
  OBVIOUS
<1>5. IsSeq(start)
  BY <1>4, SeqIsSeq
<1> HIDE DEF start, z
<1>6. IsSeq(<<z>>) /\ Len(<<z>>) = 1 /\ <<z>>[1] = z
  BY SingleIsSeq
<1>7. IsSeq(<< >>) /\ Len(<< >>) = 0
  BY EmptyIsSeq
<1>8. /\ IsSeq(rest) /\ Len(rest) = IF f.large_file THEN 1 ELSE 0
      /\ f.large_file => rest[1] = z
  BY <1>6, <1>7
<1> HIDE DEF rest
<1>9. /\ Len(start \o rest) = 4 + Len(rest)
      /\ \A j \in 1..4 + Len(rest) :
           (start \o rest)[j] = IF j <= 4 THEN start[j] ELSE rest[j - 4]
  <2>1. Len(start \o rest) = Len(start) + Len(rest)
    BY <1>5, <1>8, ConcatIsSeq
  <2>2. \A j \in 1..Len(start) + Len(rest) :
          (start \o rest)[j]
            = IF j <= Len(start) THEN start[j] ELSE rest[j - Len(start)]
    BY <1>5, <1>8, ConcatCells
  <2>3. Len(start) = 4
    BY <1>4
  <2> QED
    BY <2>1, <2>2, <2>3
<1>10. (start \o rest)[2] = b /\ (start \o rest)[3] = sizes
  <2>1. 2 \in 1..4 + Len(rest) /\ 3 \in 1..4 + Len(rest)
    BY <1>8
  <2> QED
    BY <1>4, <1>9, <2>1
<1>11. f.large_file => (start \o rest)[5] = z
  <2> SUFFICES ASSUME f.large_file PROVE (start \o rest)[5] = z
    OBVIOUS
  <2>1. 5 \in 1..4 + Len(rest) /\ ~(5 <= 4) /\ 5 - 4 = 1
    BY <1>8
  <2>2. (start \o rest)[5] = rest[1]
    BY <1>9, <2>1
  <2> QED
    BY <1>8, <2>2
<1>12. Len(start \o rest) = IF f.large_file THEN 5 ELSE 4
  BY <1>8, <1>9
<1> QED
  BY <1>1, <1>2, <1>3, <1>10, <1>11, <1>12 DEF z

\* A local header that has just been written agrees.
LEMMA NewHeaderAgrees ==
    ASSUME NEW d, IsSeq(d), NEW f, f.header_start \in Nat
    PROVE  HeaderAgrees(WriteAt(d, f.header_start, LocalHeader(f)), f)
<1> DEFINE p == f.header_start
           cells == LocalHeader(f)
           n == Len(cells)
           w == WriteAt(d, p, cells)
<1>1. /\ n = IF f.large_file THEN 5 ELSE 4
      /\ cells[2] = <<"crc", f.crc32>>
      /\ f.large_file => cells[5] = LocalZip64(f)
      /\ ~f.large_file => cells[3] = LocalSizes(f)
  BY LocalHeaderCells
<1>2. IsSeq(cells)
  BY LocalHeaderIsSeq
<1> HIDE DEF cells
<1>3. p \in Nat
  OBVIOUS
<1>4. ASSUME NEW q \in Nat, NEW k, p <= q, q < p + n, q - p + 1 = k
      PROVE  At(w, q) = cells[k]
  BY <1>2, <1>4, <1>3, WriteAtCells
<1> HIDE DEF w, n, p
<1> DEFINE crc == p + 1
           sizes == p + 2
           zip64 == p + 4
<1>5. /\ crc \in Nat /\ p <= crc /\ crc < p + n /\ crc - p + 1 = 2
      /\ sizes \in Nat /\ p <= sizes /\ sizes < p + n /\ sizes - p + 1 = 3
      /\ zip64 \in Nat /\ p <= zip64 /\ zip64 - p + 1 = 5
      /\ f.large_file => zip64 < p + n
  BY <1>1, <1>3
<1> HIDE DEF crc, sizes, zip64
<1>6. At(w, crc) = cells[2]
  <2>1. crc \in Nat /\ p <= crc /\ crc < p + n /\ crc - p + 1 = 2
    BY <1>5
  <2> QED
    BY <1>4, <2>1
<1>7. At(w, sizes) = cells[3]
  <2>1. sizes \in Nat /\ p <= sizes /\ sizes < p + n /\ sizes - p + 1 = 3
    BY <1>5
  <2> QED
    BY <1>4, <2>1
<1>8. f.large_file => At(w, zip64) = cells[5]
  <2> SUFFICES ASSUME f.large_file PROVE At(w, zip64) = cells[5]
    OBVIOUS
  <2>1. zip64 \in Nat /\ p <= zip64 /\ zip64 < p + n /\ zip64 - p + 1 = 5
    BY <1>5
  <2> QED
    BY <1>4, <2>1
<1> QED
  BY <1>1, <1>6, <1>7, <1>8
  DEF HeaderAgrees, CRC32_OFFSET, SIZES_OFFSET, ZIP64_OFFSET, p, cells, w, crc, sizes, zip64

\* When finish_file is through, all headers agree, and lie in front of the
\* position.
LEMMA AllSettled ==
    ASSUME PromiseInv, LiveHeaders, Settled
    PROVE  \A i \in 1..Len(files) :
             /\ HeaderKnown(files[i]) /\ HeaderAgrees(disk, files[i])
             /\ HeaderEnd(files[i]) <= pos
<1> SUFFICES ASSUME NEW i \in 1..Len(files)
             PROVE  /\ HeaderKnown(files[i]) /\ HeaderAgrees(disk, files[i])
                    /\ HeaderEnd(files[i]) <= pos
  OBVIOUS
<1>1. IsSeq(files) /\ Len(files) \in Nat
  BY SealedBounds DEF PromiseInv
<1>2. files # << >>
  BY <1>1, EmptyIsSeq
<1>3. /\ LastHeader(LastFile) /\ HeaderKnown(LastFile)
      /\ LastFile.header_start \in Nat /\ LastFile.header_start <= pos /\ pos \in Nat
  BY <1>2, LastHeaderFacts
<1>4. CASE i = Len(files)
  <2>1. files[i] = LastFile
    BY <1>4 DEF LastFile
  <2> QED
    BY <1>3, <2>1 DEF LastHeader, PositionKnown
<1>5. CASE i # Len(files)
  <2>1. i < Len(files)
    BY <1>1, <1>5
  <2>2. /\ HeaderKnown(files[i]) /\ HeaderAgrees(disk, files[i])
        /\ HeaderEnd(files[i]) <= LastFile.header_start
    BY <2>1 DEF LiveHeaders, EarlierHeaders, LastFile
  <2>3. HeaderEnd(files[i]) \in Nat
    BY <2>2, HeaderEndIs
  <2> QED
    BY <1>3, <2>2, <2>3
<1> QED
  BY <1>4, <1>5

LEMMA AllKept ==
    ASSUME PromiseInv, LiveHeaders, Settled, Forward
    PROVE  \A i \in 1..Len(files) : HeaderAgrees(disk', files[i])
<1>1. pos \in Nat /\ \A q \in Nat : q < pos => At(disk', q) = At(disk, q)
  BY DEF Forward, PromiseInv, SinkInv, VectorsOK
<1>2. ASSUME NEW i \in 1..Len(files)
      PROVE  HeaderAgrees(disk', files[i])
  <2>1. /\ HeaderKnown(files[i]) /\ HeaderAgrees(disk, files[i])
        /\ HeaderEnd(files[i]) <= pos
    BY AllSettled
  <2> QED
    BY <1>1, <2>1, AgreesBehind
<1> QED
  BY <1>2

\* start_entry writes a header that agrees behind all others.
LEMMA StartEntryHeaders == ASSUME Premises, StartEntry PROVE LiveHeaders'
<1> DEFINE new   == NewFile
           cells == LocalHeader(new)
           trace == Still(WriteTrace(disk, pos, cells))
           end   == pos + Len(cells)
           pad   == IF call.op = "start_file_aligned" THEN Padding(end, call.align)
                                                      ELSE << >>
           f     == [new EXCEPT !.data_start = end, !.extra_field = pad]
           w     == [Plain EXCEPT !.encrypted = call.options.encrypted]
<1>1. /\ Succeeds(trace) /\ files' = Append(files, f) /\ Started(w)
      /\ stats' = NewStats(end) /\ pc = "local_header"
      /\ UNCHANGED writing_to_central_extra_field_only
  BY NoFaults DEF StartEntry
<1>2. /\ SinkInv /\ IsSeq(disk) /\ pos \in Nat /\ CallOK(call) /\ IsSeq(files)
      /\ PromiseInv /\ LiveHeaders
  BY SealedBounds DEF Premises, PromiseInv, SinkInv, VectorsOK
<1>3. /\ IsSeq(cells) /\ Len(cells) = IF new.large_file THEN 5 ELSE 4
  BY LocalHeaderIsSeq, LocalHeaderCells
<1>4. /\ new.header_start = pos
      /\ {"header_start", "data_start", "extra_field", "large_file", "crc32",
          "compressed_size", "uncompressed_size"} \subseteq DOMAIN new
  BY DEF NewFile
<1>5. trace[Len(trace)] = <<WriteAt(disk, pos, cells), end>>
  BY <1>2, <1>3, WriteHereEnds
<1>6. HeaderAgrees(WriteAt(disk, pos, cells), new)
  BY <1>2, <1>4, NewHeaderAgrees
<1> HIDE DEF trace, cells, new
<1>7. disk' = WriteAt(disk, pos, cells) /\ pos' = end
  BY <1>1, <1>5 DEF Succeeds, MoveSink
<1>8. end \in Nat
  BY <1>2, <1>3
<1>9. Forward
  BY <1>1, <1>3, WritesForward DEF trace
<1> HIDE DEF end
<1>10. IsSeq(pad)
  BY <1>2, <1>8, PaddingIsSeq, EmptyIsSeq DEF CallOK
<1> HIDE DEF pad
<1>11. /\ HeaderKnown(f) /\ f.header_start = pos /\ f.data_start = end
       /\ f.large_file = new.large_file /\ f.crc32 = new.crc32
       /\ f.compressed_size = new.compressed_size
       /\ f.uncompressed_size = new.uncompressed_size
  BY <1>2, <1>4, <1>10 DEF HeaderKnown, IsEntry
<1> HIDE DEF f
<1>12. HeaderAgrees(disk', f)
  BY <1>4, <1>6, <1>7, <1>11 DEF HeaderAgrees, LocalZip64, LocalSizes
<1>13. HeaderEnd(f) = end
  <2>1. HeaderEnd(f) = pos + (IF f.large_file THEN 5 ELSE 4)
    BY <1>11, HeaderEndIs
  <2> QED
    BY <1>3, <1>11, <2>1 DEF end
<1>14. StatsOK' /\ stats'.start = end
  BY <1>1, <1>8 DEF StatsOK, NewStats
<1>15. /\ Len(files') = Len(files) + 1 /\ files'[Len(files) + 1] = f
       /\ \A i \in 1..Len(files) : files'[i] = files[i]
       /\ Len(files) \in Nat
  BY <1>1, <1>2, AppendCells, LenIsNat
<1>16. EarlierHeaders(disk, files)'
  <2>1. ASSUME NEW i \in 1..Len(files)
        PROVE  /\ HeaderKnown(files[i]) /\ HeaderAgrees(disk', files[i])
               /\ HeaderEnd(files[i]) <= pos
    <3>1. Settled
      BY <1>1 DEF Settled
    <3> QED
      BY <1>2, <1>9, <3>1, AllSettled, AllKept
  <2>2. ASSUME NEW i \in 1..Len(files) + 1
        PROVE  /\ HeaderKnown(files'[i])
               /\ i < Len(files) + 1 => /\ HeaderAgrees(disk', files'[i])
                                        /\ HeaderEnd(files'[i]) <= f.header_start
    <3>1. CASE i = Len(files) + 1
      BY <1>11, <1>15, <3>1
    <3>2. CASE i \in 1..Len(files)
      BY <1>11, <1>15, <2>1, <3>2
    <3> QED
      BY <1>15, <3>1, <3>2
  <2> QED
    BY <1>15, <2>2 DEF EarlierHeaders
<1>17. NewLastHeader(f)
  BY <1>7, <1>8, <1>11, <1>12, <1>13, <1>14 DEF NewLastHeader
<1>18. LastHeader(LastFile)'
  BY <1>15, <1>17, NewLastIsLast
<1>19. pc' # "idle" => result' = "none"
  <2>1. result = "none"
    BY <1>1, NoPanicInside
  <2> HIDE DEF w
  <2> QED
    BY <1>1, <2>1 DEF Started, FileStarted, ExtraDataStarted, DirectoryAdded,
      SymlinkStarted, RawCopyStarted, Fail, Return, Goto
<1> QED
  BY <1>14, <1>16, <1>18, <1>19 DEF LiveHeaders

\* Three elements behind a vector.
LEMMA ThreeMore ==
    ASSUME NEW s, IsSeq(s), NEW n \in Nat \ {0}, Len(s) = n, NEW x, NEW y, NEW z
    PROVE  /\ Len(s \o <<x, y, z>>) = n + 3
           /\ (s \o <<x, y, z>>)[n] = s[n]
           /\ (s \o <<x, y, z>>)[n + 3] = z
<1> DEFINE T == {x, y, z}
           t == <<x, y, z>>
           c == s \o t
           last == n + 3
<1>1. t \in Seq(T) /\ Len(t) = 3 /\ t[3] = z
  OBVIOUS
<1> HIDE DEF T, t
<1>2. IsSeq(t)
  BY <1>1, SeqIsSeq
<1>3. /\ Len(c) = n + 3
      /\ \A j \in 1..n + 3 : c[j] = IF j <= n THEN s[j] ELSE t[j - n]
  <2>1. Len(c) = Len(s) + Len(t)
    BY <1>2, ConcatIsSeq
  <2>2. \A j \in 1..Len(s) + Len(t) :
          c[j] = IF j <= Len(s) THEN s[j] ELSE t[j - Len(s)]
    BY <1>2, ConcatCells
  <2> QED
    BY <1>1, <2>1, <2>2
<1> HIDE DEF c
<1>4. n \in 1..n + 3 /\ last \in 1..n + 3 /\ ~(last <= n) /\ last - n = 3
  OBVIOUS
<1> HIDE DEF last
<1>5. c[n] = s[n]
  BY <1>3, <1>4
<1>6. c[last] = t[last - n]
  BY <1>3, <1>4
<1>7. c[last] = z
  BY <1>1, <1>4, <1>6
<1> QED
  BY <1>3, <1>5, <1>7 DEF c, t, last

\* Where the trace of end_extra_data is behind the extra data, and where it ends.
LEMMA ExtraTraceEnds ==
    ASSUME NEW f, IsSeq(f.extra_field), pos \in Nat, NEW end
    PROVE  LET n       == Len(f.extra_field)
               at      == f.header_start + EXTRA_LEN_OFFSET
               grown   == WriteAt(disk, pos, f.extra_field)
               patched == WriteAt(grown, at, << <<"extralen", LocalExtraLen(f)>> >>)
               trace   == ExtraTrace(f, end)
           IN  /\ trace[n + 1] = <<grown, pos + n>>
               /\ trace[Len(trace)] = <<patched, end>>
<1> DEFINE extra   == f.extra_field
           n       == Len(extra)
           at      == f.header_start + EXTRA_LEN_OFFSET
           grown   == WriteAt(disk, pos, extra)
           patched == WriteAt(grown, at, << <<"extralen", LocalExtraLen(f)>> >>)
           written == WriteTrace(disk, pos, extra)
           trace   == ExtraTrace(f, end)
           x == <<grown, at>>
           y == <<patched, at + 1>>
           z == <<patched, end>>
<1>1. trace = written \o <<x, y, z>>
  BY DEF ExtraTrace
<1>2. n \in Nat
  BY LenIsNat
<1> HIDE DEF z, trace
<1>3. IsSeq(written) /\ Len(written) = n + 1 /\ written[n + 1] = <<grown, pos + n>>
  <2>1. IsSeq(extra)
    OBVIOUS
  <2> HIDE DEF extra
  <2>2. /\ IsSeq(written) /\ Len(written) = Len(extra) + 1
        /\ written[Len(extra) + 1] = <<WriteAt(disk, pos, extra), pos + Len(extra)>>
    BY <2>1, WriteTraceEnds
  <2> HIDE DEF written
  <2> QED
    BY <2>2
<1> HIDE DEF written, x, y, n
<1>4. /\ Len(written \o <<x, y, z>>) = n + 1 + 3
      /\ (written \o <<x, y, z>>)[n + 1] = written[n + 1]
      /\ (written \o <<x, y, z>>)[n + 1 + 3] = z
  BY <1>2, <1>3, ThreeMore
<1>5. trace[n + 1] = <<grown, pos + n>> /\ trace[Len(trace)] = z
  BY <1>1, <1>3, <1>4
<1> QED
  BY <1>5 DEF z, trace, n

\* end_extra_data moves the extra data to the sink, behind the header, and
\* patches its length, which is not among the fields that must agree.
LEMMA EndLocalExtraHeaders ==
    ASSUME Premises, EndLocalExtra
    PROVE  LiveHeaders'
<1> DEFINE last  == LastFile
           extra == last.extra_field
           n     == Len(extra)
           end   == last.data_start + n
           moved == [last EXCEPT !.data_start = end]
           w     == SwitchTo(inner, moved.method, moved.level)
           at    == last.header_start + EXTRA_LEN_OFFSET
           length  == << <<"extralen", LocalExtraLen(last)>> >>
           grown   == WriteAt(disk, pos, extra)
           patched == WriteAt(grown, at, length)
           trace == ExtraTrace(last, end)
<1>1. /\ pc \in ExtraSteps /\ writing_to_extra_field
      /\ ~writing_to_central_extra_field_only
      /\ stats' = [stats EXCEPT !.start = end]
      /\ \/ /\ Succeeds(trace) /\ files' = SetLastFile(moved) /\ Fail
            /\ UNCHANGED flagVars
         \/ Succeeds(trace) /\ ExtraEnded(moved, w)
         \/ /\ MoveSink(trace[n + 1]) /\ files' = SetLastFile(moved) /\ Panic
            /\ UNCHANGED flagVars
  BY NoFaults DEF EndLocalExtra, EndingLocalExtra, ExtraAccepted
<1>2. /\ SinkInv /\ IsSeq(disk) /\ pos \in Nat /\ files # << >> /\ PromiseInv
      /\ IsWriter(inner)
  BY <1>1, ExtraFile DEF Premises, PromiseInv, SinkInv, VectorsOK, IInv, TypeOK
<1>3. /\ HeaderKnown(last) /\ LastHeader(last) /\ last.header_start \in Nat
      /\ HeaderEnd(last) \in Nat /\ last.header_start <= pos
  BY <1>2, LastHeaderFacts DEF Premises
<1>4. IsSeq(extra) /\ n \in Nat /\ last.data_start \in Nat
  BY <1>1, <1>2, <1>3, ExtraFile, LenIsNat DEF HeaderKnown, IsEntry
<1>5. HeaderEnd(last) <= last.data_start /\ last.data_start <= pos
  BY <1>1, <1>3 DEF LastHeader, ExtraStartKnown
<1>6. end \in Nat /\ HeaderEnd(last) <= end /\ HeaderEnd(last) <= pos
      /\ end <= pos + n
  BY <1>2, <1>3, <1>4, <1>5
<1>7. /\ trace[n + 1] = <<grown, pos + n>>
      /\ trace[Len(trace)] = <<patched, end>>
  BY <1>2, <1>4, ExtraTraceEnds
<1> HIDE DEF trace
<1>8. \/ disk' = patched /\ pos' = end
      \/ disk' = grown /\ pos' = pos + n
  BY <1>1, <1>7 DEF Succeeds, MoveSink
<1> DEFINE h == last.header_start
<1>9. \A q \in Nat : q < h => At(grown, q) = At(disk, q)
  <2>1. \A q \in Nat : ~(pos <= q /\ q < pos + n) => At(grown, q) = At(disk, q)
    BY <1>2, <1>4, WriteAtCells
  <2> QED
    BY <1>2, <1>3, <2>1
<1>10. IsSeq(grown)
  BY <1>2, <1>4, WriteAtKeeps
<1>11. IsSeq(length) /\ Len(length) = 1
  BY SingleIsSeq
<1>12. HeaderAgrees(disk, last) => HeaderAgrees(grown, last)
  BY <1>2, <1>3, <1>4, <1>6, WriteBehindHeader
<1>13. HeaderAgrees(grown, last) => HeaderAgrees(patched, last)
  <2>1. at \in Nat
    BY <1>3 DEF EXTRA_LEN_OFFSET
  <2> HIDE DEF grown, length
  <2> QED
    BY <1>3, <1>10, <1>11, <2>1, WriteBehindHeader
<1>14. \A q \in Nat : q < h => At(patched, q) = At(grown, q)
  <2>1. at \in Nat /\ h <= at /\ h \in Nat
    BY <1>3 DEF EXTRA_LEN_OFFSET
  <2> HIDE DEF grown, length, at
  <2>2. \A q \in Nat : ~(at <= q /\ q < at + 1) => At(patched, q) = At(grown, q)
    BY <1>10, <1>11, <2>1, WriteAtCells
  <2> HIDE DEF patched, h
  <2> QED
    BY <2>1, <2>2
<1>15. /\ \A q \in Nat : q < h => At(disk', q) = At(disk, q)
       /\ HeaderAgrees(disk, last) => HeaderAgrees(disk', last)
       /\ pos' \in Nat /\ end <= pos'
  <2> HIDE DEF grown, patched, h, n, end
  <2> QED
    BY <1>2, <1>4, <1>6, <1>8, <1>9, <1>12, <1>13, <1>14
<1> HIDE DEF grown, patched, length, at
<1>16. PICK g : /\ files' = SetLastFile(g)
                /\ g = moved \/ g = ForLocalHeader(moved)
  BY <1>1 DEF ExtraEnded
<1>17. /\ HeaderKnown(g) /\ g.header_start = h /\ g.data_start = end
       /\ g.large_file = last.large_file /\ g.crc32 = last.crc32
       /\ g.compressed_size = last.compressed_size
       /\ g.uncompressed_size = last.uncompressed_size
  <2> DEFINE none == << >>
             bare == [moved EXCEPT !.extra_field = none]
  <2>1. IsSeq(none)
    BY EmptyIsSeq
  <2>2. g = moved \/ g = bare
    BY <1>16 DEF ForLocalHeader
  <2> HIDE DEF none, end
  <2> QED
    BY <1>3, <2>1, <2>2 DEF HeaderKnown, IsEntry
<1> HIDE DEF moved
<1>18. /\ HeaderEnd(g) = HeaderEnd(last)
       /\ HeaderAgrees(disk', last) => HeaderAgrees(disk', g)
  BY <1>17 DEF HeaderEnd, HeaderAgrees, LocalZip64, LocalSizes
<1>19. StatsOK' /\ stats'.start = end
  BY <1>1, <1>6 DEF Premises, LiveHeaders, StatsOK
<1>20. (Settled' => Settled) /\ (pc' # "idle" => result' = "none")
  <2>1. CASE ExtraEnded(moved, w)
    <3>1. IsWriter(w)
      BY <1>2, SwitchToIsWriter
    <3> QED
      BY <1>1, <2>1, <3>1, ExtraEndedControl
  <2>2. CASE (Fail \/ Panic) /\ UNCHANGED flagVars
    BY <2>2 DEF Fail, Panic, flagVars, Settled
  <2> QED
    BY <1>1, <2>1, <2>2
<1>21. NewLastHeader(g)
  <2>1. Settled' => HeaderAgrees(disk', g)
    BY <1>3, <1>15, <1>18, <1>20 DEF LastHeader
  <2>2. HeaderEnd(g) <= pos' /\ stats'.start <= pos' /\ HeaderEnd(g) <= stats'.start
    <3> HIDE DEF end
    <3> QED
      BY <1>3, <1>6, <1>15, <1>18, <1>19
  <2>3. HeaderEnd(g) <= g.data_start /\ g.data_start <= pos'
    <3> HIDE DEF end
    <3> QED
      BY <1>6, <1>15, <1>17, <1>18
  <2> QED
    BY <2>1, <2>2, <2>3 DEF NewLastHeader
<1> HIDE DEF end
<1> QED
  BY <1>2, <1>15, <1>16, <1>17, <1>19, <1>20, <1>21, LastHeaderChanged

\* The end of one trace behind another.
LEMMA ConcatEnds ==
    ASSUME NEW s, IsSeq(s), NEW t, IsSeq(t), t # << >>
    PROVE  (s \o t)[Len(s \o t)] = t[Len(t)] /\ IsSeq(s \o t)
<1> DEFINE c == s \o t
           n == Len(s)
           m == Len(t)
           k == n + m
<1>1. n \in Nat /\ m \in Nat \ {0}
  BY LenIsNat
<1>2. IsSeq(c) /\ Len(c) = k
  BY ConcatIsSeq
<1>3. \A j \in 1..n + m : c[j] = IF j <= n THEN s[j] ELSE t[j - n]
  BY ConcatCells
<1> HIDE DEF c, n, m
<1>4. k \in 1..n + m /\ ~(k <= n) /\ k - n = m
  BY <1>1
<1> HIDE DEF k
<1>5. c[k] = t[k - n]
  BY <1>3, <1>4
<1> QED
  BY <1>2, <1>4, <1>5 DEF c, m

\* Two states as a trace.
LEMMA PairIsSeq ==
    ASSUME NEW y, NEW z
    PROVE  IsSeq(<<y, z>>) /\ Len(<<y, z>>) = 2 /\ <<y, z>>[2] = z
           /\ <<y, z>> # << >>
<1> DEFINE T == {y, z}
<1>1. <<y, z>> \in Seq(T)
  OBVIOUS
<1> QED
  BY <1>1, SeqIsSeq

\* Where update_local_file_header leaves the sink.
LEMMA HeaderTraceEnds ==
    ASSUME NEW f
    PROVE  LET summed == WriteAt(disk, f.header_start + CRC32_OFFSET,
                                 << <<"crc", f.crc32>> >>)
               sized  == WriteAt(summed, f.header_start + SizesOffset(f),
                           <<IF f.large_file THEN LocalZip64(f) ELSE LocalSizes(f)>>)
           IN  HeaderTrace(f)[Len(HeaderTrace(f))]
                 = IF TooLarge(f) THEN <<summed, f.header_start + SIZES_OFFSET>>
                                  ELSE <<sized, pos>>
<1> DEFINE h      == f.header_start
           summed == WriteAt(disk, h + CRC32_OFFSET, << <<"crc", f.crc32>> >>)
           offset == h + SizesOffset(f)
           sized  == WriteAt(summed, offset,
                       <<IF f.large_file THEN LocalZip64(f) ELSE LocalSizes(f)>>)
           a == <<disk, pos>>
           b == <<disk, h + CRC32_OFFSET>>
           c == <<summed, h + SIZES_OFFSET>>
           x == <<summed, offset>>
           y == <<sized, offset + 1>>
           z == <<sized, pos>>
           abc == <<a, b, c>>
           seek == IF f.large_file THEN <<x>> ELSE << >>
           rest == IF TooLarge(f) THEN << >> ELSE seek \o <<y, z>>
           T == {a, b, c}
<1>1. HeaderTrace(f) = abc \o rest
  BY DEF HeaderTrace
<1>2. summed = WriteAt(disk, h + CRC32_OFFSET, << <<"crc", f.crc32>> >>)
      /\ sized = WriteAt(summed, h + SizesOffset(f),
                   <<IF f.large_file THEN LocalZip64(f) ELSE LocalSizes(f)>>)
      /\ c = <<summed, h + SIZES_OFFSET>> /\ z = <<sized, pos>>
  OBVIOUS
<1> HIDE DEF a, b, c, x, y, z, T
<1>3. abc \in Seq(T) /\ Len(abc) = 3 /\ abc[3] = c
  BY DEF T
<1>4. IsSeq(abc)
  BY <1>3, SeqIsSeq
<1>5. CASE TooLarge(f)
  <2>1. abc \o rest = abc
    BY <1>4, <1>5, ConcatNothing
  <2> HIDE DEF abc, rest, summed, sized
  <2> QED
    BY <1>1, <1>3, <1>5, <2>1 DEF c, summed, h
<1>6. CASE ~TooLarge(f)
  <2>1. IsSeq(seek)
    BY SingleIsSeq, EmptyIsSeq
  <2> HIDE DEF seek
  <2>2. rest = seek \o <<y, z>>
    BY <1>6
  <2>3. /\ (seek \o <<y, z>>)[Len(seek \o <<y, z>>)] = z
        /\ IsSeq(seek \o <<y, z>>)
    BY <2>1, PairIsSeq, ConcatEnds
  <2>4. seek \o <<y, z>> # << >>
    <3>1. Len(seek \o <<y, z>>) = Len(seek) + 2 /\ Len(seek) \in Nat
      BY <2>1, PairIsSeq, ConcatIsSeq, LenIsNat
    <3> QED
      BY <3>1, EmptyIsSeq
  <2> HIDE DEF rest, abc
  <2>5. (abc \o rest)[Len(abc \o rest)] = z
    BY <1>4, <2>2, <2>3, <2>4, ConcatEnds
  <2> QED
    BY <1>1, <1>6, <2>5 DEF z, sized, summed, offset, h
<1> QED
  BY <1>5, <1>6

\* One cell is written.
LEMMA WriteOneCell ==
    ASSUME NEW d, IsSeq(d), NEW p \in Nat, NEW e, NEW q \in Nat
    PROVE  /\ IsSeq(WriteAt(d, p, <<e>>))
           /\ At(WriteAt(d, p, <<e>>), q) = IF q = p THEN e ELSE At(d, q)
<1> DEFINE cells == <<e>>
           n == Len(cells)
<1>1. IsSeq(cells) /\ n = 1 /\ cells[1] = e
  BY SingleIsSeq
<1> HIDE DEF cells
<1>2. IsSeq(WriteAt(d, p, cells))
  BY <1>1, WriteAtKeeps
<1>3. At(WriteAt(d, p, cells), q)
        = IF p <= q /\ q < p + n THEN cells[q - p + 1] ELSE At(d, q)
  BY <1>1, WriteAtCells
<1> HIDE DEF n
<1>4. CASE q = p
  <2> DEFINE k == q - p + 1
  <2>1. p <= q /\ q < p + n /\ k = 1
    BY <1>1, <1>4
  <2> HIDE DEF k
  <2>2. At(WriteAt(d, p, cells), q) = cells[k]
    BY <1>3, <2>1 DEF k
  <2> QED
    BY <1>1, <1>2, <1>4, <2>1, <2>2 DEF cells
<1>5. CASE q # p
  <2>1. ~(p <= q /\ q < p + n)
    BY <1>1, <1>5
  <2> QED
    BY <1>2, <1>3, <1>5, <2>1 DEF cells
<1> QED
  BY <1>4, <1>5

\* A header whose sums and sizes have just been patched.
LEMMA PatchedAgrees ==
    ASSUME NEW d, IsSeq(d), NEW f, f.header_start \in Nat
    PROVE  LET summed == WriteAt(d, f.header_start + CRC32_OFFSET,
                                 << <<"crc", f.crc32>> >>)
               sized  == WriteAt(summed, f.header_start + SizesOffset(f),
                           <<IF f.large_file THEN LocalZip64(f) ELSE LocalSizes(f)>>)
           IN  /\ HeaderAgrees(sized, f)
               /\ \A q \in Nat : q < f.header_start =>
                    At(summed, q) = At(d, q) /\ At(sized, q) = At(d, q)
<1> DEFINE h      == f.header_start
           crc    == h + CRC32_OFFSET
           at     == h + SizesOffset(f)
           e      == <<"crc", f.crc32>>
           v      == IF f.large_file THEN LocalZip64(f) ELSE LocalSizes(f)
           summed == WriteAt(d, crc, <<e>>)
           sized  == WriteAt(summed, at, <<v>>)
<1>1. /\ h \in Nat /\ crc \in Nat /\ at \in Nat /\ h < crc /\ crc < at
  BY DEF CRC32_OFFSET, SizesOffset, SIZES_OFFSET, ZIP64_OFFSET
<1>2. at = h + (IF f.large_file THEN ZIP64_OFFSET ELSE SIZES_OFFSET)
  BY DEF SizesOffset
<1>3. v = IF f.large_file THEN LocalZip64(f) ELSE LocalSizes(f)
  OBVIOUS
<1> HIDE DEF h, crc, at, e, v
<1>4. /\ IsSeq(summed)
      /\ \A q \in Nat : At(summed, q) = IF q = crc THEN e ELSE At(d, q)
  BY <1>1, WriteOneCell
<1> HIDE DEF summed
<1>5. \A q \in Nat : At(sized, q) = IF q = at THEN v ELSE At(summed, q)
  BY <1>1, <1>4, WriteOneCell
<1> HIDE DEF sized
<1>6. At(sized, at) = v /\ At(sized, crc) = e
  BY <1>1, <1>4, <1>5
<1>7. \A q \in Nat : q < h => At(summed, q) = At(d, q) /\ At(sized, q) = At(d, q)
  BY <1>1, <1>4, <1>5
<1>8. HeaderAgrees(sized, f)
  BY <1>2, <1>3, <1>6 DEF HeaderAgrees, crc, e, h
<1> QED
  BY <1>7, <1>8 DEF sized, summed, at, crc, e, v, h

\* update_local_file_header writes the sums and sizes behind what the sealed
\* headers occupy.  It is reached with the position in front of the data only
\* after an entry was refused for its size, and then the size, which wraps
\* around, is refused again.
LEMMA UpdateHeaderHeaders ==
    ASSUME Premises, FitsU64, UpdateHeader
    PROVE  LiveHeaders'
<1> DEFINE f == [Summed EXCEPT !.compressed_size = U64(pos - stats.start)]
           l == LastFile
           summed(g) == WriteAt(disk, g.header_start + CRC32_OFFSET,
                                << <<"crc", g.crc32>> >>)
           sized(g) == WriteAt(summed(g), g.header_start + SizesOffset(g),
                   <<IF g.large_file THEN LocalZip64(g) ELSE LocalSizes(g)>>)
           underflows == OverflowChecks /\ pos < stats.start
<1>1. /\ pc = "update_header" /\ ~writing_raw /\ files # << >>
      /\ UNCHANGED <<stats, writing_to_extra_field,
                     writing_to_central_extra_field_only>>
  BY DEF UpdateHeader
<1>2. ~Fails(HeaderTrace(f)) /\ ~FailsAt(HeaderTrace(f), 1)
  BY NoFaults
<1>3. /\ HeaderKnown(l) /\ LastHeader(l)
      /\ l.header_start \in Nat /\ HeaderEnd(l) \in Nat
      /\ pos \in Nat
  BY <1>1, LastHeaderFacts DEF Premises
<1>4. stats.start \in Nat /\ StatsOK'
  BY <1>1 DEF Premises, LiveHeaders, StatsOK
<1>5. ~writing_to_extra_field
  BY <1>1 DEF Premises, PromiseInv, ExtraDone, AfterExtraSteps
<1>6. ~Settled /\ result = "none"
  BY <1>1, NoPanicInside DEF Settled
<1>7. HeaderEnd(l) <= stats.start \/ call.op = "drop"
  BY <1>3, <1>6 DEF LastHeader, StartKnown, Untied
<1>8. \/ HeaderEnd(l) <= pos /\ stats.start <= pos
      \/ /\ TooLarge(l)
         /\ HeaderEnd(l) <= stats.start /\ pos < stats.start
  BY <1>3 DEF LastHeader, PositionKnown
<1>9. /\ HeaderKnown(Summed)
      /\ Summed.header_start = l.header_start
      /\ Summed.large_file = l.large_file
      /\ Summed.compressed_size = l.compressed_size
  BY <1>3 DEF Summed, HeaderKnown, IsEntry
<1>10. /\ HeaderKnown(f)
       /\ f.header_start = l.header_start
       /\ f.large_file = l.large_file
       /\ f.compressed_size = U64(pos - stats.start)
  <2> DEFINE size == U64(pos - stats.start)
  <2>1. /\ HeaderKnown([Summed EXCEPT !.compressed_size = size])
        /\ [Summed EXCEPT !.compressed_size = size].header_start = Summed.header_start
        /\ [Summed EXCEPT !.compressed_size = size].large_file = Summed.large_file
        /\ [Summed EXCEPT !.compressed_size = size].compressed_size = size
    <3> HIDE DEF size
    <3> QED
      BY <1>9 DEF HeaderKnown, IsEntry
  <2> QED
    BY <1>9, <2>1
<1>11. IsSeq(disk)
  BY DEF Premises, PromiseInv, SinkInv, VectorsOK
<1>12. /\ HeaderAgrees(sized(f), f)
       /\ \A q \in Nat : q < f.header_start =>
            At(summed(f), q) = At(disk, q) /\ At(sized(f), q) = At(disk, q)
  BY <1>3, <1>10, <1>11, PatchedAgrees
<1>13. HeaderTrace(f)[Len(HeaderTrace(f))]
         = IF TooLarge(f) THEN <<summed(f), f.header_start + SIZES_OFFSET>>
                          ELSE <<sized(f), pos>>
  BY HeaderTraceEnds
<1>14. HeaderEnd(f) = HeaderEnd(l) /\ HeaderEnd(Summed) = HeaderEnd(l)
  BY <1>9, <1>10 DEF HeaderEnd
<1>15. \/ /\ ~underflows /\ ~TooLarge(f)
          /\ Succeeds(HeaderTrace(f)) /\ files' = SetLastFile(f)
          /\ Goto(AfterFinishFile)
       \/ /\ ~underflows /\ TooLarge(f)
          /\ Succeeds(HeaderTrace(f)) /\ files' = SetLastFile(f)
          /\ Fail /\ UNCHANGED writing_raw
       \/ /\ underflows /\ files' = SetLastFile(Summed)
          /\ Panic /\ UNCHANGED <<sinkVars, writing_raw>>
  BY <1>2 DEF UpdateHeader
<1> HIDE DEF f, l, summed, sized, underflows
<1>16. CASE /\ ~underflows /\ ~TooLarge(f)
            /\ Succeeds(HeaderTrace(f)) /\ files' = SetLastFile(f)
            /\ Goto(AfterFinishFile)
  <2>1. disk' = sized(f) /\ pos' = pos
    BY <1>13, <1>16 DEF Succeeds, MoveSink
  <2>2. pc' \in {"local_header", "central"} /\ result' = "none"
    BY <1>6, <1>16 DEF Goto, AfterFinishFile
  <2>3. Settled' /\ Untied'
    BY <2>2 DEF Settled, Untied
  <2>4. ~(/\ TooLarge(l) /\ HeaderEnd(l) <= stats.start /\ pos < stats.start)
    <3>1. SUFFICES ASSUME ~l.large_file, pos < stats.start PROVE TooLarge(f)
      BY <1>16 DEF TooLarge
    <3>2. /\ U64_MODULUS \in Nat /\ ZIP64_BYTES_THR \in Nat
          /\ stats.start + ZIP64_BYTES_THR < U64_MODULUS
      BY <1>4, BytesThrAssumption DEF FitsU64
    <3>3. U64(pos - stats.start) > ZIP64_BYTES_THR
      BY <1>3, <1>4, <3>1, <3>2 DEF U64
    <3> QED
      BY <1>10, <3>1, <3>3 DEF TooLarge
  <2>5. HeaderEnd(l) <= pos /\ stats.start <= pos
    BY <1>8, <2>4
  <2>6. NewLastHeader(f)
    BY <1>1, <1>5, <1>12, <1>14, <2>1, <2>3, <2>5 DEF NewLastHeader
  <2>7. \A q \in Nat : q < LastFile.header_start => At(disk', q) = At(disk, q)
    BY <1>10, <1>12, <2>1 DEF l
  <2> QED
    BY <1>1, <1>4, <1>10, <1>16, <2>2, <2>6, <2>7, LastHeaderChanged DEF l
<1>17. CASE /\ ~underflows /\ TooLarge(f)
            /\ Succeeds(HeaderTrace(f)) /\ files' = SetLastFile(f)
            /\ Fail /\ UNCHANGED writing_raw
  <2>1. disk' = summed(f) /\ pos' = f.header_start + SIZES_OFFSET
    BY <1>13, <1>17 DEF Succeeds, MoveSink
  <2>2. pc' = "idle" /\ ~Settled'
    BY <1>1, <1>17 DEF Fail, Settled
  <2>3. HeaderEnd(l) <= stats.start
    BY <1>7, <1>17, FailIsNoDrop
  <2>4. ~f.large_file
    BY <1>17 DEF TooLarge
  <2>5. HeaderEnd(f) = f.header_start + 4
    BY <1>10, <2>4, HeaderEndIs
  <2>6. pos' < stats.start
    BY <1>3, <1>4, <1>10, <1>14, <2>1, <2>3, <2>5 DEF SIZES_OFFSET
  <2>7. NewLastHeader(f)
    BY <1>1, <1>5, <1>14, <1>17, <2>2, <2>3, <2>6 DEF NewLastHeader
  <2>8. \A q \in Nat : q < LastFile.header_start => At(disk', q) = At(disk, q)
    BY <1>10, <1>12, <2>1 DEF l
  <2> QED
    BY <1>1, <1>4, <1>10, <1>17, <2>2, <2>7, <2>8, LastHeaderChanged DEF l
<1>18. CASE /\ underflows /\ files' = SetLastFile(Summed)
            /\ Panic /\ UNCHANGED <<sinkVars, writing_raw>>
  <2>1. disk' = disk /\ pos' = pos
    BY <1>18 DEF sinkVars
  <2>2. pc' = "idle" /\ ~Settled' /\ Untied'
    BY <1>1, <1>18 DEF Panic, Settled, Untied
  <2>3. /\ TooLarge(Summed)
        /\ HeaderEnd(l) <= stats.start /\ pos < stats.start
    BY <1>3, <1>4, <1>8, <1>9, <1>18 DEF underflows, TooLarge
  <2>4. NewLastHeader(Summed)
    BY <1>1, <1>5, <1>9, <1>14, <2>1, <2>2, <2>3 DEF NewLastHeader
  <2> QED
    BY <1>1, <1>4, <1>9, <1>18, <2>1, <2>2, <2>4, LastHeaderChanged DEF l
<1> QED
  BY <1>15, <1>16, <1>17, <1>18

\* The end records are written behind all headers.
LEMMA EndRecordsHeaders ==
    ASSUME PromiseInv, LiveHeaders, WriteEndRecords, UNCHANGED faults
    PROVE  ~Fail => AllHeadersAgree'
<1> DEFINE cells == EndRecords(Len(files), CentralStart, pos - CentralStart, comment)
           trace == Still(WriteTrace(disk, pos, cells))
<1> SUFFICES ASSUME ~Fail PROVE AllHeadersAgree'
  OBVIOUS
<1>1. Succeeds(trace) /\ pc = "central" /\ UNCHANGED files
  BY DEF WriteEndRecords, dataVars
<1>2. SinkInv /\ IsSeq(comment) /\ pos \in Nat /\ IsSeq(disk)
  BY DEF PromiseInv, SinkInv, VectorsOK
<1>3. IsSeq(cells)
  BY <1>2, PairIsSeq, EmptyIsSeq, SingleIsSeq, ConcatIsSeq DEF EndRecords
<1> HIDE DEF cells
<1>4. trace[Len(trace)] = <<WriteAt(disk, pos, cells), pos + Len(cells)>>
  BY <1>2, <1>3, WriteHereEnds
<1> HIDE DEF trace
<1>5. disk' = WriteAt(disk, pos, cells) /\ pos' = pos + Len(cells)
  BY <1>1, <1>4 DEF Succeeds, MoveSink
<1>6. \A q \in Nat : q < pos => At(WriteAt(disk, pos, cells), q) = At(disk, q)
  BY <1>2, <1>3, WriteAtCells
<1>7. Forward
  <2>1. Len(cells) \in Nat
    BY <1>3, LenIsNat
  <2> QED
    BY <1>2, <1>5, <1>6, <2>1 DEF Forward
<1>8. Settled
  BY <1>1 DEF Settled
<1>9. \A i \in 1..Len(files) : HeaderAgrees(disk', files[i])
  BY <1>7, <1>8, AllKept
<1> QED
  BY <1>1, <1>9 DEF AllHeadersAgree

\* The sink never forgets a failure.
LEMMA FaultsStay ==
    ASSUME PromiseInv, Next, faults' = 0
    PROVE  UNCHANGED faults
<1>1. faults \in Nat /\ (\A trace, i : ~FailsAt(trace, i)) /\ \A trace : ~Fails(trace)
  BY DEF PromiseInv, SinkInv, IInv, TypeOK, FailsAt, Fails
<1>2. CASE \/ StartFile \/ StartFileWithExtraData \/ StartFileAligned
           \/ AddDirectory \/ AddSymlink \/ RawCopyFile
  BY <1>2 DEF StartFile, StartFileWithExtraData, StartFileAligned,
       AddDirectory, AddSymlink, RawCopyFile, AddEntry, Begin, ghostVars
<1>3. CASE EndExtraData \/ EndLocalStartCentralExtraData \/ Finish
  BY <1>3 DEF EndExtraData, EndLocalStartCentralExtraData, Finish, Begin, ghostVars
<1>4. CASE SetComment \/ Drop \/ WriteRefused
  BY <1>4 DEF SetComment, Drop, WriteRefused, ghostVars
<1>5. CASE Write \/ WriteTarget \/ Flush
  BY <1>1, <1>5 DEF Write, WriteTarget, WriteData, Flush, Succeeds, ghostVars
<1>6. CASE ExtraRefused \/ EndCentralExtra \/ EndLocalExtraPanics
  BY <1>6 DEF ExtraRefused, EndCentralExtra, EndLocalExtraPanics, ghostVars
<1>7. CASE EndLocalExtra
  BY <1>1, <1>7 DEF EndLocalExtra, Succeeds, ghostVars
<1>8. CASE SwitchStored \/ FinishCrypto \/ KeepHeader
  BY <1>1, <1>8 DEF SwitchStored, FinishCrypto, KeepHeader, Succeeds, ghostVars
<1>9. CASE UpdateHeader
  BY <1>1, <1>9 DEF UpdateHeader, Succeeds
<1>10. CASE StartEntry \/ CopyRaw
  BY <1>1, <1>10 DEF StartEntry, CopyRaw, Succeeds
<1>11. CASE WriteCentralHeader \/ WriteEndRecords
  BY <1>1, <1>11 DEF WriteCentralHeader, WriteEndRecords, Succeeds
<1> QED
  BY <1>2, <1>3, <1>4, <1>5, <1>6, <1>7, <1>8, <1>9, <1>10, <1>11 DEF Next

\* A finished writer keeps its records.
LEMMA FinishedFiles ==
    ASSUME PromiseInv, status = "finished", Next
    PROVE  UNCHANGED files
<1>1. IInv /\ IsClosed(inner) /\ ~writing_to_extra_field
  BY DEF PromiseInv, SinkInv, Ended
<1>2. ~IsPlain(inner)
      /\ pc \notin {"finish_crypto", "update_header", "local_header", "central",
                    "copy", "target"}
  BY <1>1 DEF IInv, GetPlainSafe, SafeAt, IsClosed, IsPlain
<1>3. CASE \/ StartFile \/ StartFileWithExtraData \/ StartFileAligned
           \/ AddDirectory \/ AddSymlink \/ RawCopyFile
  BY <1>3 DEF StartFile, StartFileWithExtraData, StartFileAligned,
       AddDirectory, AddSymlink, RawCopyFile, AddEntry, Begin, dataVars
<1>4. CASE EndExtraData \/ EndLocalStartCentralExtraData \/ Finish
  BY <1>4 DEF EndExtraData, EndLocalStartCentralExtraData, Finish, Begin, dataVars
<1>5. CASE SetComment \/ WriteRefused \/ Flush \/ ExtraRefused \/ SwitchStored
  BY <1>5 DEF SetComment, WriteRefused, Flush, ExtraRefused, SwitchStored, dataVars
<1>6. CASE Drop \/ Write \/ EndCentralExtra \/ EndLocalExtra \/ EndLocalExtraPanics
  BY <1>1, <1>6 DEF Drop, Write, EndCentralExtra, EndLocalExtra,
       EndLocalExtraPanics, EndingLocalExtra, ExtraAccepted
<1>7. CASE \/ FinishCrypto \/ KeepHeader \/ UpdateHeader \/ StartEntry
           \/ CopyRaw \/ WriteTarget \/ WriteCentralHeader \/ WriteEndRecords
  BY <1>2, <1>7 DEF FinishCrypto, KeepHeader, UpdateHeader, StartEntry, CopyRaw,
                    WriteTarget, WriteCentralHeader, WriteEndRecords
<1> QED
  BY <1>3, <1>4, <1>5, <1>6, <1>7 DEF Next

\* Every step of a live writer that stays one.
LEMMA LiveNextHeaders ==
    ASSUME Premises, FitsU64, Next
    PROVE  LiveHeaders'
<1>1. CASE \/ StartFile \/ StartFileWithExtraData \/ StartFileAligned
           \/ AddDirectory \/ AddSymlink \/ RawCopyFile
           \/ EndExtraData \/ EndLocalStartCentralExtraData \/ Finish
           \/ SetComment \/ Drop
  BY <1>1, CallsHeaders, RefusalsHeaders, DropHeaders
<1>2. CASE Write \/ WriteRefused \/ Flush
  BY <1>2, WriteHeaders, RefusalsHeaders, FlushHeaders
<1>3. CASE ExtraRefused \/ EndCentralExtra \/ EndLocalExtraPanics \/ EndLocalExtra
  BY <1>3, ExtraRefusedHeaders, EndCentralExtraHeaders, EndLocalExtraHeaders
<1>4. CASE SwitchStored \/ FinishCrypto \/ KeepHeader \/ UpdateHeader
  BY <1>4, SwitchStoredHeaders, FinishCryptoHeaders, KeepHeaderHeaders,
     UpdateHeaderHeaders
<1>5. CASE StartEntry \/ CopyRaw \/ WriteTarget \/ WriteCentralHeader
  BY <1>5, StartEntryHeaders, CopyRawHeaders, WriteTargetHeaders,
     WriteCentralHeaderHeaders
<1>6. CASE WriteEndRecords
  <2>1. ~Fails(Still(WriteTrace(disk, pos,
               EndRecords(Len(files), CentralStart, pos - CentralStart, comment))))
    BY NoFaults
  <2>2. status' \in {"finished", "dropped"}
    BY <1>6, <2>1 DEF WriteEndRecords
  <2> QED
    BY <2>2 DEF Premises
<1> QED
  BY <1>1, <1>2, <1>3, <1>4, <1>5, <1>6 DEF Next

LEMMA NextHeaders ==
    ASSUME PromiseInv, PromiseInv', HeadersInv, FitsU64, Next
    PROVE  HeadersInv'
<1> SUFFICES ASSUME faults' = 0 PROVE Headers'
  BY DEF HeadersInv
<1>1. UNCHANGED faults /\ Headers
  BY FaultsStay DEF HeadersInv
<1>2. CASE status = "live"
  <2>1. LiveHeaders
    BY <1>1, <1>2 DEF Headers
  <2>2. status' = "live" => LiveHeaders'
    BY <1>2, <2>1, LiveNextHeaders DEF Premises
  <2>3. CASE WriteEndRecords /\ ~Fail
    <3>1. AllHeadersAgree'
      BY <1>1, <2>1, <2>3, EndRecordsHeaders
    <3> QED
      BY <2>2, <3>1 DEF Headers
  <2>4. CASE ~(WriteEndRecords /\ ~Fail)
    <3>1. LiveStep
      <4>1. CASE WriteEndRecords
        <5>1. Goes
          BY <1>2, <2>4, <4>1, ReturnGoes
        <5>2. UNCHANGED promised
          BY <4>1 DEF WriteEndRecords
        <5> QED
          BY <5>1, <5>2, NothingPromised
      <4>2. CASE ~WriteEndRecords
        BY <1>2, <4>2, CallsLive, WriteLive, EndExtraLive, FinishFileLive,
           StartEntryLive DEF Next
      <4> QED
        BY <4>1, <4>2
    <3>2. ~Shown(status', result')
      BY <3>1 DEF LiveStep, Goes
    <3>3. status' # "finished" /\ ~Committed'
      BY <3>2 DEF Shown, Committed
    <3> QED
      BY <2>2, <3>3 DEF Headers
  <2> QED
    BY <2>3, <2>4
<1>3. CASE status = "finished"
  <2>1. UNCHANGED <<disk, status, files>>
    BY <1>3, FinishedStep, FinishedFiles
  <2>2. AllHeadersAgree'
    BY <1>1, <1>3, <2>1 DEF Headers, AllHeadersAgree
  <2> QED
    BY <1>3, <2>1, <2>2 DEF Headers
<1>4. status \in {"live", "finished", "dropped", "aborted"}
  BY DEF PromiseInv, SinkInv, IInv, TypeOK
<1> QED
  BY <1>2, <1>3, <1>4, GoneStep

\* A new writer has no headers, and an existing archive has its own.
LEMMA InitHeaders == Init => HeadersInv
<1> SUFFICES ASSUME Init PROVE Headers
  BY DEF HeadersInv
<1>1. /\ pc = "idle" /\ status = "live" /\ result = "none"
      /\ stats = NewStats(0) /\ ~writing_to_extra_field
  BY DEF Init, New, NewAppend, InitWriter
<1>2. StatsOK /\ stats.start = 0
  BY <1>1 DEF StatsOK, NewStats
<1>3. CASE New
  <2>1. files = << >> /\ Len(files) = 0
    BY <1>3, EmptyIsSeq DEF New, InitWriter
  <2>2. EarlierHeaders(disk, files)
    BY <2>1 DEF EarlierHeaders
  <2> QED
    BY <1>1, <1>2, <2>1, <2>2 DEF Headers, LiveHeaders, Committed
<1>4. CASE NewAppend
  <2> DEFINE a(d) == OpenArchive(d)
  <2>1. PICK d \in Existing :
          a(d).ok /\ disk = d /\ pos = a(d).start /\ files = a(d).files /\ writing_raw
    BY <1>4 DEF NewAppend, InitWriter
  <2>2. IsSeq(files) /\ Len(files) \in Nat /\ pos \in Nat
    BY <2>1, ExistingAssumption, LenIsNat
  <2>3. \A i \in 1..Len(files) :
          /\ HeaderKnown(files[i]) /\ HeaderAgrees(disk, files[i])
          /\ HeaderEnd(files[i])
               <= IF i < Len(files) THEN files[Len(files)].header_start ELSE pos
    BY <2>1, ExistingHeaders
  <2>4. EarlierHeaders(disk, files)
    BY <2>3 DEF EarlierHeaders
  <2>5. files # << >> => LastHeader(LastFile)
    <3> SUFFICES ASSUME files # << >> PROVE LastHeader(LastFile)
      OBVIOUS
    <3> DEFINE n == Len(files)
    <3>1. n \in 1..n /\ ~(n < n)
      BY <2>2, EmptyIsSeq
    <3>2. HeaderAgrees(disk, files[n]) /\ HeaderEnd(files[n]) <= pos
      BY <2>3, <3>1
    <3>3. HeaderAgrees(disk, LastFile) /\ HeaderEnd(LastFile) <= pos
      BY <3>2 DEF LastFile
    <3>4. Settled /\ Untied
      BY <2>1 DEF Settled, Untied
    <3> QED
      BY <1>1, <1>2, <2>2, <3>3, <3>4
      DEF LastHeader, PositionKnown, StartKnown, ExtraStartKnown
  <2> QED
    BY <1>1, <1>2, <2>4, <2>5 DEF Headers, LiveHeaders, Committed
<1> QED
  BY <1>3, <1>4 DEF Init

\* A step, or a stutter, keeps the invariant.
LEMMA HeadersKept ==
    ASSUME PromiseInv, PromiseInv', HeadersInv, FitsU64, [Next]_vars
    PROVE  HeadersInv'
<1>1. CASE Next
  BY <1>1, NextHeaders
<1>2. CASE UNCHANGED vars
  BY <1>2 DEF HeadersInv, Headers, LiveHeaders, EarlierHeaders, LastHeader,
       Settled, PositionKnown, StartKnown, Untied, ExtraStartKnown, StatsOK,
       AllHeadersAgree, Committed, LastFile, FinishFileSteps,
       vars, sinkVars, dataVars, flagVars, callVars, ghostVars
<1> QED
  BY <1>1, <1>2

\* The writer keeps the invariant that its observed form keeps.
LEMMA PromiseInvariance == Spec => []PromiseInv
<1>1. PromiseInv /\ [Next]_vars => PromiseInv'
  <2> SUFFICES ASSUME PromiseInv, [Next]_vars PROVE PromiseInv'
    OBVIOUS
  <2>1. CASE Next
    BY <2>1, NextPromise
  <2>2. CASE UNCHANGED vars
    <3>1. SinkInv'
      BY <2>2, NextSinkInv DEF PromiseInv
    <3> QED
      BY <2>2, <3>1 DEF PromiseInv, PromisesOK, ExtraDone, Ended, vars, sinkVars,
           callVars, flagVars, ghostVars
  <2> QED
    BY <2>1, <2>2
<1> QED
  BY <1>1, InitPromise, PTL DEF Spec

\* In every archive that a finish or drop completes without a failure of the
\* sink, the checksum and the sizes in each local header are those of the
\* central header, as a stream reader needs them, for any calls, options, sources and
\* alignments, refused calls, panics and drops in between, and for entries of
\* an existing archive whose headers agree.  FitsU64 says that no data starts
\* within ZIP64_BYTES_THR of 2^64, where finish_file's wrapped difference
\* (write.rs 447) could pass for a small size.
THEOREM LocalHeadersAreSound == Spec /\ []FitsU64 => []LocalHeadersAgree
<1>1. PromiseInv /\ PromiseInv' /\ HeadersInv /\ FitsU64 /\ [Next]_vars
        => HeadersInv'
  BY HeadersKept
<1>2. HeadersInv => LocalHeadersAgree
  BY DEF HeadersInv, Headers, AllHeadersAgree, LocalHeadersAgree
<1> QED
  BY <1>1, <1>2, InitHeaders, PromiseInvariance, PTL DEF Spec

-----------------------------------------------------------------------------
(***************************************************************************)
(* Alignment.  start_file_aligned ends the extra data in the step after    *)
(* start_entry, with a padding record that fills up to the alignment.      *)
(***************************************************************************)
\* A multiple leaves no remainder.
LEMMA NoRemainder ==
    ASSUME NEW a \in Nat \ {0}, NEW q \in Nat
    PROVE  (q * a) % a = 0
<1> DEFINE d == (q * a) \div a
           m == (q * a) % a
<1>1. q * a \in Nat
  OBVIOUS
<1>2. d \in Int /\ m \in 0..a - 1 /\ q * a = a * d + m
  BY <1>1
<1> HIDE DEF d, m
<1>3. ASSUME d < q PROVE FALSE
  <2>1. a * (d + 1) <= a * q
    BY <1>2, <1>3
  <2> QED
    BY <1>2, <2>1
<1>4. ASSUME d > q PROVE FALSE
  <2>1. a * (q + 1) <= a * d
    BY <1>2, <1>4
  <2> QED
    BY <1>2, <2>1
<1>5. d = q
  BY <1>2, <1>3, <1>4
<1>6. m = 0
  BY <1>2, <1>5
<1> QED
  BY <1>6 DEF m

\* What is missing to the next multiple, as start_file_aligned computes it.
LEMMA FilledUp ==
    ASSUME NEW n \in Nat, NEW a \in Nat, a > 1
    PROVE  LET pad_length == (a - (n % a)) % a
           IN  pad_length \in Nat /\ (n + pad_length) % a = 0
<1> DEFINE r == n % a
           d == n \div a
           p == (a - r) % a
<1>1. d \in Nat /\ r \in 0..a - 1 /\ n = a * d + r
  OBVIOUS
<1> HIDE DEF r, d
<1>2. CASE r = 0
  <2>1. p = a % a
    BY <1>2
  <2>2. (1 * a) % a = 0
    BY NoRemainder
  <2>3. p = 0
    BY <2>1, <2>2
  <2>4. n + p = d * a
    BY <1>1, <1>2, <2>3
  <2> HIDE DEF p
  <2> QED
    BY <1>1, <2>3, <2>4, NoRemainder DEF p, r
<1>3. CASE r # 0
  <2>1. a - r \in 0..a - 1
    BY <1>1, <1>3
  <2>2. p = a - r
    <3> DEFINE s == a - r
    <3>1. s \in 0..a - 1
      BY <2>1
    <3> HIDE DEF s
    <3>2. s % a = s
      BY <3>1
    <3> QED
      BY <3>2 DEF s
  <2> HIDE DEF p
  <2>3. n + p = (d + 1) * a /\ d + 1 \in Nat /\ p \in Nat
    BY <1>1, <2>1, <2>2
  <2> QED
    BY <2>3, NoRemainder DEF p, r
<1> QED
  BY <1>2, <1>3

\* The padding record, with its header, fills up to the alignment.
LEMMA PaddingAligns ==
    ASSUME NEW n \in Nat, NEW a \in Nat, a > 1
    PROVE  (n + Len(Padding(n, a))) % a = 0
<1> DEFINE pad_length == (a - ((n + 1) % a)) % a
           k == pad_length + 1
           pad == [i \in 1..k |-> <<"extra", "pad">>]
<1>1. CASE n % a # 0
  <2>1. Padding(n, a) = pad
    BY <1>1 DEF Padding
  <2>2. pad_length \in Nat /\ (n + 1 + pad_length) % a = 0
    BY FilledUp
  <2> HIDE DEF pad_length
  <2>3. k \in Nat /\ n + k = n + 1 + pad_length
    BY <2>2
  <2> HIDE DEF k
  <2>4. pad = [i \in 1..k |-> pad[i]]
    OBVIOUS
  <2> HIDE DEF pad
  <2>5. Len(pad) = k
    BY <2>3, <2>4, FunctionIsSeq
  <2> QED
    BY <2>1, <2>2, <2>3, <2>5
<1>2. CASE n % a = 0
  <2>1. Padding(n, a) = << >>
    BY <1>2 DEF Padding
  <2> QED
    BY <1>2, <2>1, EmptyIsSeq
<1> QED
  BY <1>1, <1>2

\* Between its two steps the padding is that of the last entry; and no other
\* call that writes behind start_entry is start_file_aligned.
AlignInv ==
    /\ pc = "end_extra" /\ call.op = "start_file_aligned" =>
         /\ writing_to_extra_field /\ ~writing_to_central_extra_field_only
         /\ call.align > 1 =>
              (LastFile.data_start + Len(LastFile.extra_field)) % call.align = 0
    /\ pc \in {"copy", "target"} => call.op # "start_file_aligned"

\* start_entry leaves the last entry padded.
LEMMA StartEntryAligns ==
    ASSUME PromiseInv, StartEntry
    PROVE  AlignInv'
<1> DEFINE end == pos + Len(LocalHeader(NewFile))
           pad == IF call.op = "start_file_aligned" THEN Padding(end, call.align)
                                                    ELSE << >>
           f == [NewFile EXCEPT !.data_start = end, !.extra_field = pad]
<1>1. CASE Fail
  BY <1>1 DEF Fail, AlignInv
<1>2. CASE ~Fail
  <2>1. /\ files' = Append(files, f) /\ pc = "local_header"
        /\ \E w : Started(w)
        /\ UNCHANGED writing_to_central_extra_field_only
    BY <1>2 DEF StartEntry
  <2>2. UNCHANGED call
    BY <2>1 DEF Started, FileStarted, ExtraDataStarted, DirectoryAdded,
         SymlinkStarted, RawCopyStarted, Return, Goto, Fail
  <2>3. ~writing_to_central_extra_field_only
    BY <2>1 DEF PromiseInv, ExtraDone, AfterExtraSteps, SinkInv, IInv, LastFileExists
  <2>4. pc' \in {"copy", "target"} => call.op # "start_file_aligned"
    BY <2>1 DEF Started, FileStarted, ExtraDataStarted, DirectoryAdded,
         SymlinkStarted, RawCopyStarted, Return, Goto, Fail
  <2>5. ASSUME pc' = "end_extra", call.op = "start_file_aligned"
        PROVE  /\ writing_to_extra_field'
               /\ call.align > 1 =>
                    (LastFile'.data_start + Len(LastFile'.extra_field)) % call.align = 0
    <3>1. writing_to_extra_field'
      BY <2>1, <2>5 DEF Started, FileStarted, ExtraDataStarted, DirectoryAdded,
           SymlinkStarted, RawCopyStarted
    <3>2. IsSeq(files) /\ call.align \in Nat /\ pos \in Nat
      BY DEF PromiseInv, SinkInv, VectorsOK, CallOK, IInv, TypeOK
    <3>3. LastFile' = f
      <4> HIDE DEF f
      <4>1. IsSeq(files') /\ Len(files') = Len(files) + 1
            /\ files'[Len(files) + 1] = f
        BY <2>1, <3>2, AppendExtends
      <4> QED
        BY <4>1 DEF LastFile
    <3>4. end \in Nat
      BY <3>2, LenIsNat, LocalHeaderIsSeq
    <3>5. f.data_start = end /\ f.extra_field = pad
      <4> HIDE DEF end, pad
      <4> QED
        BY DEF NewFile
    <3>6. pad = Padding(end, call.align)
      BY <2>5
    <3> HIDE DEF f, end, pad
    <3>7. call.align > 1 => (end + Len(pad)) % call.align = 0
      BY <3>2, <3>4, <3>6, PaddingAligns
    <3> QED
      BY <3>1, <3>3, <3>5, <3>7
  <2> QED
    BY <2>2, <2>3, <2>1, <2>4, <2>5 DEF AlignInv
<1> QED
  BY <1>1, <1>2

\* Every other step ends a call, or goes on in another step than these.
LEMMA NextAlign ==
    ASSUME PromiseInv, AlignInv, [Next]_vars
    PROVE  AlignInv'
<1>1. CASE StartEntry
  BY <1>1, StartEntryAligns
<1>2. CASE \/ StartFile \/ StartFileWithExtraData \/ StartFileAligned
           \/ AddDirectory \/ AddSymlink \/ RawCopyFile \/ Finish
  <2>1. FinishFile \notin {"copy", "target", "end_extra"}
    BY DEF FinishFile, AfterExtra
  <2>2. \E c : Begin(c, FinishFile)
    BY <1>2 DEF StartFile, StartFileWithExtraData, StartFileAligned, AddDirectory,
         AddSymlink, RawCopyFile, Finish, AddEntry
  <2> QED
    BY <2>1, <2>2 DEF Begin, AlignInv
<1>3. CASE EndExtraData \/ EndLocalStartCentralExtraData
  BY <1>3 DEF EndExtraData, EndLocalStartCentralExtraData, Begin, NoCall, AlignInv
<1>4. CASE SetComment \/ WriteRefused \/ Flush
  BY <1>4 DEF SetComment, WriteRefused, Flush, Idle, Return, AlignInv
<1>5. CASE Drop
  <2>1. FinishFile \notin {"copy", "target", "end_extra"}
    BY DEF FinishFile, AfterExtra
  <2> QED
    BY <1>5, <2>1 DEF Drop, AlignInv
<1>6. CASE Write \/ WriteTarget
  BY <1>6 DEF Write, WriteTarget, WriteData, Return, Fail, AlignInv
<1>7. CASE ExtraRefused \/ EndLocalExtraPanics
  BY <1>7 DEF ExtraRefused, EndLocalExtraPanics, Fail, Panic, AlignInv
<1>8. CASE EndCentralExtra \/ EndLocalExtra
  <2>1. \/ pc' = "idle"
        \/ pc' \in {"switch_stored", "finish_crypto", "update_header"}
    BY <1>8 DEF EndCentralExtra, EndLocalExtra, ExtraEnded, AfterExtra, Goto, Return,
         Fail, Panic
  <2> QED
    BY <2>1 DEF AlignInv
<1>9. CASE SwitchStored \/ FinishCrypto \/ KeepHeader \/ UpdateHeader
  <2>1. pc' \notin {"end_extra", "copy", "target"}
    BY <1>9 DEF SwitchStored, FinishCrypto, KeepHeader, UpdateHeader, AfterExtra,
         AfterFinishFile, Goto, Fail, Panic
  <2> QED
    BY <2>1 DEF AlignInv
<1>10. CASE CopyRaw \/ WriteCentralHeader \/ WriteEndRecords
  <2>1. pc' \notin {"end_extra", "copy", "target"}
    BY <1>10 DEF CopyRaw, WriteCentralHeader, WriteEndRecords, Return, Fail, Panic
  <2> QED
    BY <2>1 DEF AlignInv
<1>11. CASE UNCHANGED vars
  BY <1>11 DEF AlignInv, LastFile, vars, dataVars, flagVars, callVars
<1> QED
  BY <1>1, <1>2, <1>3, <1>4, <1>5, <1>6, <1>7, <1>8, <1>9, <1>10, <1>11 DEF Next

\* The record the last file was set to.
LEMMA LastIsSet ==
    ASSUME IsSeq(files), files # << >>, NEW f
    PROVE  SetLastFile(f)[Len(SetLastFile(f))] = f
<1> DEFINE T == {files[i] : i \in DOMAIN files} \cup {f}
<1>1. files \in Seq(T) /\ f \in T
  BY DEF IsSeq
<1> HIDE DEF T
<1>2. Len(files) \in 1..Len(files)
  BY <1>1
<1>3. Len(SetLastFile(f)) = Len(files) /\ SetLastFile(f)[Len(files)] = f
  BY <1>1, <1>2, ExceptSeq DEF SetLastFile
<1> QED
  BY <1>3

\* end_extra_data, run by start_file_aligned, moves the data behind the
\* padding, and the sink with it.
LEMMA AlignedReturns ==
    ASSUME PromiseInv, AlignInv, Next,
           pc # "idle", pc' = "idle", result' = "ok",
           call.op = "start_file_aligned"
    PROVE  LET f == files'[Len(files')]
           IN  /\ pos' = f.data_start
               /\ call.align > 1 => f.data_start % call.align = 0
<1> DEFINE last  == LastFile
           end   == last.data_start + Len(last.extra_field)
           moved == [last EXCEPT !.data_start = end]
           w     == SwitchTo(inner, moved.method, moved.level)
           trace == ExtraTrace(last, end)
<1>1. EndLocalExtra
  <2>1. pc \notin {"copy", "target", "central"}
    BY DEF AlignInv, PromiseInv, SinkInv, IInv, CallFits, Fits, EndOps
  <2>2. ~(\/ StartFile \/ StartFileWithExtraData \/ StartFileAligned
          \/ AddDirectory \/ AddSymlink \/ RawCopyFile
          \/ EndExtraData \/ EndLocalStartCentralExtraData \/ Finish)
    BY DEF StartFile, StartFileWithExtraData, StartFileAligned, AddDirectory,
         AddSymlink, RawCopyFile, EndExtraData, EndLocalStartCentralExtraData,
         Finish, AddEntry, Begin, Idle
  <2>3. ~(SetComment \/ Drop \/ Write \/ WriteRefused \/ Flush)
    BY DEF SetComment, Drop, Write, WriteRefused, Flush, Idle
  <2>4. ~(ExtraRefused \/ EndLocalExtraPanics)
    BY DEF ExtraRefused, EndLocalExtraPanics, Fail, Panic
  <2>5. ~EndCentralExtra
    <3> SUFFICES ASSUME EndCentralExtra PROVE FALSE
      OBVIOUS
    <3>1. pc = "end_extra"
      BY DEF EndCentralExtra, ExtraEnded, Goto, AfterExtra
    <3> QED
      BY <3>1 DEF AlignInv, EndCentralExtra
  <2>6. ~(SwitchStored \/ FinishCrypto \/ KeepHeader \/ UpdateHeader)
    BY DEF SwitchStored, FinishCrypto, KeepHeader, UpdateHeader, AfterExtra,
         AfterFinishFile, Goto, Fail, Panic
  <2>7. ~StartEntry
    BY DEF StartEntry, Started, FileStarted, ExtraDataStarted, DirectoryAdded,
         SymlinkStarted, RawCopyStarted, Goto, Fail
  <2>8. ~(CopyRaw \/ WriteTarget \/ WriteCentralHeader \/ WriteEndRecords)
    BY <2>1 DEF CopyRaw, WriteTarget, WriteCentralHeader, WriteEndRecords
  <2> QED
    BY <2>2, <2>3, <2>4, <2>5, <2>6, <2>7, <2>8 DEF Next
<1>2. /\ writing_to_extra_field /\ Succeeds(trace) /\ ExtraEnded(moved, w)
  BY <1>1 DEF EndLocalExtra, EndingLocalExtra, ExtraAccepted, Fail, Panic
<1>3. pc = "end_extra"
  BY <1>2 DEF ExtraEnded, Goto, AfterExtra
<1>4. /\ IsSeq(files) /\ files # << >> /\ pos \in Nat /\ call.align \in Nat
      /\ IsEntry(last)
  BY <1>2, ExtraFile DEF PromiseInv, SinkInv, VectorsOK, CallOK, IInv, TypeOK,
     LastFileExists
<1> DEFINE patched == WriteAt(WriteAt(disk, pos, last.extra_field),
                               last.header_start + EXTRA_LEN_OFFSET,
                               << <<"extralen", LocalExtraLen(last)>> >>)
<1>5. trace[Len(trace)] = <<patched, end>>
  BY <1>4, ExtraTraceEnds DEF IsEntry
<1> HIDE DEF trace, patched
<1>6. pos' = end
  BY <1>2, <1>5 DEF Succeeds, MoveSink
<1>7. PICK g : files' = SetLastFile(g) /\ (g = moved \/ g = ForLocalHeader(moved))
  BY <1>2 DEF ExtraEnded
<1>8. g.data_start = end
  BY <1>4, <1>7 DEF ForLocalHeader, IsEntry
<1>9. files'[Len(files')] = g
  BY <1>4, <1>7, SetLastIsSeq, LastIsSet
<1>10. call.align > 1 => end % call.align = 0
  BY <1>3 DEF AlignInv
<1> QED
  BY <1>6, <1>8, <1>9, <1>10

\* The data of an entry of start_file_aligned starts at a multiple of the
\* alignment, where the sink stands when the call returns, for every
\* alignment and position, whatever was called and failed before.
THEOREM EntriesAreAligned == Spec => DataAligned
<1>1. Init => AlignInv
  BY DEF Init, New, NewAppend, InitWriter, AlignInv
<1>2. PromiseInv /\ AlignInv /\ [Next]_vars =>
        [pc # "idle" /\ pc' = "idle" /\ result' = "ok"
           /\ call.op = "start_file_aligned" =>
             LET f == files'[Len(files')]
             IN  /\ pos' = f.data_start
                 /\ call.align > 1 => f.data_start % call.align = 0]_vars
  BY AlignedReturns
<1>3. PromiseInv /\ AlignInv /\ [Next]_vars => AlignInv'
  BY NextAlign
<1> QED
  BY <1>1, <1>2, <1>3, PromiseInvariance, PTL DEF Spec, DataAligned

-----------------------------------------------------------------------------
(***************************************************************************)
(* Panics.  What is left to the caller: which entries get extra data, and, *)
(* in a build with overflow checks, that what is computed fits.            *)
(***************************************************************************)
\* What switch_to can switch to.
Writable(o) ==
    o.method = "stored" \/ (o.method \in Encoders /\ o.level # "invalid")

\* Extra data is only written for entries that are not encrypted, with a
\* method and a level the crate has.
ExtraForWritable ==
    call.op \in {"start_file_with_extra_data", "start_file_aligned"} =>
        Writable(call.options) /\ ~call.options.encrypted

\* An entry whose header gets a ZIP64 record.
NeedsZip64(f) ==
    \/ f.large_file \/ f.uncompressed_size > ZIP64_BYTES_THR
    \/ f.compressed_size > ZIP64_BYTES_THR \/ f.header_start > ZIP64_BYTES_THR

\* The record fits in beside the extra field.
RoomForZip64 ==
    \A i \in 1..Len(files) :
        NeedsZip64(files[i]) => Len(files[i].extra_field) < ZIP64_ENTRY_THR

\* Builds without overflow checks are not restricted.
NothingOverflows ==
    OverflowChecks => FitsU64 /\ faults = 0 /\ RoomForZip64 /\ SizesFit

\* The length of an extra field that is not being written is of sixteen bits.
ExtraLengths ==
    \A i \in 1..Len(files) :
        i < Len(files) \/ ~writing_to_extra_field =>
            Len(files[i].extra_field) <= ZIP64_ENTRY_THR

\* While local extra data is written the writer is plain, and stays open when
\* the data ends.
PanicInv ==
    /\ NoPanic
    /\ pc \in {"copy", "target"} => ~writing_to_extra_field
    /\ writing_to_extra_field /\ ~writing_to_central_extra_field_only =>
         IsPlain(inner) /\ Writable(LastFile)
    /\ ExtraLengths
    /\ OverflowChecks => HeadersInv

\* What a step of a writer is shown from.
Careful ==
    /\ PromiseInv /\ PanicInv /\ ExtraForWritable /\ NothingOverflows

\* All of the invariant but the last conjuncts.
Unpanicked ==
    /\ NoPanic
    /\ pc \in {"copy", "target"} => ~writing_to_extra_field
    /\ writing_to_extra_field /\ ~writing_to_central_extra_field_only =>
         IsPlain(inner) /\ Writable(LastFile)

\* A step outside of extra data.
LEMMA NoExtraPanics ==
    ASSUME ~writing_to_extra_field', result' # "panic"
    PROVE  Unpanicked'
BY DEF Unpanicked, NoPanic

\* A step that leaves the writer plain, if it is, and the extra data alone.
LEMMA SameExtraPanics ==
    ASSUME Careful, result' # "panic", pc' \notin {"copy", "target"},
           IsPlain(inner) => IsPlain(inner'),
           UNCHANGED <<files, writing_to_extra_field,
                       writing_to_central_extra_field_only>>
    PROVE  Unpanicked'
BY DEF Careful, PanicInv, Unpanicked, NoPanic, LastFile

\* The position is behind the start of the data when sizes are computed.
LEMMA NoUnderflow ==
    ASSUME Careful, pc = "update_header", files # << >>, OverflowChecks
    PROVE  ~(pos < stats.start)
<1>1. status = "live"
  <2>1. IsPlain(inner)
    BY DEF Careful, PromiseInv, SinkInv, IInv, GetPlainSafe, SafeAt
  <2> QED
    BY <2>1 DEF Careful, PromiseInv, SinkInv, IInv, TypeOK, Ended, IsPlain, IsClosed
<1>2. LiveHeaders
  BY <1>1 DEF Careful, PanicInv, HeadersInv, Headers, NothingOverflows
<1>3. LastHeader(LastFile) /\ pos \in Nat
  BY <1>2, LastHeaderFacts DEF Careful
<1>4. stats.start <= pos
  BY <1>3 DEF LastHeader, PositionKnown, Careful, NothingOverflows, SizesFit
<1>5. stats.start \in Nat
  BY <1>2 DEF LiveHeaders, StatsOK
<1> QED
  BY <1>3, <1>4, <1>5

\* The joint length of the ZIP64 record and the extra data fits.
LEMMA CentralExtraFits ==
    ASSUME Careful, ~writing_to_extra_field, NEW i \in 1..Len(files), OverflowChecks
    PROVE  ~(Len(CentralExtra(files[i])) > ZIP64_ENTRY_THR)
<1> DEFINE f == files[i]
           payload == Zip64Payload(f.uncompressed_size, f.compressed_size, f.header_start)
           record == IF payload = << >> THEN << >> ELSE << <<"zip64", payload>> >>
<1>1. IsSeq(record) /\ Len(record) \in {0, 1}
  BY EmptyIsSeq, SingleIsSeq
<1>2. IsSeq(f.extra_field)
  BY DEF Careful, PromiseInv, SinkInv, VectorsOK, EntriesOK, IsEntry
<1>3. CentralExtra(f) = record \o f.extra_field
  BY DEF CentralExtra
<1>4. /\ NeedsZip64(f) => Len(f.extra_field) < ZIP64_ENTRY_THR
      /\ Len(f.extra_field) <= ZIP64_ENTRY_THR
  BY DEF Careful, NothingOverflows, RoomForZip64, PanicInv, ExtraLengths
<1>5. ~NeedsZip64(f) => Len(record) = 0
  <2> SUFFICES ASSUME ~NeedsZip64(f) PROVE payload = << >>
    BY EmptyIsSeq
  <2> QED
    BY DEF NeedsZip64, Zip64Payload, IfAbove
<1> HIDE DEF record, f
<1>6. Len(record \o f.extra_field) = Len(record) + Len(f.extra_field)
  BY <1>1, <1>2, ConcatIsSeq
<1>7. Len(f.extra_field) \in Nat
  BY LenIsNat
<1>8. ~(Len(CentralExtra(f)) > ZIP64_ENTRY_THR)
  BY <1>1, <1>3, <1>4, <1>5, <1>6, <1>7, EntryThrAssumption
<1> QED
  BY <1>8 DEF f

\* end_extra_data finds a plain writer, and leaves an open one.
LEMMA EndLocalExtraPanicsNot ==
    ASSUME Careful, EndLocalExtra
    PROVE  Unpanicked'
<1> DEFINE last  == LastFile
           end   == last.data_start + Len(last.extra_field)
           moved == [last EXCEPT !.data_start = end]
           w     == SwitchTo(inner, moved.method, moved.level)
<1>1. /\ writing_to_extra_field /\ ~writing_to_central_extra_field_only
      /\ IsPlain(inner) /\ pc \in ExtraSteps
  BY DEF EndLocalExtra, EndingLocalExtra, ExtraAccepted
<1>2. /\ files # << >> /\ IsEntry(last) /\ IsSeq(files)
  BY <1>1, ExtraFile DEF Careful, PromiseInv, SinkInv, IInv, TypeOK
<1>3. /\ moved.method = last.method /\ moved.level = last.level
      /\ moved.large_file = last.large_file /\ moved.extra_field = last.extra_field
  <2> HIDE DEF end
  <2> QED
    OBVIOUS
<1>4. Writable(last) /\ Writable(moved)
  BY <1>1, <1>3 DEF Careful, PanicInv, Writable
<1>5. ~IsClosed(w)
  BY <1>1, <1>4, EncodersAssumption
  DEF SwitchTo, Writable, IsClosed, IsPlain, Careful, PromiseInv, SinkInv, IInv,
      TypeOK, IsWriter
<1>6. ~LocalExtraOverflows(moved)
  <2> SUFFICES ASSUME OverflowChecks
               PROVE  ~(ZeroOrOne(moved.large_file) + Len(moved.extra_field)
                          > ZIP64_ENTRY_THR)
    BY DEF LocalExtraOverflows
  <2>1. Len(files) \in 1..Len(files)
    BY <1>2, SealedBounds DEF Careful, PromiseInv
  <2>2. /\ last.large_file => Len(last.extra_field) < ZIP64_ENTRY_THR
        /\ Len(last.extra_field) <= ZIP64_ENTRY_THR
    BY <2>1 DEF Careful, NothingOverflows, RoomForZip64, NeedsZip64, LastFile,
         EndLocalExtra, EndingLocalExtra, ExtraAccepted, ValidExtra
  <2>3. /\ ZeroOrOne(moved.large_file) \in {0, 1}
        /\ ~moved.large_file => ZeroOrOne(moved.large_file) = 0
    BY DEF ZeroOrOne
  <2>4. Len(last.extra_field) \in Nat
    BY LenIsNat
  <2> HIDE DEF moved, last
  <2> QED
    BY <1>3, <2>2, <2>3, <2>4, EntryThrAssumption
<1>7. \/ ExtraEnded(moved, w)
      \/ /\ Fail /\ UNCHANGED <<inner, flagVars>>
         /\ files' = SetLastFile(moved) \/ files' = files
  BY <1>5, <1>6 DEF EndLocalExtra
<1> HIDE DEF moved, w
<1>8. CASE ExtraEnded(moved, w)
  <2>1. /\ writing_to_extra_field' = EntersCentral
        /\ writing_to_central_extra_field_only' = EntersCentral
    BY <1>8 DEF ExtraEnded, CentralOnlyNext
  <2>2. result' # "panic" /\ pc' \notin {"copy", "target"}
    BY <1>8 DEF ExtraEnded, Return, Goto, AfterExtra, Careful, PanicInv, NoPanic
  <2> QED
    BY <2>1, <2>2 DEF Unpanicked, NoPanic
<1>9. CASE /\ Fail /\ UNCHANGED <<inner, flagVars>>
           /\ files' = SetLastFile(moved) \/ files' = files
  <2>1. result' # "panic" /\ pc' = "idle"
    BY <1>9 DEF Fail
  <2>2. LastFile' = moved \/ LastFile' = last
    BY <1>2, <1>9, LastIsSet DEF LastFile
  <2> HIDE DEF last
  <2>3. Writable(LastFile')
    BY <1>4, <2>2
  <2> QED
    BY <1>1, <1>9, <2>1, <2>3 DEF Unpanicked, NoPanic, Writable
<1> QED
  BY <1>7, <1>8, <1>9

\* start_entry goes on with a plain writer when extra data follows.
LEMMA StartEntryPanicsNot ==
    ASSUME Careful, StartEntry
    PROVE  Unpanicked'
<1> DEFINE end == pos + Len(LocalHeader(NewFile))
           pad == IF call.op = "start_file_aligned" THEN Padding(end, call.align)
                                                    ELSE << >>
           f == [NewFile EXCEPT !.data_start = end, !.extra_field = pad]
           w == [Plain EXCEPT !.encrypted = call.options.encrypted]
<1>1. ~writing_to_extra_field /\ result # "panic"
  BY DEF Careful, PromiseInv, ExtraDone, AfterExtraSteps, StartEntry, PanicInv, NoPanic
<1>2. CASE Fail /\ UNCHANGED writing_to_extra_field
  BY <1>1, <1>2, NoExtraPanics DEF Fail
<1>3. CASE Started(w) /\ files' = Append(files, f)
  <2>1. CASE ~ExtraDataStarted(w)
    <3>1. UNCHANGED writing_to_extra_field
      BY <1>3, <2>1 DEF Started, FileStarted, DirectoryAdded, SymlinkStarted,
           RawCopyStarted
    <3>2. result' # "panic"
      BY <1>1, <1>3, <2>1 DEF Started, FileStarted, DirectoryAdded, SymlinkStarted,
           RawCopyStarted, Return, Goto, Fail
    <3> QED
      BY <1>1, <3>1, <3>2, NoExtraPanics
  <2>2. CASE ExtraDataStarted(w)
    <3>1. /\ call.op \in {"start_file_with_extra_data", "start_file_aligned"}
          /\ inner' = w /\ pc' \in {"idle", "end_extra"} /\ result' # "panic"
      BY <1>1, <2>2 DEF ExtraDataStarted, Return, Goto
    <3>2. Writable(call.options) /\ ~call.options.encrypted
      BY <3>1 DEF Careful, ExtraForWritable
    <3>3. IsPlain(w)
      BY <3>2 DEF IsPlain, Plain, Closed
    <3>4. f.method = call.options.method /\ f.level = call.options.level
      <4> HIDE DEF end, pad
      <4> QED
        BY <3>1 DEF NewFile
    <3>5. LastFile' = f
      <4> HIDE DEF f
      <4>1. IsSeq(files)
        BY DEF Careful, PromiseInv, SinkInv, IInv, TypeOK
      <4>2. Len(files') = Len(files) + 1 /\ files'[Len(files) + 1] = f
        BY <1>3, <4>1, AppendExtends
      <4> QED
        BY <4>2 DEF LastFile
    <3> HIDE DEF f, w
    <3>6. Writable(LastFile')
      BY <3>2, <3>4, <3>5 DEF Writable
    <3> QED
      BY <3>1, <3>3, <3>6 DEF Unpanicked, NoPanic, Writable
  <2> QED
    BY <2>1, <2>2
<1> QED
  BY <1>2, <1>3 DEF StartEntry

\* Every other step.
LEMMA NextPanicsNot ==
    ASSUME Careful, Next
    PROVE  Unpanicked'
<1>1. result # "panic"
  BY DEF Careful, PanicInv, NoPanic
<1>2. CASE \/ StartFile \/ StartFileWithExtraData \/ StartFileAligned
           \/ AddDirectory \/ AddSymlink \/ RawCopyFile \/ Finish
           \/ EndExtraData \/ EndLocalStartCentralExtraData
  <2>1. FinishFile \notin {"copy", "target"}
    BY DEF FinishFile, AfterExtra
  <2>2. \E c : Begin(c, FinishFile) \/ Begin(c, "end_extra")
    BY <1>2 DEF StartFile, StartFileWithExtraData, StartFileAligned, AddDirectory,
         AddSymlink, RawCopyFile, Finish, EndExtraData, EndLocalStartCentralExtraData,
         AddEntry
  <2> QED
    BY <2>1, <2>2, SameExtraPanics DEF Begin, dataVars, flagVars
<1>3. CASE SetComment \/ WriteRefused
  BY <1>3, SameExtraPanics DEF SetComment, WriteRefused, Idle, Return, dataVars, flagVars
<1>4. CASE Drop
  <2>1. FinishFile \notin {"copy", "target"}
    BY DEF FinishFile, AfterExtra
  <2> QED
    BY <1>4, <2>1, SameExtraPanics DEF Drop, dataVars, flagVars
<1>5. CASE Flush
  <2>1. IsPlain(inner) => IsPlain(inner')
    <3>1. IsWriter(inner)
      BY DEF Careful, PromiseInv, SinkInv, IInv, TypeOK
    <3>2. inner' = inner \/ \E b, p :
            inner' = [inner EXCEPT !.pending = p, !.buffer = b]
            \/ inner' = [inner EXCEPT !.pending = p]
      BY <1>5 DEF Flush
    <3> QED
      BY <3>1, <3>2 DEF IsWriter, IsPlain
  <2>2. pc' = "idle" /\ result' # "panic"
    BY <1>5 DEF Flush, Return
  <2>3. UNCHANGED <<files, writing_to_extra_field, writing_to_central_extra_field_only>>
    BY <1>5 DEF Flush, dataVars, flagVars
  <2> QED
    BY <2>1, <2>2, <2>3, SameExtraPanics
<1>6. CASE Write
  <2>1. CASE ~writing_to_extra_field
    <3>1. \E b \in Bytes : WriteData(b, TRUE)
      BY <1>6, <2>1 DEF Write
    <3>2. result' # "panic"
      BY <3>1 DEF WriteData, Return, Fail
    <3> QED
      BY <1>6, <2>1, <3>2, NoExtraPanics DEF Write
  <2>2. CASE writing_to_extra_field
    <3> DEFINE g(cell) == [LastFile EXCEPT !.extra_field = Append(@, cell)]
    <3>1. /\ \E cell \in ExtraCells : files' = SetLastFile(g(cell))
          /\ Return("ok") /\ UNCHANGED inner
          /\ UNCHANGED <<writing_to_extra_field, writing_to_central_extra_field_only>>
      BY <1>6, <2>2 DEF Write
    <3>2. PICK cell \in ExtraCells : files' = SetLastFile(g(cell))
      BY <3>1
    <3>3. g(cell).method = LastFile.method /\ g(cell).level = LastFile.level
      OBVIOUS
    <3> HIDE DEF g
    <3>4. IsSeq(files) /\ files # << >>
      BY <2>2 DEF Careful, PromiseInv, SinkInv, IInv, TypeOK, LastFileExists
    <3>5. LastFile' = g(cell)
      BY <3>2, <3>4, LastIsSet DEF LastFile
    <3>6. Writable(LastFile) => Writable(LastFile')
      BY <3>3, <3>5 DEF Writable
    <3> QED
      BY <2>2, <3>1, <3>6 DEF Return, Careful, PanicInv, Unpanicked, NoPanic, Writable
  <2> QED
    BY <2>1, <2>2
<1>7. CASE WriteTarget
  <2>1. ~writing_to_extra_field
    BY <1>7 DEF WriteTarget, Careful, PanicInv
  <2> QED
    BY <1>7, <2>1, NoExtraPanics DEF WriteTarget, WriteData, Return, Fail
<1>8. CASE ExtraRefused
  BY <1>8, SameExtraPanics DEF ExtraRefused, Fail, dataVars, flagVars
<1>9. CASE EndLocalExtraPanics
  BY <1>9 DEF EndLocalExtraPanics, EndingLocalExtra, ExtraAccepted, Careful, PanicInv
<1>10. CASE EndCentralExtra
  <2>1. /\ writing_to_extra_field' = EntersCentral
        /\ writing_to_central_extra_field_only' = EntersCentral
    BY <1>10 DEF EndCentralExtra, ExtraEnded, CentralOnlyNext
  <2>2. result' # "panic" /\ pc' \notin {"copy", "target"}
    BY <1>1, <1>10 DEF EndCentralExtra, ExtraEnded, Return, Goto, AfterExtra
  <2> QED
    BY <2>1, <2>2 DEF Unpanicked, NoPanic
<1>11. CASE SwitchStored \/ FinishCrypto \/ KeepHeader \/ WriteEndRecords
  <2>1. ~writing_to_extra_field'
    BY <1>11 DEF SwitchStored, FinishCrypto, KeepHeader, WriteEndRecords, flagVars,
         Careful, PromiseInv, ExtraDone, AfterExtraSteps
  <2>2. result' # "panic"
    BY <1>1, <1>11 DEF SwitchStored, FinishCrypto, KeepHeader, WriteEndRecords,
         Goto, Fail
  <2> QED
    BY <2>1, <2>2, NoExtraPanics
<1>12. CASE UpdateHeader
  <2>1. ~writing_to_extra_field'
    BY <1>12 DEF UpdateHeader, Careful, PromiseInv, ExtraDone, AfterExtraSteps
  <2>2. ~(OverflowChecks /\ pos < stats.start)
    BY <1>12, NoUnderflow DEF UpdateHeader
  <2>3. result' # "panic"
    BY <1>1, <1>12, <2>2 DEF UpdateHeader, Goto, Fail
  <2> QED
    BY <2>1, <2>3, NoExtraPanics
<1>13. CASE WriteCentralHeader
  <2> DEFINE i == call.headers + 1
  <2>1. pc = "central" /\ call.headers < Len(files)
    BY <1>13 DEF WriteCentralHeader
  <2>2. i \in 1..Len(files)
    <3>1. call.headers \in Nat
      BY DEF Careful, PromiseInv, SinkInv, VectorsOK, CallOK
    <3> QED
      BY <2>1, <3>1, LenIsNat
  <2>3. ~(OverflowChecks /\ Len(CentralExtra(files[i])) > ZIP64_ENTRY_THR)
    BY <2>1, <2>2, CentralExtraFits DEF Careful, PromiseInv, ExtraDone, AfterExtraSteps
  <2>4. ~writing_to_extra_field'
    BY <1>13 DEF WriteCentralHeader, flagVars, Careful, PromiseInv, ExtraDone,
         AfterExtraSteps
  <2>5. result' # "panic"
    BY <1>1, <1>13, <2>3 DEF WriteCentralHeader, Fail
  <2> QED
    BY <2>4, <2>5, NoExtraPanics
<1>14. CASE CopyRaw
  <2>1. ~writing_to_extra_field
    BY <1>14 DEF CopyRaw, Careful, PanicInv
  <2> QED
    BY <1>14, <2>1, NoExtraPanics DEF CopyRaw, Return, Fail, flagVars
<1> QED
  BY <1>2, <1>3, <1>4, <1>5, <1>6, <1>7, <1>8, <1>9, <1>10, <1>11, <1>12, <1>13,
     <1>14, EndLocalExtraPanicsNot, StartEntryPanicsNot DEF Next

\* Another last entry, whose extra field is being written or short enough.
LEMMA LastExtraSet ==
    ASSUME IsSeq(files), files # << >>, ExtraLengths,
           NEW f, files' = SetLastFile(f),
           writing_to_extra_field' \/ Len(f.extra_field) <= ZIP64_ENTRY_THR
    PROVE  ExtraLengths'
<1> DEFINE T == {files[i] : i \in DOMAIN files} \cup {f}
<1>1. files \in Seq(T) /\ f \in T
  BY DEF IsSeq
<1> HIDE DEF T
<1>2. Len(files) \in 1..Len(files)
  BY <1>1
<1>3. Len(files') = Len(files) /\ files'[Len(files)] = f
  BY <1>1, <1>2, ExceptSeq DEF SetLastFile
<1>4. \A i \in 1..Len(files) : i # Len(files) => files'[i] = files[i]
  BY <1>1, <1>2, ExceptSeq DEF SetLastFile
<1> QED
  BY <1>2, <1>3, <1>4 DEF ExtraLengths

\* No entry is changed, and the last one's extra field is as long as it may be.
LEMMA SameExtraLengths ==
    ASSUME ExtraLengths, files' = files,
           writing_to_extra_field' \/ ~writing_to_extra_field
    PROVE  ExtraLengths'
BY DEF ExtraLengths

\* Extra fields grow beyond sixteen bits only while they are written, and are
\* not accepted then.
LEMMA NextExtraLengths ==
    ASSUME PromiseInv, ExtraLengths, Next
    PROVE  ExtraLengths'
<1> DEFINE last == LastFile
<1>1. IsSeq(files) /\ Len(files) \in Nat
  BY SealedBounds DEF PromiseInv
<1>2. pc \in AfterExtraSteps => ~writing_to_extra_field
  BY DEF PromiseInv, ExtraDone
<1>3. /\ files # << >> /\ ~writing_to_extra_field
         => Len(LastFile.extra_field) <= ZIP64_ENTRY_THR
  BY <1>1, EmptyIsSeq DEF ExtraLengths, LastFile
<1>4. CASE \/ StartFile \/ StartFileWithExtraData \/ StartFileAligned
           \/ AddDirectory \/ AddSymlink \/ RawCopyFile \/ Finish
           \/ EndExtraData \/ EndLocalStartCentralExtraData
  <2>1. \E c : Begin(c, FinishFile) \/ Begin(c, "end_extra")
    BY <1>4 DEF StartFile, StartFileWithExtraData, StartFileAligned, AddDirectory,
         AddSymlink, RawCopyFile, Finish, EndExtraData, EndLocalStartCentralExtraData,
         AddEntry
  <2> QED
    BY <2>1, SameExtraLengths DEF Begin, dataVars, flagVars
<1>5. CASE \/ SetComment \/ WriteRefused \/ Drop \/ Flush \/ ExtraRefused
           \/ EndLocalExtraPanics \/ CopyRaw
  BY <1>5, SameExtraLengths
  DEF SetComment, WriteRefused, Drop, Flush, ExtraRefused, EndLocalExtraPanics,
      CopyRaw, dataVars, flagVars
<1>6. CASE Write
  <2>1. CASE ~writing_to_extra_field
    <3>1. files' = files
      BY <1>6, <2>1 DEF Write, WriteData
    <3> QED
      BY <2>1, <3>1, SameExtraLengths
  <2>2. CASE writing_to_extra_field
    <3>1. /\ \E f : files' = SetLastFile(f)
          /\ UNCHANGED writing_to_extra_field
      BY <1>6, <2>2 DEF Write
    <3>2. files # << >>
      BY <2>2 DEF PromiseInv, SinkInv, IInv, TypeOK, LastFileExists
    <3> QED
      BY <1>1, <2>2, <3>1, <3>2, LastExtraSet
  <2> QED
    BY <2>1, <2>2
<1>7. CASE WriteTarget
  <2>1. UNCHANGED <<files, writing_to_extra_field>>
    BY <1>7 DEF WriteTarget, WriteData
  <2> QED
    BY <2>1, SameExtraLengths
<1>8. CASE EndCentralExtra \/ EndLocalExtra
  <2> DEFINE moved == [last EXCEPT !.data_start = last.data_start + Len(last.extra_field)]
  <2>1. /\ writing_to_extra_field /\ Len(last.extra_field) <= ZIP64_ENTRY_THR
        /\ pc \in ExtraSteps
    BY <1>8 DEF EndCentralExtra, EndLocalExtra, EndingLocalExtra, ExtraAccepted,
         ValidExtra
  <2>2. files # << >> /\ IsEntry(last)
    BY <2>1, ExtraFile DEF PromiseInv, SinkInv, IInv, TypeOK
  <2>3. /\ moved.extra_field = last.extra_field
        /\ ForLocalHeader(last).extra_field = << >>
        /\ ForLocalHeader(moved).extra_field = << >>
    BY <2>2 DEF IsEntry, ForLocalHeader
  <2>4. \/ files' \in {SetLastFile(f) : f \in {last, moved, ForLocalHeader(last),
                                               ForLocalHeader(moved)}}
        \/ UNCHANGED <<files, writing_to_extra_field>>
    BY <1>8 DEF EndCentralExtra, EndLocalExtra, ExtraEnded, flagVars
  <2>5. PICK f \in {last, moved, ForLocalHeader(last), ForLocalHeader(moved)} :
          files' = SetLastFile(f) \/ UNCHANGED <<files, writing_to_extra_field>>
    BY <2>4
  <2> HIDE DEF last, moved
  <2>6. Len(f.extra_field) <= ZIP64_ENTRY_THR
    <3>1. f.extra_field = last.extra_field \/ f.extra_field = << >>
      BY <2>3, <2>5
    <3> QED
      BY <2>1, <3>1, EmptyIsSeq, EntryThrAssumption
  <2>7. CASE files' = SetLastFile(f)
    BY <1>1, <2>2, <2>6, <2>7, LastExtraSet
  <2>8. CASE UNCHANGED <<files, writing_to_extra_field>>
    BY <2>8, SameExtraLengths
  <2> QED
    BY <2>5, <2>7, <2>8
<1>9. CASE \/ SwitchStored \/ FinishCrypto \/ KeepHeader \/ WriteCentralHeader
           \/ WriteEndRecords
  <2>1. files' = files /\ ~writing_to_extra_field
    BY <1>2, <1>9 DEF SwitchStored, FinishCrypto, KeepHeader, WriteCentralHeader,
         WriteEndRecords, dataVars, AfterExtraSteps
  <2> QED
    BY <2>1, SameExtraLengths
<1>10. CASE UpdateHeader
  <2> DEFINE f == [Summed EXCEPT !.compressed_size = U64(pos - stats.start)]
  <2>1. /\ files # << >> /\ ~writing_to_extra_field
        /\ files' = SetLastFile(f) \/ files' = SetLastFile(Summed)
    BY <1>2, <1>10 DEF UpdateHeader, AfterExtraSteps
  <2>2. Summed.extra_field = LastFile.extra_field /\ f.extra_field = LastFile.extra_field
    BY DEF Summed
  <2> HIDE DEF f
  <2> QED
    BY <1>1, <1>3, <2>1, <2>2, LastExtraSet
<1>11. CASE StartEntry
  <2> DEFINE end == pos + Len(LocalHeader(NewFile))
             pad == IF call.op = "start_file_aligned" THEN Padding(end, call.align)
                                                      ELSE << >>
             g   == [NewFile EXCEPT !.data_start = end, !.extra_field = pad]
  <2>1. ~writing_to_extra_field
    BY <1>2, <1>11 DEF StartEntry, AfterExtraSteps
  <2>2. CASE files' = files
    BY <2>1, <2>2, SameExtraLengths
  <2>3. CASE files' = Append(files, g) /\ \E w : Started(w)
    <3>1. g.extra_field = pad
      BY DEF NewFile
    <3>2. pad = << >> \/ writing_to_extra_field'
      BY <2>3 DEF Started, FileStarted, ExtraDataStarted, DirectoryAdded,
           SymlinkStarted, RawCopyStarted
    <3> HIDE DEF g, pad
    <3>3. /\ Len(files') = Len(files) + 1 /\ files'[Len(files) + 1] = g
          /\ \A i \in 1..Len(files) : files'[i] = files[i]
      BY <1>1, <2>3, AppendCells
    <3>4. Len(g.extra_field) <= ZIP64_ENTRY_THR \/ writing_to_extra_field'
      BY <3>1, <3>2, EmptyIsSeq, EntryThrAssumption
    <3> QED
      BY <1>1, <2>1, <3>3, <3>4 DEF ExtraLengths
  <2> QED
    BY <1>11, <2>2, <2>3 DEF StartEntry
<1> QED
  BY <1>4, <1>5, <1>6, <1>7, <1>8, <1>9, <1>10, <1>11 DEF Next

\* No call panics, in a build without overflow checks whatever fails, as long
\* as extra data is only written for entries that are not encrypted and that
\* the crate can compress; in a build with them, if also no sink fails, the
\* ZIP64 record of an entry that gets one fits in beside its extra field, and no
\* entry turns out larger than its options said.
THEOREM CallsDoNotPanic ==
    Spec /\ []ExtraForWritable /\ []NothingOverflows => []NoPanic
<1>1. Init => PanicInv
  <2> SUFFICES ASSUME Init PROVE PanicInv
    OBVIOUS
  <2>1. pc = "idle" /\ result = "none" /\ ~writing_to_extra_field
    BY DEF Init, New, NewAppend, InitWriter
  <2>2. ExtraLengths
    <3>1. CASE New
      BY <3>1, EmptyIsSeq DEF New, InitWriter, ExtraLengths
    <3>2. CASE NewAppend
      BY <3>2, ExistingAssumption DEF NewAppend, InitWriter, ExtraLengths
    <3> QED
      BY <3>1, <3>2 DEF Init
  <2> QED
    BY <2>1, <2>2, InitHeaders DEF PanicInv, NoPanic
<1>2. PromiseInv /\ PromiseInv' /\ PanicInv /\ ExtraForWritable /\ NothingOverflows
      /\ [Next]_vars => PanicInv'
  <2> SUFFICES ASSUME PromiseInv, PromiseInv', PanicInv, ExtraForWritable,
                      NothingOverflows, [Next]_vars
               PROVE  PanicInv'
    OBVIOUS
  <2>1. OverflowChecks => HeadersInv'
    BY HeadersKept DEF PanicInv, NothingOverflows
  <2>2. CASE Next
    <3>1. Unpanicked'
      BY <2>2, NextPanicsNot DEF Careful
    <3>2. ExtraLengths'
      BY <2>2, NextExtraLengths DEF PanicInv
    <3> QED
      BY <2>1, <3>1, <3>2 DEF PanicInv, Unpanicked
  <2>3. CASE UNCHANGED vars
    <3>1. UNCHANGED <<pc, result, writing_to_extra_field,
                      writing_to_central_extra_field_only, inner, files>>
      BY <2>3 DEF vars, dataVars, flagVars, callVars
    <3> QED
      BY <2>1, <3>1 DEF PanicInv, NoPanic, ExtraLengths, LastFile
  <2> QED
    BY <2>2, <2>3
<1>3. PanicInv => NoPanic
  BY DEF PanicInv
<1> QED
  BY <1>1, <1>2, <1>3, PromiseInvariance, PTL DEF Spec

-----------------------------------------------------------------------------
(***************************************************************************)
(* Sizes and offsets (Zip64Fields): which of them a reader recovers as the *)
(* writer recorded them: all but those that are Ambiguous, and none of     *)
(* those.                                                                  *)
(***************************************************************************)
Fields(u, c, h) ==
    [uncompressed_size |-> u, compressed_size |-> c, header_start |-> h,
     beyond |-> 0]

NumAbove(v) == IF v > ZIP64_BYTES_THR THEN 1 ELSE 0

\* IfAbove as a suffix.
LEMMA SuffixAbove ==
    ASSUME NEW s \in Seq(Nat), NEW v \in Nat
    PROVE  /\ s \o IfAbove(v) \in Seq(Nat)
           /\ Len(s \o IfAbove(v)) = Len(s) + NumAbove(v)
           /\ \A i \in 1..Len(s) : (s \o IfAbove(v))[i] = s[i]
           /\ v > ZIP64_BYTES_THR => (s \o IfAbove(v))[Len(s) + 1] = v
<1>1. CASE v > ZIP64_BYTES_THR
  <2>1. IfAbove(v) = <<v>> /\ NumAbove(v) = 1
    BY <1>1 DEF IfAbove, NumAbove
  <2> QED
    BY <2>1
<1>2. CASE ~(v > ZIP64_BYTES_THR)
  <2>1. IfAbove(v) = << >> /\ NumAbove(v) = 0
    BY <1>2 DEF IfAbove, NumAbove
  <2>2. s \o << >> = s
    BY ConcatEmptySeq
  <2> QED
    BY <2>1, <2>2, <1>2
<1> QED
  BY <1>1, <1>2

\* The record has one value per field above the threshold, in field order.
Packs(P, u, c, h) ==
    /\ P \in Seq(Nat)
    /\ Len(P) = NumAbove(u) + NumAbove(c) + NumAbove(h)
    /\ u > ZIP64_BYTES_THR => P[1] = u
    /\ c > ZIP64_BYTES_THR => P[1 + NumAbove(u)] = c
    /\ h > ZIP64_BYTES_THR => P[1 + NumAbove(u) + NumAbove(c)] = h

LEMMA PayloadValues ==
    ASSUME NEW u \in Nat, NEW c \in Nat, NEW h \in Nat
    PROVE  Packs(Zip64Payload(u, c, h), u, c, h)
<1>1. /\ NumAbove(u) \in Nat /\ NumAbove(c) \in Nat /\ NumAbove(h) \in Nat
      /\ u > ZIP64_BYTES_THR => NumAbove(u) = 1
      /\ c > ZIP64_BYTES_THR => NumAbove(c) = 1
  BY DEF NumAbove
<1> DEFINE A == IfAbove(u)
<1>2. /\ A \in Seq(Nat) /\ Len(A) = NumAbove(u)
      /\ u > ZIP64_BYTES_THR => A[1] = u
  BY DEF IfAbove, NumAbove
<1> HIDE DEF A
<1> DEFINE B == A \o IfAbove(c)
<1>3. /\ B \in Seq(Nat)
      /\ Len(B) = Len(A) + NumAbove(c)
      /\ \A i \in 1..Len(A) : B[i] = A[i]
      /\ c > ZIP64_BYTES_THR => B[Len(A) + 1] = c
  BY <1>2, SuffixAbove
<1> HIDE DEF B
<1> DEFINE P == B \o IfAbove(h)
<1>4. /\ P \in Seq(Nat)
      /\ Len(P) = Len(B) + NumAbove(h)
      /\ \A i \in 1..Len(B) : P[i] = B[i]
      /\ h > ZIP64_BYTES_THR => P[Len(B) + 1] = h
  BY <1>3, SuffixAbove
<1>5. Zip64Payload(u, c, h) = P
  BY DEF Zip64Payload, B, A
<1> HIDE DEF P
<1>6. ASSUME u > ZIP64_BYTES_THR PROVE P[1] = u
  <2>1. Len(A) = 1 /\ Len(B) >= 1
    BY <1>1, <1>2, <1>3, <1>6
  <2>2. 1 \in 1..Len(A) /\ 1 \in 1..Len(B)
    BY <2>1, <1>3
  <2> QED
    BY <2>2, <1>2, <1>3, <1>4, <1>6
<1>7. ASSUME c > ZIP64_BYTES_THR PROVE P[Len(A) + 1] = c
  <2>1. Len(A) \in Nat /\ Len(B) = Len(A) + 1
    BY <1>1, <1>2, <1>3, <1>7
  <2>2. Len(A) + 1 \in 1..Len(B)
    BY <2>1
  <2> QED
    BY <2>2, <1>2, <1>3, <1>4, <1>7
<1>8. Len(P) = NumAbove(u) + NumAbove(c) + NumAbove(h)
  BY <1>1, <1>2, <1>3, <1>4
<1>9. /\ Len(B) + 1 = 1 + NumAbove(u) + NumAbove(c)
      /\ Len(A) + 1 = 1 + NumAbove(u)
  BY <1>1, <1>2, <1>3
<1>10. Packs(P, u, c, h)
  BY <1>4, <1>6, <1>7, <1>8, <1>9 DEF Packs
<1> QED
  BY <1>5, <1>10

\* A payload is empty when no value is above the threshold.
LEMMA EmptyPayload ==
    ASSUME NEW u \in Nat, NEW c \in Nat, NEW h \in Nat,
           Zip64Payload(u, c, h) = << >>
    PROVE  Clip32(u) = u /\ Clip32(c) = c /\ Clip32(h) = h
<1>1. NumAbove(u) + NumAbove(c) + NumAbove(h) = 0
  BY PayloadValues DEF Packs
<1>2. NumAbove(u) = 0 /\ NumAbove(c) = 0 /\ NumAbove(h) = 0
  BY <1>1 DEF NumAbove
<1> QED
  BY <1>2 DEF NumAbove, Clip32

\* A field that is not a marker is left alone.
LEMMA TakePlain ==
    ASSUME NEW ok \in BOOLEAN, NEW next \in Nat, NEW val,
           NEW v \in Nat, NEW payload \in Seq(Nat), v # ZIP64_BYTES_THR
    PROVE  Take64([ok |-> ok, next |-> next, val |-> val], v, payload)
             = [ok |-> ok, next |-> next, val |-> v]
BY DEF Take64

\* A marker takes the next value of the record.
LEMMA TakeValue ==
    ASSUME NEW next \in Nat, NEW val, NEW payload \in Seq(Nat),
           next <= Len(payload)
    PROVE  Take64([ok |-> TRUE, next |-> next, val |-> val], ZIP64_BYTES_THR, payload)
             = [ok |-> TRUE, next |-> next + 1, val |-> payload[next]]
BY DEF Take64

\* A marker beyond the last value of the record stays, and the read fails.
LEMMA TakeMissing ==
    ASSUME NEW next \in Nat, NEW val, NEW payload \in Seq(Nat),
           next > Len(payload)
    PROVE  Take64([ok |-> TRUE, next |-> next, val |-> val], ZIP64_BYTES_THR, payload)
             = [ok |-> FALSE, next |-> next, val |-> ZIP64_BYTES_THR]
BY BytesThrAssumption DEF Take64

\* After a failed read every field stays as it is.
LEMMA TakeFailed ==
    ASSUME NEW next \in Nat, NEW val, NEW v \in Nat, NEW payload
    PROVE  Take64([ok |-> FALSE, next |-> next, val |-> val], v, payload)
             = [ok |-> FALSE, next |-> next, val |-> v]
BY DEF Take64

-----------------------------------------------------------------------------
\* A field that is not the bare threshold reads back as itself when the next
\* value of the record is its own.
LEMMA TakeOwn ==
    ASSUME NEW v \in Nat, NEW next \in Nat, NEW val, NEW payload \in Seq(Nat),
           v # ZIP64_BYTES_THR,
           v > ZIP64_BYTES_THR => next <= Len(payload) /\ payload[next] = v
    PROVE  Take64([ok |-> TRUE, next |-> next, val |-> val], Clip32(v), payload)
             = [ok |-> TRUE, next |-> next + NumAbove(v), val |-> v]
<1>1. CASE v > ZIP64_BYTES_THR
  BY <1>1, TakeValue, BytesThrAssumption DEF Clip32, NumAbove
<1>2. CASE v < ZIP64_BYTES_THR
  <2>1. Clip32(v) = v /\ NumAbove(v) = 0 /\ next + 0 = next
    BY <1>2, BytesThrAssumption DEF Clip32, NumAbove
  <2>2. Take64([ok |-> TRUE, next |-> next, val |-> val], v, payload)
          = [ok |-> TRUE, next |-> next, val |-> v]
    BY TakePlain
  <2> QED
    BY <2>1, <2>2
<1> QED
  BY <1>1, <1>2, BytesThrAssumption

\* A value at or below the threshold is in its 32-bit field as it is.
LEMMA ClipSmall ==
    ASSUME NEW v \in Nat, v <= ZIP64_BYTES_THR
    PROVE  Clip32(v) = v /\ NumAbove(v) = 0
BY BytesThrAssumption DEF Clip32, NumAbove

-----------------------------------------------------------------------------
LEMMA NoCells ==
    ASSUME NEW s, IsSeq(s)
    PROVE  s = << >> <=> Len(s) = 0
BY EmptyIsSeq, LenIsNat

\* What the 0x0001 arm reads: the values of the record, then what is behind.
Numbers(P, behind, V, u, c, h) ==
    /\ V \in Seq(Nat) /\ Len(V) = Len(P) + Len(behind)
    /\ Len(P) \in Nat /\ Len(behind) \in Nat
    /\ Len(P) = NumAbove(u) + NumAbove(c) + NumAbove(h)
    /\ u > ZIP64_BYTES_THR => V[1] = u
    /\ c > ZIP64_BYTES_THR => V[1 + NumAbove(u)] = c
    /\ h > ZIP64_BYTES_THR => V[1 + NumAbove(u) + NumAbove(c)] = h
    /\ behind # << >> => V[Len(P) + 1] = behind[1] /\ Len(behind) >= 1
    /\ behind = << >> => Len(behind) = 0
    /\ P = << >> => Len(P) = 0

LEMMA NumbersRead ==
    ASSUME NEW u \in Nat, NEW c \in Nat, NEW h \in Nat, NEW behind \in Seq(Nat)
    PROVE  Numbers(Zip64Payload(u, c, h), behind, Zip64Payload(u, c, h) \o behind, u, c, h)
<1> DEFINE P == Zip64Payload(u, c, h)
           V == P \o behind
<1>1. /\ P \in Seq(Nat) /\ Len(P) \in Nat
      /\ Len(P) = NumAbove(u) + NumAbove(c) + NumAbove(h)
      /\ u > ZIP64_BYTES_THR => P[1] = u
      /\ c > ZIP64_BYTES_THR => P[1 + NumAbove(u)] = c
      /\ h > ZIP64_BYTES_THR => P[1 + NumAbove(u) + NumAbove(c)] = h
  <2>1. Packs(P, u, c, h)
    BY PayloadValues
  <2> HIDE DEF P
  <2> QED
    BY <2>1 DEF Packs
<1>2. /\ NumAbove(u) = IF u > ZIP64_BYTES_THR THEN 1 ELSE 0
      /\ NumAbove(c) = IF c > ZIP64_BYTES_THR THEN 1 ELSE 0
      /\ NumAbove(h) = IF h > ZIP64_BYTES_THR THEN 1 ELSE 0
  BY DEF NumAbove
<1>3. P = << >> => Len(P) = 0
  OBVIOUS
<1> HIDE DEF P
<1>4. /\ V \in Seq(Nat) /\ Len(V) = Len(P) + Len(behind) /\ Len(behind) \in Nat
      /\ \A i \in 1..Len(P) : V[i] = P[i]
      /\ behind # << >> => V[Len(P) + 1] = behind[1] /\ Len(behind) >= 1
      /\ behind = << >> => Len(behind) = 0
  <2>1. /\ P \in Seq(Nat) /\ behind \in Seq(Nat)
        /\ Len(P) \in Nat /\ Len(behind) \in Nat
    BY <1>1
  <2>2. /\ V \in Seq(Nat) /\ Len(V) = Len(P) + Len(behind)
        /\ \A i \in 1..Len(P) : V[i] = P[i]
        /\ \A i \in 1..Len(behind) : V[Len(P) + i] = behind[i]
    BY <2>1
  <2>3. behind # << >> => Len(behind) >= 1
    BY <2>1
  <2>4. behind = << >> => Len(behind) = 0
    OBVIOUS
  <2> HIDE DEF V
  <2> QED
    BY <2>1, <2>2, <2>3, <2>4
<1> HIDE DEF V
<1>5. ASSUME u > ZIP64_BYTES_THR PROVE V[1] = u
  <2>1. 1 \in 1..Len(P)
    BY <1>1, <1>2, <1>5
  <2> QED
    BY <2>1, <1>1, <1>4, <1>5
<1>6. ASSUME c > ZIP64_BYTES_THR PROVE V[1 + NumAbove(u)] = c
  <2>1. 1 + NumAbove(u) \in 1..Len(P)
    BY <1>1, <1>2, <1>6
  <2> QED
    BY <2>1, <1>1, <1>4, <1>6
<1>7. ASSUME h > ZIP64_BYTES_THR PROVE V[1 + NumAbove(u) + NumAbove(c)] = h
  <2>1. 1 + NumAbove(u) + NumAbove(c) \in 1..Len(P)
    BY <1>1, <1>2, <1>7
  <2> QED
    BY <2>1, <1>1, <1>4, <1>7
<1> QED
  <2>1. Numbers(P, behind, V, u, c, h)
    BY <1>1, <1>3, <1>4, <1>5, <1>6, <1>7 DEF Numbers
  <2> QED
    BY <2>1 DEF P, V

\* The sizes and the offset in a central header and its ZIP64 record read
\* back exactly, whatever custom extra data follow the record and however
\* those read as numbers, for all values that are not Ambiguous, and the
\* cursor stops at the end of the record: write_central_zip64_extra_field and
\* parse_extra_field agree on them.
THEOREM ReadBackExact ==
    ASSUME NEW u \in Nat, NEW c \in Nat, NEW h \in Nat, NEW behind \in Seq(Nat),
           ~Ambiguous(u, c, h, behind)
    PROVE  ReadBackFields(u, c, h, behind) = Fields(u, c, h)
<1> DEFINE P   == Zip64Payload(u, c, h)
           V   == P \o behind
           st1 == Take64([ok |-> TRUE, next |-> 1, val |-> 0], Clip32(u), V)
           st2 == Take64(st1, Clip32(c), V)
           st3 == Take64(st2, Clip32(h), V)
<1>0. SUFFICES ASSUME P # << >> PROVE ReadBackFields(u, c, h, behind) = Fields(u, c, h)
  BY EmptyPayload DEF ReadBackFields, Fields
<1>1. /\ V \in Seq(Nat) /\ Len(V) = Len(P) + Len(behind)
      /\ Len(P) \in Nat /\ Len(behind) \in Nat
      /\ Len(P) = NumAbove(u) + NumAbove(c) + NumAbove(h)
      /\ u > ZIP64_BYTES_THR => V[1] = u
      /\ c > ZIP64_BYTES_THR => V[1 + NumAbove(u)] = c
      /\ h > ZIP64_BYTES_THR => V[1 + NumAbove(u) + NumAbove(c)] = h
      /\ behind = << >> => Len(behind) = 0
  <2>1. Numbers(P, behind, V, u, c, h)
    BY NumbersRead
  <2> HIDE DEF P, V
  <2> QED
    BY <2>1 DEF Numbers
<1>a. ZIP64_BYTES_THR \in {u, c, h} => Len(behind) = 0
  BY <1>0, <1>1 DEF Ambiguous
<1>2. /\ NumAbove(u) = IF u > ZIP64_BYTES_THR THEN 1 ELSE 0
      /\ NumAbove(c) = IF c > ZIP64_BYTES_THR THEN 1 ELSE 0
      /\ NumAbove(h) = IF h > ZIP64_BYTES_THR THEN 1 ELSE 0
      /\ Clip32(u) \in Nat /\ Clip32(c) \in Nat /\ Clip32(h) \in Nat
      /\ ZIP64_BYTES_THR \in Nat
  BY BytesThrAssumption DEF NumAbove, Clip32
<1>3. ReadBackFields(u, c, h, behind)
        = [uncompressed_size |-> st1.val, compressed_size |-> st2.val,
           header_start |-> st3.val,
           beyond |-> IF st3.next > Len(P) + 1 THEN st3.next - (Len(P) + 1) ELSE 0]
  BY <1>0 DEF ReadBackFields, ParseZip64
<1>st. /\ st1 = Take64([ok |-> TRUE, next |-> 1, val |-> 0], Clip32(u), V)
       /\ st2 = Take64(st1, Clip32(c), V)
       /\ st3 = Take64(st2, Clip32(h), V)
  OBVIOUS
<1> HIDE DEF P, V, st1, st2, st3
<1>end. ASSUME st1.val = u, st2.val = c, st3.val = h,
               st3.next \in Nat, st3.next <= Len(P) + 1
        PROVE  ReadBackFields(u, c, h, behind) = Fields(u, c, h)
  <2>1. ~(st3.next > Len(P) + 1)
    BY <1>1, <1>end
  <2> QED
    BY <2>1, <1>3, <1>end DEF Fields
<1>4. ASSUME u # ZIP64_BYTES_THR
      PROVE  st1 = [ok |-> TRUE, next |-> 1 + NumAbove(u), val |-> u]
  <2>1. u > ZIP64_BYTES_THR => 1 <= Len(V) /\ V[1] = u
    BY <1>1, <1>2
  <2> QED
    BY <2>1, <1>1, <1>4, <1>st, TakeOwn
<1>5. ASSUME u # ZIP64_BYTES_THR, c # ZIP64_BYTES_THR
      PROVE  st2 = [ok |-> TRUE, next |-> 1 + NumAbove(u) + NumAbove(c), val |-> c]
  <2>1. /\ 1 + NumAbove(u) \in Nat
        /\ c > ZIP64_BYTES_THR => /\ 1 + NumAbove(u) <= Len(V)
                                  /\ V[1 + NumAbove(u)] = c
    BY <1>1, <1>2
  <2> QED
    BY <2>1, <1>1, <1>4, <1>5, <1>st, TakeOwn
<1>6. CASE u # ZIP64_BYTES_THR /\ c # ZIP64_BYTES_THR /\ h # ZIP64_BYTES_THR
  <2> DEFINE n == 1 + NumAbove(u) + NumAbove(c)
  <2>1. /\ n \in Nat /\ n + NumAbove(h) = Len(P) + 1
        /\ h > ZIP64_BYTES_THR => n <= Len(V) /\ V[n] = h
    BY <1>1, <1>2
  <2>2. st2 = [ok |-> TRUE, next |-> n, val |-> c]
    BY <1>5, <1>6
  <2> HIDE DEF n
  <2>3. Take64([ok |-> TRUE, next |-> n, val |-> c], Clip32(h), V)
          = [ok |-> TRUE, next |-> n + NumAbove(h), val |-> h]
    <3>1. V \in Seq(Nat)
      BY <1>1
    <3> QED
      BY <2>1, <3>1, <1>6, TakeOwn
  <2>4. st3 = [ok |-> TRUE, next |-> n + NumAbove(h), val |-> h]
    BY <2>2, <2>3, <1>st
  <2>5. st3.next = Len(P) + 1 /\ st3.val = h /\ st2.val = c
    BY <2>1, <2>2, <2>4
  <2> QED
    BY <2>5, <1>1, <1>4, <1>6, <1>end
<1>7. CASE u # ZIP64_BYTES_THR /\ c # ZIP64_BYTES_THR /\ h = ZIP64_BYTES_THR
  <2> DEFINE n == 1 + NumAbove(u) + NumAbove(c)
  <2>1. n \in Nat /\ n > Len(V) /\ n = Len(P) + 1 /\ Clip32(h) = ZIP64_BYTES_THR
    BY <1>1, <1>2, <1>a, <1>7, ClipSmall, BytesThrAssumption
  <2>2. st2 = [ok |-> TRUE, next |-> n, val |-> c]
    BY <1>5, <1>7
  <2> HIDE DEF n
  <2>3. Take64([ok |-> TRUE, next |-> n, val |-> c], ZIP64_BYTES_THR, V)
          = [ok |-> FALSE, next |-> n, val |-> ZIP64_BYTES_THR]
    BY <2>1, <1>1, TakeMissing
  <2>4. st3 = [ok |-> FALSE, next |-> n, val |-> h]
    BY <2>1, <2>2, <2>3, <1>7, <1>st
  <2>5. st3.next = Len(P) + 1 /\ st3.val = h /\ st2.val = c
    BY <2>1, <2>2, <2>4
  <2> QED
    BY <2>5, <1>1, <1>4, <1>7, <1>end
<1>8. CASE u # ZIP64_BYTES_THR /\ c = ZIP64_BYTES_THR
  <2> DEFINE n == 1 + NumAbove(u)
  <2>1. h <= ZIP64_BYTES_THR
    BY <1>8, BytesThrAssumption DEF Ambiguous
  <2>2. /\ n \in Nat /\ n > Len(V) /\ n = Len(P) + 1
        /\ Clip32(c) = ZIP64_BYTES_THR /\ Clip32(h) = h
    BY <2>1, <1>1, <1>2, <1>a, <1>8, ClipSmall, BytesThrAssumption
  <2>3. st1 = [ok |-> TRUE, next |-> n, val |-> u]
    BY <1>4, <1>8
  <2> HIDE DEF n
  <2>4. Take64([ok |-> TRUE, next |-> n, val |-> u], ZIP64_BYTES_THR, V)
          = [ok |-> FALSE, next |-> n, val |-> ZIP64_BYTES_THR]
    BY <2>2, <1>1, TakeMissing
  <2>5. st2 = [ok |-> FALSE, next |-> n, val |-> c]
    BY <2>2, <2>3, <2>4, <1>8, <1>st
  <2>6. Take64([ok |-> FALSE, next |-> n, val |-> c], h, V)
          = [ok |-> FALSE, next |-> n, val |-> h]
    BY <2>2, TakeFailed
  <2>7. st3 = [ok |-> FALSE, next |-> n, val |-> h]
    BY <2>2, <2>5, <2>6, <1>st
  <2>8. st3.next = Len(P) + 1 /\ st3.val = h /\ st2.val = c /\ st1.val = u
    BY <2>2, <2>3, <2>5, <2>7
  <2> QED
    BY <2>8, <1>1, <1>end
<1>9. CASE u = ZIP64_BYTES_THR
  <2>1. c <= ZIP64_BYTES_THR /\ h <= ZIP64_BYTES_THR
    BY <1>9, BytesThrAssumption DEF Ambiguous
  <2>2. /\ 1 > Len(V) /\ Len(P) = 0
        /\ Clip32(u) = ZIP64_BYTES_THR /\ Clip32(c) = c /\ Clip32(h) = h
    BY <2>1, <1>1, <1>2, <1>a, <1>9, ClipSmall, BytesThrAssumption
  <2>3. st1 = [ok |-> FALSE, next |-> 1, val |-> u]
    BY <2>2, <1>1, <1>9, <1>st DEF Take64
  <2>4. st2 = [ok |-> FALSE, next |-> 1, val |-> c]
    BY <2>2, <2>3, <1>st DEF Take64
  <2>5. st3 = [ok |-> FALSE, next |-> 1, val |-> h]
    BY <2>2, <2>4, <1>st DEF Take64
  <2>6. st3.next = Len(P) + 1 /\ st3.val = h /\ st2.val = c /\ st1.val = u
    BY <2>2, <2>3, <2>4, <2>5
  <2> QED
    BY <2>6, <1>1, <1>end
<1> QED
  BY <1>6, <1>7, <1>8, <1>9

\* And for the Ambiguous ones they never do, as long as what follows the record
\* does not happen to read as the threshold itself: the writer's `>' and the
\* reader's `==' differ on a value that is exactly the threshold, and the
\* reader takes for it the next value of the record or, behind the last one,
\* the extra data that follow.
THEOREM AmbiguousReadsBackWrong ==
    ASSUME NEW u \in Nat, NEW c \in Nat, NEW h \in Nat, NEW behind \in Seq(Nat),
           Ambiguous(u, c, h, behind),
           behind # << >> => behind[1] # ZIP64_BYTES_THR
    PROVE  ReadBackFields(u, c, h, behind) # Fields(u, c, h)
<1> DEFINE P   == Zip64Payload(u, c, h)
           V   == P \o behind
           st1 == Take64([ok |-> TRUE, next |-> 1, val |-> 0], Clip32(u), V)
           st2 == Take64(st1, Clip32(c), V)
           st3 == Take64(st2, Clip32(h), V)
<1>1. /\ V \in Seq(Nat) /\ Len(V) = Len(P) + Len(behind)
      /\ Len(P) \in Nat /\ Len(behind) \in Nat
      /\ Len(P) = NumAbove(u) + NumAbove(c) + NumAbove(h)
      /\ u > ZIP64_BYTES_THR => V[1] = u
      /\ c > ZIP64_BYTES_THR => V[1 + NumAbove(u)] = c
      /\ h > ZIP64_BYTES_THR => V[1 + NumAbove(u) + NumAbove(c)] = h
      /\ behind # << >> => V[Len(P) + 1] = behind[1] /\ Len(behind) >= 1
      /\ P = << >> => Len(P) = 0
  <2>1. Numbers(P, behind, V, u, c, h)
    BY NumbersRead
  <2> HIDE DEF P, V
  <2> QED
    BY <2>1 DEF Numbers
<1>2. /\ NumAbove(u) = IF u > ZIP64_BYTES_THR THEN 1 ELSE 0
      /\ NumAbove(c) = IF c > ZIP64_BYTES_THR THEN 1 ELSE 0
      /\ NumAbove(h) = IF h > ZIP64_BYTES_THR THEN 1 ELSE 0
      /\ Clip32(u) \in Nat /\ Clip32(c) \in Nat /\ Clip32(h) \in Nat
      /\ ZIP64_BYTES_THR \in Nat
  BY BytesThrAssumption DEF NumAbove, Clip32
<1>b. P = << >> => NumAbove(u) = 0 /\ NumAbove(c) = 0 /\ NumAbove(h) = 0
  BY <1>1, <1>2
<1>0. P # << >>
  BY <1>b, <1>2 DEF Ambiguous
<1>3. /\ ReadBackFields(u, c, h, behind).uncompressed_size = st1.val
      /\ ReadBackFields(u, c, h, behind).compressed_size = st2.val
      /\ ReadBackFields(u, c, h, behind).header_start = st3.val
  BY <1>0 DEF ReadBackFields, ParseZip64
<1>st. /\ st1 = Take64([ok |-> TRUE, next |-> 1, val |-> 0], Clip32(u), V)
       /\ st2 = Take64(st1, Clip32(c), V)
       /\ st3 = Take64(st2, Clip32(h), V)
  OBVIOUS
<1>c. \/ u = ZIP64_BYTES_THR /\ (c > ZIP64_BYTES_THR \/ h > ZIP64_BYTES_THR)
      \/ c = ZIP64_BYTES_THR /\ h > ZIP64_BYTES_THR
      \/ ZIP64_BYTES_THR \in {u, c, h} /\ behind # << >>
  BY DEF Ambiguous
<1> HIDE DEF P, V, st1, st2, st3
<1>p. Len(P) >= 1
  <2>1. P \in Seq(Nat)
    BY PayloadValues DEF P, Packs
  <2> QED
    BY <2>1, <1>0
<1>4. CASE u = ZIP64_BYTES_THR
  <2>1. c > ZIP64_BYTES_THR \/ h > ZIP64_BYTES_THR
    BY <1>4, <1>p, <1>1, <1>2
  <2>2. NumAbove(u) = 0 /\ Clip32(u) = ZIP64_BYTES_THR
    BY <1>4, ClipSmall, BytesThrAssumption
  <2>3. 1 <= Len(V)
    BY <1>1, <1>p
  <2>4. st1.val = V[1]
    BY <2>2, <2>3, <1>1, <1>st DEF Take64
  <2>5. V[1] # u
    <3>1. CASE c > ZIP64_BYTES_THR
      <4>1. 1 + NumAbove(u) = 1
        BY <2>2
      <4>2. V[1] = c
        BY <4>1, <3>1, <1>1
      <4> QED
        BY <4>2, <3>1, <1>2, <1>4
    <3>2. CASE ~(c > ZIP64_BYTES_THR)
      <4>1. 1 + NumAbove(u) + NumAbove(c) = 1
        BY <3>2, <2>2, <1>2
      <4>2. V[1] = h
        BY <4>1, <3>2, <2>1, <1>1
      <4> QED
        BY <4>2, <3>2, <2>1, <1>2, <1>4
    <3> QED
      BY <3>1, <3>2
  <2> QED
    BY <2>4, <2>5, <1>3 DEF Fields
<1>5. CASE u # ZIP64_BYTES_THR
  <2>1. st1 = [ok |-> TRUE, next |-> 1 + NumAbove(u), val |-> u]
    <3>1. u > ZIP64_BYTES_THR => 1 <= Len(V) /\ V[1] = u
      BY <1>1, <1>2
    <3>2. V \in Seq(Nat)
      BY <1>1
    <3>3. Take64([ok |-> TRUE, next |-> 1, val |-> 0], Clip32(u), V)
            = [ok |-> TRUE, next |-> 1 + NumAbove(u), val |-> u]
      BY <3>1, <3>2, <1>5, TakeOwn
    <3> QED
      BY <3>3, <1>st
  <2>2. CASE c = ZIP64_BYTES_THR
    <3> DEFINE n == 1 + NumAbove(u)
    <3>1. NumAbove(c) = 0 /\ Clip32(c) = ZIP64_BYTES_THR /\ n \in Nat
      BY <2>2, <1>2, ClipSmall, BytesThrAssumption
    <3>2. n <= Len(V) /\ V[n] # c
      <4>0. 1 + NumAbove(u) + NumAbove(c) = n
        BY <3>1, <1>2
      <4>1. CASE h > ZIP64_BYTES_THR
        <5>1. V[n] = h
          BY <4>0, <4>1, <1>1
        <5>2. n <= Len(V)
          BY <4>0, <4>1, <1>1, <1>2
        <5> QED
          BY <5>1, <5>2, <4>1, <2>2, <1>2
      <4>2. CASE ~(h > ZIP64_BYTES_THR)
        <5>1. behind # << >>
          BY <4>2, <2>2, <1>c, <1>2, <1>5
        <5>2. n = Len(P) + 1
          BY <4>0, <4>2, <1>1, <1>2
        <5>3. V[n] = behind[1] /\ Len(behind) >= 1
          BY <5>1, <5>2, <1>1
        <5>4. n <= Len(V)
          BY <5>2, <5>3, <1>1
        <5> QED
          BY <5>1, <5>3, <5>4, <2>2
      <4> QED
        BY <4>1, <4>2
    <3> HIDE DEF n
    <3>3. Take64([ok |-> TRUE, next |-> n, val |-> u], ZIP64_BYTES_THR, V)
            = [ok |-> TRUE, next |-> n + 1, val |-> V[n]]
      BY <3>1, <3>2, <1>1, TakeValue
    <3>4. st2 = [ok |-> TRUE, next |-> n + 1, val |-> V[n]]
      BY <2>1, <3>1, <3>3, <1>st DEF n
    <3>5. st2.val = V[n]
      BY <3>4
    <3> QED
      BY <3>2, <3>5, <1>3 DEF Fields
  <2>3. CASE c # ZIP64_BYTES_THR
    <3> DEFINE m == 1 + NumAbove(u)
               n == m + NumAbove(c)
    <3>1. /\ h = ZIP64_BYTES_THR /\ behind # << >>
          /\ NumAbove(h) = 0 /\ Clip32(h) = ZIP64_BYTES_THR
      BY <2>3, <1>5, <1>c, <1>2, ClipSmall, BytesThrAssumption
    <3>2. /\ m \in Nat /\ n \in Nat /\ n = Len(P) + 1 /\ n <= Len(V)
          /\ c > ZIP64_BYTES_THR => m <= Len(V) /\ V[m] = c
      <4>1. m \in Nat /\ n \in Nat
        BY <1>2
      <4>2. n = Len(P) + 1
        BY <3>1, <1>1, <1>2
      <4>3. Len(behind) >= 1 /\ Len(V) = Len(P) + Len(behind)
        BY <3>1, <1>1
      <4>4. n <= Len(V)
        BY <4>2, <4>3, <1>1
      <4>5. ASSUME c > ZIP64_BYTES_THR PROVE m <= Len(V) /\ V[m] = c
        <5>1. V[m] = c
          BY <4>5, <1>1
        <5>2. m <= n
          BY <1>2
        <5>3. Len(V) \in Nat
          BY <1>1
        <5> HIDE DEF m, n
        <5> QED
          BY <5>1, <5>2, <5>3, <4>1, <4>4
      <4> QED
        BY <4>1, <4>2, <4>4, <4>5
    <3>3. V[n] # h
      <4> HIDE DEF m, n
      <4>1. V[n] = behind[1]
        BY <3>1, <3>2, <1>1
      <4> QED
        BY <3>1, <4>1
    <3>4. st1 = [ok |-> TRUE, next |-> m, val |-> u]
      BY <2>1
    <3>5. n = m + NumAbove(c)
      OBVIOUS
    <3> HIDE DEF m, n
    <3>6. Take64([ok |-> TRUE, next |-> m, val |-> u], Clip32(c), V)
            = [ok |-> TRUE, next |-> m + NumAbove(c), val |-> c]
      <4>1. V \in Seq(Nat) /\ m \in Nat
        BY <3>2, <1>1
      <4>2. c > ZIP64_BYTES_THR => m <= Len(V) /\ V[m] = c
        BY <3>2
      <4> QED
        BY <4>1, <4>2, <2>3, TakeOwn
    <3>7. st2 = [ok |-> TRUE, next |-> n, val |-> c]
      BY <3>4, <3>5, <3>6, <1>st
    <3>8. Take64([ok |-> TRUE, next |-> n, val |-> c], ZIP64_BYTES_THR, V)
            = [ok |-> TRUE, next |-> n + 1, val |-> V[n]]
      BY <3>2, <1>1, TakeValue
    <3>9. st3 = [ok |-> TRUE, next |-> n + 1, val |-> V[n]]
      BY <3>1, <3>7, <3>8, <1>st
    <3>10. st3.val = V[n]
      BY <3>9
    <3> QED
      BY <3>3, <3>10, <1>3 DEF Fields
  <2> QED
    BY <2>2, <2>3
<1> QED
  BY <1>4, <1>5

-----------------------------------------------------------------------------
(***************************************************************************)
(* What finalize writes and what a reader makes of it.                     *)
(***************************************************************************)
\* The cells are on disk d from offset p on.
CellsAt(d, p, cells) == \A j \in 1..Len(cells) : At(d, p + j - 1) = cells[j]

\* The end records as a vector, of which the ZIP64 pair comes first.
HasZip64End(n, start, size) ==
    n > ZIP64_ENTRY_THR \/ Max({size, start}) > ZIP64_BYTES_THR

EndRecord(n, start, size, c) ==
    <<"end", Min({n, ZIP64_ENTRY_THR}), Clip32(size), Clip32(start),
      Len(c) % (ZIP64_ENTRY_THR + 1)>>

LEMMA EndRecordsCells ==
    ASSUME NEW n, NEW start, NEW size, NEW c, IsSeq(c)
    PROVE  LET er == EndRecords(n, start, size, c)
               z  == IF HasZip64End(n, start, size) THEN 2 ELSE 0
           IN  /\ IsSeq(er) /\ Len(er) = z + 1 + Len(c) /\ Len(c) \in Nat
               /\ z = 2 => /\ er[1] = <<"end64", n, size, start>>
                           /\ er[2] = <<"loc64", start + size>>
               /\ er[z + 1] = EndRecord(n, start, size, c)
               /\ \A j \in 1..Len(c) : er[z + 1 + j] = c[j]
<1> DEFINE er   == EndRecords(n, start, size, c)
           z    == IF HasZip64End(n, start, size) THEN 2 ELSE 0
           pair == << <<"end64", n, size, start>>, <<"loc64", start + size>> >>
           a    == IF HasZip64End(n, start, size) THEN pair ELSE << >>
           e    == EndRecord(n, start, size, c)
<1>1. er = a \o <<e>> \o c
  BY DEF EndRecords, HasZip64End, EndRecord
<1>2. IsSeq(a) /\ Len(a) = z
  <2>1. IsSeq(pair) /\ Len(pair) = 2
    BY PairIsSeq
  <2> QED
    BY <2>1, EmptyIsSeq
<1>3. z = 2 => a[1] = <<"end64", n, size, start>> /\ a[2] = <<"loc64", start + size>>
  OBVIOUS
<1>4. IsSeq(<<e>>) /\ Len(<<e>>) = 1 /\ <<e>>[1] = e
  BY SingleIsSeq
<1> HIDE DEF a, e
<1>5. Len(c) \in Nat /\ z \in {0, 2}
  BY LenIsNat
<1> DEFINE one == <<e>>
           b   == a \o one
<1> HIDE DEF z, one
<1>6. /\ IsSeq(b) /\ Len(b) = z + 1
      /\ \A j \in 1..z + 1 : b[j] = IF j <= z THEN a[j] ELSE one[j - z]
  <2>1. IsSeq(one) /\ Len(one) = 1
    BY <1>4 DEF one
  <2>2. IsSeq(b) /\ Len(b) = z + 1
    BY <1>2, <2>1, ConcatIsSeq
  <2>3. \A j \in 1..Len(a) + Len(one) : b[j] = IF j <= Len(a) THEN a[j] ELSE one[j - Len(a)]
    BY <1>2, <2>1, ConcatCells
  <2> QED
    BY <1>2, <2>1, <2>2, <2>3
<1> HIDE DEF b
<1>7. /\ IsSeq(b \o c) /\ Len(b \o c) = z + 1 + Len(c)
      /\ \A j \in 1..z + 1 + Len(c) :
           (b \o c)[j] = IF j <= z + 1 THEN b[j] ELSE c[j - (z + 1)]
  <2>1. IsSeq(b \o c) /\ Len(b \o c) = z + 1 + Len(c)
    BY <1>6, ConcatIsSeq
  <2>2. \A j \in 1..Len(b) + Len(c) :
            (b \o c)[j] = IF j <= Len(b) THEN b[j] ELSE c[j - Len(b)]
    BY <1>6, ConcatCells
  <2> QED
    BY <1>6, <2>1, <2>2
<1>8. er = b \o c
  BY <1>1 DEF b, one
<1> HIDE DEF er
<1>9. \A j \in 1..Len(c) : er[z + 1 + j] = c[j]
  BY <1>5, <1>7, <1>8
<1>10. b[z + 1] = e /\ \A j \in 1..z : b[j] = a[j]
  BY <1>4, <1>5, <1>6 DEF one
<1>11. er[z + 1] = e /\ \A j \in 1..z : er[j] = a[j]
  BY <1>5, <1>7, <1>8, <1>10
<1>12. z = 2 => er[1] = a[1] /\ er[2] = a[2]
  BY <1>11
<1>13. IsSeq(er) /\ Len(er) = z + 1 + Len(c)
  BY <1>7, <1>8
<1> QED
  BY <1>3, <1>5, <1>9, <1>11, <1>12, <1>13 DEF er, z, e

\* The highest and the lowest of a set that has one.
LEMMA HighestIs ==
    ASSUME NEW S, S \subseteq Int, NEW m \in S, \A x \in S : x <= m
    PROVE  Max(S) = m
<1>1. \A x \in S : (\A y \in S : x >= y) => x = m
  OBVIOUS
<1> QED
  BY <1>1 DEF Max

LEMMA LowestIs == ASSUME NEW m \in Int PROVE Min({m}) = m
BY DEF Min

\* A length that fits its field is written as it is.
LEMMA SmallRemainder ==
    ASSUME NEW x \in Nat, NEW t \in Nat, x <= t
    PROVE  x % (t + 1) = x
<1> DEFINE a == t + 1
           d == x \div a
           m == x % a
<1>1. a \in Nat /\ a > 0 /\ x < a
  OBVIOUS
<1>2. d \in Int /\ m \in 0..a - 1 /\ x = a * d + m
  BY <1>1
<1> HIDE DEF d, m, a
<1>3. ASSUME d > 0 PROVE FALSE
  <2>1. a * d >= a
    BY <1>1, <1>2, <1>3
  <2> QED
    BY <1>1, <1>2, <2>1
<1>4. ASSUME d < 0 PROVE FALSE
  <2>1. a * d <= -a
    BY <1>1, <1>2, <1>4
  <2> QED
    BY <1>1, <1>2, <2>1
<1>5. d = 0
  BY <1>2, <1>3, <1>4
<1>6. m = x
  BY <1>1, <1>2, <1>5
<1> QED
  BY <1>6 DEF m, a

\* The end records stand at the end of the file, the comment is not longer than
\* its length field can say, no cell of it passes for an end record, and none in front of the end record for a locator that
\* was not written.
EndsWith(d, n, start, size, c) ==
    LET er == EndRecords(n, start, size, c) IN
    /\ CellsAt(d, start + size, er) /\ Len(d) = start + size + Len(er)
    /\ Len(c) <= ZIP64_ENTRY_THR
    /\ \A j \in 1..Len(c) : c[j][1] # "end"
    /\ HasZip64End(n, start, size) \/ At(d, start + size - 1)[1] # "loc64"

\* get_directory_counts finds what finalize wrote there.
LEMMA EndRecordsAreFound ==
    ASSUME NEW d, IsSeq(d), NEW n \in Nat, NEW start \in Nat, NEW size \in Nat,
           NEW c, IsSeq(c), EndsWith(d, n, start, size, c)
    PROVE  GetDirectoryCounts(d) =
             [ok |-> TRUE, archive_offset |-> 0, start |-> start, nfiles |-> n,
              comment |-> c]
<1> DEFINE er  == EndRecords(n, start, size, c)
           z   == IF HasZip64End(n, start, size) THEN 2 ELSE 0
           q   == start + size
           cde == q + z
           footer == EndRecord(n, start, size, c)
           locator == At(d, Len(d) - 2 - Len(c))
<1>1. /\ Len(er) = z + 1 + Len(c) /\ Len(c) \in Nat
      /\ q \in Nat /\ z \in Nat /\ z \in {0, 2} /\ cde = q + z /\ cde \in Nat
      /\ Len(d) = q + Len(er)
  BY EndRecordsCells DEF EndsWith
<1>2. \A j \in 1..Len(er) : At(d, q + j - 1) = er[j]
  BY DEF EndsWith, CellsAt
<1>3. er[z + 1] = footer
  BY EndRecordsCells
<1>4. \A j \in 1..Len(c) : er[z + 1 + j] = c[j]
  BY EndRecordsCells
<1>5. z = 2 => /\ er[1] = <<"end64", n, size, start>> /\ er[2] = <<"loc64", q>>
  BY EndRecordsCells
<1>6. /\ HasZip64End(n, start, size) => z = 2
      /\ ~HasZip64End(n, start, size) => z = 0
  OBVIOUS
<1> HIDE DEF er, z, q, cde, footer, locator
<1>7. Len(d) = cde + 1 + Len(c) /\ Len(d) \in Nat
  BY <1>1
<1>8. At(d, cde) = footer /\ d[cde + 1] = footer
  <2>1. z + 1 \in 1..Len(er) /\ q + (z + 1) - 1 = cde /\ cde < Len(d)
    BY <1>1
  <2>2. At(d, cde) = footer
    BY <1>2, <1>3, <2>1
  <2> QED
    BY <1>1, <2>1, <2>2 DEF At
<1>9. \A i \in 1..Len(c) : d[(cde + 1) + i] = c[i]
  <2> SUFFICES ASSUME NEW i \in 1..Len(c) PROVE d[(cde + 1) + i] = c[i]
    OBVIOUS
  <2>1. /\ z + 1 + i \in 1..Len(er) /\ q + (z + 1 + i) - 1 = cde + i
        /\ cde + i >= 0 /\ cde + i < Len(d) /\ cde + i + 1 = (cde + 1) + i
    BY <1>1
  <2>2. At(d, cde + i) = c[i]
    BY <1>2, <1>4, <2>1
  <2> QED
    BY <2>1, <2>2 DEF At
<1>10. Max(EndOffsets(d)) = cde /\ EndOffsets(d) # {}
  <2>1. footer[1] = "end"
    BY DEF footer, EndRecord
  <2> DEFINE back == Len(d) - 1 - ZIP64_ENTRY_THR
             low  == Max({0, back})
  <2>6. low \in Nat /\ low <= cde
    <3>1. back \in Int /\ back <= cde
      BY <1>1, <1>7, EntryThrAssumption DEF EndsWith
    <3> HIDE DEF back
    <3>2. CASE back <= 0
      <4>1. low = 0
        BY <3>1, <3>2, HighestIs
      <4> QED
        BY <1>1, <4>1
    <3>3. CASE ~(back <= 0)
      <4>1. low = back
        BY <3>1, <3>3, HighestIs
      <4> QED
        BY <3>1, <3>3, <4>1
    <3> QED
      BY <3>2, <3>3
  <2>7. EndOffsets(d) = {p \in low..Len(d) - 1 : d[p + 1][1] = "end"}
    BY DEF EndOffsets
  <2> HIDE DEF low
  <2>2. cde \in EndOffsets(d)
    <3>1. cde \in low..Len(d) - 1 /\ d[cde + 1][1] = "end"
      BY <1>1, <1>7, <1>8, <2>1, <2>6
    <3> QED
      BY <2>7, <3>1
  <2>3. ASSUME NEW p \in EndOffsets(d) PROVE p <= cde
    <3>1. p \in 0..Len(d) - 1 /\ d[p + 1][1] = "end"
      BY <1>7, <2>6, <2>7
    <3>2. CASE p > cde
      <4>1. p - cde \in 1..Len(c) /\ (cde + 1) + (p - cde) = p + 1
        BY <1>1, <1>7, <3>1, <3>2
      <4>2. d[p + 1] = c[p - cde]
        BY <1>9, <4>1
      <4> QED
        BY <3>1, <4>1, <4>2 DEF EndsWith
    <3> QED
      BY <1>1, <1>7, <3>1, <3>2
  <2>4. EndOffsets(d) \subseteq Int
    BY <1>7, <2>6, <2>7
  <2>5. Max(EndOffsets(d)) = cde
    BY <2>2, <2>3, <2>4, HighestIs
  <2> QED
    BY <2>2, <2>5
<1>11. footer[2] = Min({n, ZIP64_ENTRY_THR}) /\ footer[3] = Clip32(size)
       /\ footer[4] = Clip32(start) /\ footer[5] = Len(c)
  <2>1. Len(c) \in 0..ZIP64_ENTRY_THR
    BY <1>1 DEF EndsWith
  <2>2. Len(c) % (ZIP64_ENTRY_THR + 1) = Len(c)
    BY <2>1, EntryThrAssumption, SmallRemainder
  <2> QED
    BY <2>2 DEF footer, EndRecord
<1>12. Region(d, cde + 1, Len(c)) = c
  <2>1. Min({cde + 1 + Len(c), Len(d)}) = Len(d)
    <3>1. cde + 1 + Len(c) = Len(d) /\ Len(d) \in Int
      BY <1>7
    <3> QED
      BY <3>1, LowestIs
  <2> DEFINE r == SubSeq(d, (cde + 1) + 1, Len(d))
  <2>2. Region(d, cde + 1, Len(c)) = r
    BY <2>1 DEF Region
  <2>3. /\ IsSeq(r) /\ Len(r) = IF (cde + 1) + 1 <= Len(d) THEN Len(d) - (cde + 1) ELSE 0
        /\ \A i \in 1..Len(r) : r[i] = d[(cde + 1) + i]
    <3>1. cde + 1 \in Nat /\ Len(d) \in Nat /\ Len(d) <= Len(d)
      BY <1>1, <1>7
    <3> QED
      BY <3>1, SubSeqCells
  <2> HIDE DEF r
  <2>4. Len(r) = Len(c)
    BY <1>1, <1>7, <2>3
  <2>5. \A i \in 1..Len(r) : r[i] = c[i]
    BY <1>9, <2>3, <2>4
  <2>6. r = c
    BY <2>3, <2>4, <2>5, SameCells
  <2> QED
    BY <2>2, <2>6
<1> DEFINE Dir(offset, first, count) ==
             [ok |-> TRUE, archive_offset |-> offset, start |-> first,
              nfiles |-> count, comment |-> c]
           shift == cde - footer[3] - footer[4]
           found == End64Offsets(d, locator[2], cde - 2)
           end64 == Min(found)
<1>13. GetDirectoryCounts(d) =
         IF locator[1] # "loc64"
         THEN IF shift < 0 THEN NoDirectory
              ELSE Dir(shift, footer[4] + shift, footer[2])
         ELSE IF found = {} THEN NoDirectory
              ELSE Dir(end64 - locator[2],
                       At(d, end64)[4] + (end64 - locator[2]), At(d, end64)[2])
  <2>1. ~(Len(c) < Len(c))
    BY <1>1
  <2> QED
    BY <1>8, <1>10, <1>11, <1>12, <2>1 DEF GetDirectoryCounts, locator
<1>14. CASE HasZip64End(n, start, size)
  <2>1. z = 2 /\ Len(d) - 2 - Len(c) = q + 1 /\ cde - 2 = q
    BY <1>1, <1>6, <1>7, <1>14
  <2>2. 1 \in 1..Len(er) /\ 2 \in 1..Len(er) /\ q + 1 - 1 = q /\ q + 2 - 1 = q + 1
    BY <1>1, <2>1
  <2>3. At(d, q) = <<"end64", n, size, start>> /\ locator = <<"loc64", q>>
    BY <1>2, <1>5, <2>1, <2>2 DEF locator
  <2>4. At(d, q)[1] = "end64" /\ At(d, q)[2] = n /\ At(d, q)[4] = start
        /\ locator[1] = "loc64" /\ locator[2] = q
    BY <2>3
  <2>5. End64Offsets(d, q, cde - 2) = {q}
    BY <1>1, <2>1, <2>4 DEF End64Offsets
  <2>6. Min({q}) = q /\ q - q = 0 /\ start + 0 = start
    BY <1>1, LowestIs
  <2> QED
    BY <1>13, <2>4, <2>5, <2>6
<1>15. CASE ~HasZip64End(n, start, size)
  <2>1. z = 0 /\ cde = q /\ Len(d) - 2 - Len(c) = q - 1
    BY <1>1, <1>6, <1>7, <1>15
  <2>2. locator[1] # "loc64"
    BY <1>15, <2>1 DEF EndsWith, locator, q
  <2>3. n <= ZIP64_ENTRY_THR /\ size <= ZIP64_BYTES_THR /\ start <= ZIP64_BYTES_THR
    <3>1. Max({size, start}) = IF size >= start THEN size ELSE start
      <4>1. CASE size >= start
        BY <4>1, HighestIs
      <4>2. CASE ~(size >= start)
        BY <4>2, HighestIs
      <4> QED
        BY <4>1, <4>2
    <3> QED
      BY <1>15, <3>1, EntryThrAssumption, BytesThrAssumption DEF HasZip64End
  <2>4. Min({n, ZIP64_ENTRY_THR}) = n
    BY <2>3, EntryThrAssumption, MinOfTwo
  <2>5. Clip32(size) = size /\ Clip32(start) = start
    BY <2>3, BytesThrAssumption DEF Clip32
  <2>6. cde - size - start = 0 /\ start + 0 = start
    BY <2>1 DEF q
  <2> QED
    <3>1. /\ shift = 0 /\ ~(shift < 0)
          /\ footer[4] + shift = start /\ footer[2] = n
      BY <1>11, <2>4, <2>5, <2>6
    <3> HIDE DEF shift
    <3> QED
      BY <1>13, <2>2, <3>1
<1> QED
  BY <1>14, <1>15

-----------------------------------------------------------------------------
(***************************************************************************)
(* The extra field and the header of an entry, written and parsed.         *)
(***************************************************************************)
\* The loop of parse_extra_field over n records as FoldLeftDomain defines it,
\* as a recursive function of sets of indices (idx is the sequence 1, 2, ...).
ParsesRecords(g, f, extra, idx, n) ==
    g = [s \in SUBSET (1..n) |->
           IF s = {} THEN f
           ELSE ParseExtraRecord(g[s \ {Max(s)}], extra, idx[Max(s)])]

\* There is such a function.
LEMMA LoopExists ==
    ASSUME NEW f, NEW extra, NEW idx, NEW n \in Nat
    PROVE  \E g : ParsesRecords(g, f, extra, idx, n)
<1> DEFINE Step(g, s) == IF s = {} THEN f
                         ELSE ParseExtraRecord(g[s \ {Max(s)}], extra, idx[Max(s)])
           Loop(g, m) == g = [s \in SUBSET (1..m) |-> Step(g, s)]
           S == {m \in Nat : \E g : Loop(g, m)}
<1>1. 0 \in S
  <2> DEFINE g == [s \in SUBSET (1..0) |-> f]
  <2>1. \A s \in SUBSET (1..0) : s = {}
    OBVIOUS
  <2>2. \A s \in SUBSET (1..0) : f = Step(g, s)
    BY <2>1
  <2>3. Loop(g, 0)
    <3> HIDE DEF Step
    <3> QED
      BY <2>2
  <2> QED
    BY <2>3
<1>2. ASSUME NEW m \in Nat, m \in S PROVE m + 1 \in S
  <2>1. PICK g : Loop(g, m)
    BY <1>2
  <2> DEFINE last(s) == ParseExtraRecord(g[s \ {m + 1}], extra, idx[m + 1])
             h == [s \in SUBSET (1..m + 1) |-> IF m + 1 \in s THEN last(s) ELSE g[s]]
  <2>2. ASSUME NEW s \in SUBSET (1..m) PROVE h[s] = g[s] /\ g[s] = Step(g, s)
    <3>1. m + 1 \notin s /\ s \in SUBSET (1..m + 1)
      BY <2>2
    <3> HIDE DEF last
    <3> QED
      BY <2>1, <3>1
  <2>3. ASSUME NEW s \in SUBSET (1..m + 1) PROVE h[s] = Step(h, s)
    <3>1. CASE m + 1 \in s
      <4>1. m + 1 \in Int /\ s \subseteq Int /\ \A x \in s : x <= m + 1
        OBVIOUS
      <4>2. Max(s) = m + 1
        BY <3>1, <4>1, HighestIs
      <4> DEFINE r == s \ {m + 1}
      <4>3. r \in SUBSET (1..m)
        OBVIOUS
      <4>4. h[s] = ParseExtraRecord(g[r], extra, idx[m + 1])
        BY <3>1
      <4>5. s # {} /\ Step(h, s) = ParseExtraRecord(h[r], extra, idx[m + 1])
        <5> HIDE DEF h
        <5> QED
          BY <3>1, <4>2
      <4> HIDE DEF h, r, Step
      <4> QED
        BY <2>2, <4>3, <4>4, <4>5
    <3>2. CASE m + 1 \notin s
      <4>1. s \in SUBSET (1..m)
        BY <3>2
      <4>2. CASE s = {}
        <5> HIDE DEF h
        <5> QED
          BY <2>2, <4>1, <4>2
      <4>3. CASE s # {}
        <5> DEFINE r == s \ {Max(s)}
        <5>1. r \in SUBSET (1..m)
          BY <4>1
        <5>2. /\ Step(g, s) = ParseExtraRecord(g[r], extra, idx[Max(s)])
              /\ Step(h, s) = ParseExtraRecord(h[r], extra, idx[Max(s)])
          <6> HIDE DEF h
          <6> QED
            BY <4>3
        <5> HIDE DEF h, r, Step
        <5> QED
          BY <2>2, <4>1, <5>1, <5>2
      <4> QED
        BY <4>2, <4>3
    <3> QED
      BY <3>1, <3>2
  <2>4. h = [s \in SUBSET (1..m + 1) |-> h[s]]
    <3> HIDE DEF last
    <3> QED
      OBVIOUS
  <2> HIDE DEF h, Step
  <2>5. Loop(h, m + 1)
    BY <2>3, <2>4
  <2> QED
    BY <2>5
<1> HIDE DEF S
<1>3. n \in S
  BY <1>1, <1>2, Induction
<1>4. PICK g : Loop(g, n)
  BY <1>3 DEF S
<1>5. ParsesRecords(g, f, extra, idx, n)
  BY <1>4, Zenon DEF ParsesRecords
<1> QED
  BY <1>5

\* The cursor is at the first record.
Unparsed(f) == [file |-> f, skip |-> 0]

\* Behind the first k records, of which there is at most one, no record changes
\* what was parsed.
LEMMA OneRecordParsed ==
    ASSUME NEW f, NEW extra, NEW n \in Nat, DOMAIN extra = 1..n,
           NEW k \in {0, 1}, k <= n, NEW r,
           r = IF k = 1 THEN ParseExtraRecord(Unparsed(f), extra, 1) ELSE Unparsed(f),
           \A j \in k + 1..n : ParseExtraRecord(r, extra, j) = r
    PROVE  ParseExtraField(f, extra) = r.file
<1> DEFINE idx == [i \in DOMAIN extra |-> i]
           b == Unparsed(f)
           Step(g, s) == IF s = {} THEN b
                         ELSE ParseExtraRecord(g[s \ {Max(s)}], extra, idx[Max(s)])
           Loop(g) == g = [s \in SUBSET (1..n) |-> Step(g, s)]
           iter[s \in SUBSET (DOMAIN idx)] ==
             IF s = {} THEN b
             ELSE ParseExtraRecord(iter[s \ {Max(s)}], extra, idx[Max(s)])
<1>1. PICK g : ParsesRecords(g, b, extra, idx, n)
  BY LoopExists
<1>2. Loop(iter)
  <2>1. iter = CHOOSE h : ParsesRecords(h, b, extra, idx, n)
    BY Zenon DEF ParsesRecords
  <2> HIDE DEF iter, Loop, Step
  <2>2. ParsesRecords(iter, b, extra, idx, n)
    BY <1>1, <2>1, Zenon
  <2> QED
    BY <2>2, Zenon DEF ParsesRecords, Loop, Step
<1>0. DOMAIN idx = 1..n /\ \A i \in 1..n : idx[i] = i
  OBVIOUS
<1>3. ParseExtraField(f, extra) = iter[1..n].file
  BY <1>0 DEF ParseExtraField, FoldLeftDomain, FoldLeft, MapThenFoldSet, Unparsed
<1>b. k = 0 => r = b
  OBVIOUS
<1> HIDE DEF iter, idx, b
<1> DEFINE S == {m \in Nat : m <= n => iter[1..m] = IF m < k THEN b ELSE r}
<1>4. 0 \in S
  <2>1. 1..0 = {}
    OBVIOUS
  <2>2. iter[{}] = b
    BY <1>2
  <2>3. (IF 0 < k THEN b ELSE r) = b
    BY <1>b
  <2> QED
    BY <2>1, <2>2, <2>3
<1>5. ASSUME NEW m \in Nat, m \in S PROVE m + 1 \in S
  <2> SUFFICES ASSUME m + 1 <= n PROVE iter[1..m + 1] = r
    OBVIOUS
  <2>1. Max(1..m + 1) = m + 1
    <3>1. 1..m + 1 \subseteq Int /\ m + 1 \in 1..m + 1 /\ \A x \in 1..m + 1 : x <= m + 1
      OBVIOUS
    <3> QED
      BY <3>1, HighestIs
  <2>2. (1..m + 1) \ {m + 1} = 1..m /\ 1..m + 1 # {} /\ 1..m + 1 \in SUBSET (1..n)
    <3>1. m \in Int /\ m + 1 \in 1..m + 1 /\ n \in Int
      OBVIOUS
    <3>2. \A x \in 1..m + 1 : x \in 1..n /\ (x # m + 1 => x \in 1..m)
      OBVIOUS
    <3>3. \A x \in 1..m : x \in 1..m + 1 /\ x # m + 1
      OBVIOUS
    <3> QED
      BY <3>1, <3>2, <3>3
  <2>3. iter[1..m + 1] = ParseExtraRecord(iter[1..m], extra, m + 1)
    <3>1. idx[m + 1] = m + 1
      BY <1>0
    <3> QED
      BY <1>2, <2>1, <2>2, <3>1
  <2>4. CASE m < k
    <3>1. m = 0 /\ k = 1 /\ iter[1..m] = b
      BY <1>5, <2>4
    <3> QED
      BY <2>3, <3>1 DEF b
  <2>5. CASE ~(m < k)
    <3>1. m + 1 \in k + 1..n /\ iter[1..m] = r
      BY <1>5, <2>5
    <3> QED
      BY <2>3, <3>1
  <2> QED
    BY <2>4, <2>5
<1> HIDE DEF S
<1>6. n \in S
  BY <1>4, <1>5, Induction
<1>7. iter[1..n] = r
  BY <1>6 DEF S
<1> QED
  BY <1>3, <1>7

\* The extra field of a central header: the ZIP64 record, when there is one, in
\* front of the fields of the entry.
HasZip64Record(f) ==
    Zip64Payload(f.uncompressed_size, f.compressed_size, f.header_start) # << >>

LEMMA CentralExtraCells ==
    ASSUME NEW f, IsSeq(f.extra_field)
    PROVE  LET e == CentralExtra(f)
               z == IF HasZip64Record(f) THEN 1 ELSE 0
           IN  /\ IsSeq(e) /\ Len(e) = z + Len(f.extra_field)
               /\ z = 1 => e[1] = <<"zip64",
                    Zip64Payload(f.uncompressed_size, f.compressed_size,
                                 f.header_start)>>
               /\ \A j \in 1..Len(f.extra_field) : e[z + j] = f.extra_field[j]
<1> DEFINE e == CentralExtra(f)
           z == IF HasZip64Record(f) THEN 1 ELSE 0
           p == Zip64Payload(f.uncompressed_size, f.compressed_size, f.header_start)
           r == <<"zip64", p>>
           one == IF HasZip64Record(f) THEN <<r>> ELSE << >>
           x == f.extra_field
<1>1. e = one \o x
  BY DEF CentralExtra, HasZip64Record
<1> HIDE DEF e, p, r
<1>2. IsSeq(one) /\ Len(one) = z /\ (z = 1 => one[1] = r)
  BY SingleIsSeq, EmptyIsSeq
<1>3. z \in Nat /\ Len(x) \in Nat /\ IsSeq(x)
  BY LenIsNat
<1> HIDE DEF one, z, x
<1>4. IsSeq(one \o x) /\ Len(one \o x) = z + Len(x)
  BY <1>2, <1>3, ConcatIsSeq
<1>5. \A j \in 1..Len(one) + Len(x) :
        (one \o x)[j] = IF j <= Len(one) THEN one[j] ELSE x[j - Len(one)]
  BY <1>2, <1>3, ConcatCells
<1>6. z = 1 => e[1] = r
  BY <1>1, <1>2, <1>3, <1>5
<1>7. ASSUME NEW j \in 1..Len(x) PROVE e[z + j] = x[j]
  <2> DEFINE i == z + j
  <2>1. i \in 1..Len(one) + Len(x) /\ ~(i <= Len(one)) /\ i - Len(one) = j
    BY <1>2, <1>3
  <2> HIDE DEF i
  <2>2. (one \o x)[i] = x[i - Len(one)]
    BY <1>5, <2>1, Zenon
  <2> QED
    BY <1>1, <2>1, <2>2 DEF i
<1> QED
  BY <1>1, <1>4, <1>6, <1>7 DEF e, z, x, r, p

\* The central header of f is on disk d.
HeaderAt(d, p, f) ==
    CellsAt(d, p, CentralHeader(f)) /\ p + Len(CentralHeader(f)) <= Len(d)

\* A vector behind one cell more.
LEMMA HeadedCells ==
    ASSUME NEW head, NEW e, IsSeq(e)
    PROVE  LET ch == <<head>> \o e
           IN  /\ IsSeq(ch) /\ Len(ch) = 1 + Len(e) /\ ch[1] = head
               /\ \A j \in 1..Len(e) : ch[1 + j] = e[j]
<1> DEFINE one == <<head>>
           ch == one \o e
<1>1. IsSeq(one) /\ Len(one) = 1 /\ one[1] = head /\ Len(e) \in Nat
  BY SingleIsSeq, LenIsNat
<1> HIDE DEF one
<1>2. IsSeq(ch) /\ Len(ch) = 1 + Len(e)
  BY <1>1, ConcatIsSeq
<1>3. \A j \in 1..Len(one) + Len(e) :
        ch[j] = IF j <= Len(one) THEN one[j] ELSE e[j - Len(one)]
  BY <1>1, ConcatCells
<1> HIDE DEF ch
<1>4. ch[1] = head
  BY <1>1, <1>3
<1>5. ASSUME NEW j \in 1..Len(e) PROVE ch[1 + j] = e[j]
  <2> DEFINE i == 1 + j
  <2>1. i \in 1..Len(one) + Len(e) /\ ~(i <= Len(one)) /\ i - Len(one) = j
    BY <1>1
  <2> HIDE DEF i
  <2>2. ch[i] = e[i - Len(one)]
    BY <1>3, <2>1, Zenon
  <2> QED
    BY <2>1, <2>2 DEF i
<1> QED
  BY <1>2, <1>4, <1>5 DEF ch, one

\* A record written for values above the threshold meets a marker.
LEMMA PayloadIsMarked ==
    ASSUME NEW u \in Nat, NEW c \in Nat, NEW h \in Nat,
           Zip64Payload(u, c, h) # << >>
    PROVE  ZIP64_BYTES_THR \in {Clip32(u), Clip32(c), Clip32(h)}
<1>1. Len(Zip64Payload(u, c, h)) # 0
  BY PayloadValues DEF Packs
<1>2. NumAbove(u) + NumAbove(c) + NumAbove(h) # 0
  BY <1>1, PayloadValues DEF Packs
<1>3. u > ZIP64_BYTES_THR \/ c > ZIP64_BYTES_THR \/ h > ZIP64_BYTES_THR
  BY <1>2 DEF NumAbove
<1> QED
  BY <1>3 DEF Clip32

\* What the cells behind a record read as.
LEMMA NumbersBehind ==
    ASSUME NEW n \in Nat
    PROVE  /\ AsNumbers(n) \in Seq(Nat) /\ Len(AsNumbers(n)) = n
           /\ AsNumbers(n) = << >> <=> n = 0
<1>1. AsNumbers(n) \in [1..n -> Nat]
  BY BytesThrAssumption DEF AsNumbers
<1>2. AsNumbers(n) \in Seq(Nat)
  BY <1>1
<1>3. Len(AsNumbers(n)) = n
  BY <1>1, <1>2
<1> QED
  BY <1>2, <1>3, EmptySeq

\* The ZIP64 record, which comes first, replaces the fields with the marker.
WithNumbers(f, back) ==
    [f EXCEPT !.uncompressed_size = back.uncompressed_size,
              !.compressed_size = back.compressed_size,
              !.header_start = back.header_start,
              !.large_file = \/ f.large_file
                             \/ f.uncompressed_size = ZIP64_BYTES_THR
                             \/ f.compressed_size = ZIP64_BYTES_THR]

LEMMA Zip64RecordParsed ==
    ASSUME NEW f, NEW extra, extra[1][1] = "zip64", NEW back,
           ParseZip64(f.uncompressed_size, f.compressed_size, f.header_start,
                      extra[1][2], AsNumbers(Len(extra) - 1)) = back,
           ZIP64_BYTES_THR \in {f.uncompressed_size, f.compressed_size, f.header_start}
    PROVE  ParseExtraRecord(Unparsed(f), extra, 1) =
             [skip |-> back.beyond, file |-> WithNumbers(f, back)]
<1> DEFINE st == Unparsed(f)
           z == ParseZip64(f.uncompressed_size, f.compressed_size, f.header_start,
                           extra[1][2], AsNumbers(Len(extra) - 1))
           marked == ZIP64_BYTES_THR \in
                       {f.uncompressed_size, f.compressed_size, f.header_start}
           parsed(b) == [skip |-> b.beyond, file |-> WithNumbers(f, b)]
<1>1. st.skip = 0 /\ st.file = f
  BY DEF Unparsed
<1>2. ParseExtraRecord(st, extra, 1) =
        IF st.skip > 0 THEN [st EXCEPT !.skip = @ - 1]
        ELSE IF extra[1][1] # "zip64" \/ ~marked THEN st ELSE parsed(z)
  BY DEF ParseExtraRecord, Unparsed, WithNumbers
<1>3. ~(st.skip > 0) /\ marked /\ z = back
  BY <1>1
<1> HIDE DEF st, z, marked, parsed
<1>4. ParseExtraRecord(st, extra, 1) = parsed(back)
  BY <1>2, <1>3, Zenon
<1> QED
  BY <1>4 DEF st, parsed

\* central_header_to_zip_file reads what write_central_directory_header wrote.
LEMMA CentralHeaderReadsBack ==
    ASSUME NEW d, IsSeq(d), NEW p \in Nat, NEW f, IsSeq(f.extra_field),
           HeaderAt(d, p, f), Legible(f), ExtraReadable(f)
    PROVE  /\ CentralHeaderOk(d, p)
           /\ CentralHeaderEnd(d, p) = p + Len(CentralHeader(f))
           /\ RecordedAs(f, CentralHeaderToZipFile(d, p, 0))
<1> DEFINE e == CentralExtra(f)
           ch == CentralHeader(f)
           u == f.uncompressed_size
           c == f.compressed_size
           h == f.header_start
           fields == [name |-> f.name, encrypted |-> f.encrypted,
                      method |-> f.method, using_data_descriptor |-> FALSE,
                      crc32 |-> f.crc32, compressed_size |-> Clip32(c),
                      uncompressed_size |-> Clip32(u), offset |-> Clip32(h),
                      extra_len |-> Len(e) % (ZIP64_ENTRY_THR + 1),
                      comment_len |-> 0]
           head == <<"central", fields>>
<1>1. IsSeq(e) /\ Len(e) \in Nat /\ Len(e) <= ZIP64_ENTRY_THR
  BY CentralExtraCells, LenIsNat DEF ExtraReadable
<1>2. Len(e) % (ZIP64_ENTRY_THR + 1) = Len(e)
  BY <1>1, EntryThrAssumption
<1>3. ch = <<head>> \o e
  BY DEF CentralHeader
<1> HIDE DEF e, ch, head
<1>4. /\ IsSeq(ch) /\ Len(ch) = 1 + Len(e) /\ ch[1] = head
      /\ \A j \in 1..Len(e) : ch[1 + j] = e[j]
  BY <1>1, <1>3, HeadedCells
<1>5. At(d, p) = head
  <2>1. 1 \in 1..Len(ch) /\ p + 1 - 1 = p
    BY <1>1, <1>4
  <2>2. At(d, p + 1 - 1) = ch[1]
    BY <2>1 DEF HeaderAt, CellsAt, ch
  <2> QED
    BY <1>4, <2>1, <2>2
<1>6. At(d, p)[1] = "central" /\ At(d, p)[2] = fields
  BY <1>5 DEF head
<1> HIDE DEF fields
<1>7. /\ fields.extra_len = Len(e) /\ fields.comment_len = 0
      /\ fields.name = f.name /\ fields.encrypted = f.encrypted
      /\ fields.method = f.method /\ fields.crc32 = f.crc32
      /\ fields.compressed_size = Clip32(c) /\ fields.uncompressed_size = Clip32(u)
      /\ fields.offset = Clip32(h) /\ fields.using_data_descriptor = FALSE
  BY <1>2 DEF fields
<1>8. CentralHeaderEnd(d, p) = p + Len(ch)
  BY <1>1, <1>4, <1>6, <1>7 DEF CentralHeaderEnd
<1>9. CentralHeaderOk(d, p)
  BY <1>6, <1>8 DEF CentralHeaderOk, HeaderAt, ch
<1>10. Region(d, p + 1, Len(e)) = e
  <2>1. p + 1 + Len(e) <= Len(d) /\ Len(d) \in Nat
    BY <1>1, <1>4, LenIsNat DEF HeaderAt, ch
  <2>2. Min({p + 1 + Len(e), Len(d)}) = p + 1 + Len(e)
    BY <1>1, <2>1, MinOfTwo
  <2> DEFINE b == p + 1
             w == b + Len(e)
             r == SubSeq(d, b + 1, w)
  <2>3. Region(d, p + 1, Len(e)) = r
    BY <2>2 DEF Region
  <2>a. b \in Nat /\ w \in Nat /\ w <= Len(d) /\ w = b + Len(e) /\ b = p + 1
    BY <1>1, <2>1
  <2> HIDE DEF b, w
  <2>4. /\ IsSeq(r) /\ Len(r) = IF b + 1 <= w THEN w - b ELSE 0
        /\ \A i \in 1..Len(r) : r[i] = d[b + i]
    <3>1. \A i \in 1..Len(r) : r[i] = d[b + i] /\ b + i \in 1..Len(d)
      BY <2>a, SubSeqCells
    <3>2. IsSeq(r) /\ Len(r) = IF b + 1 <= w THEN w - b ELSE 0
      BY <2>a, SubSeqCells
    <3> QED
      BY <3>1, <3>2
  <2> HIDE DEF r
  <2>5. Len(r) = Len(e)
    BY <1>1, <2>4, <2>a
  <2>6. ASSUME NEW i \in 1..Len(r) PROVE r[i] = e[i]
    <3>1. 1 + i \in 1..Len(ch) /\ p + (1 + i) - 1 = p + i /\ i \in 1..Len(e)
          /\ p + i >= 0 /\ p + i < Len(d) /\ p + i + 1 = b + i
      BY <1>1, <1>4, <2>1, <2>5, <2>a
    <3>2. At(d, p + (1 + i) - 1) = ch[1 + i]
      BY <3>1 DEF HeaderAt, CellsAt, ch
    <3>3. d[b + i] = ch[1 + i]
      BY <3>1, <3>2 DEF At
    <3> QED
      BY <1>4, <2>4, <3>1, <3>3
  <2>7. r = e
    BY <1>1, <2>4, <2>5, <2>6, SameCells
  <2> QED
    BY <2>3, <2>7
<1> DEFINE raw == [name |-> f.name, encrypted |-> f.encrypted,
                   method |-> f.method, level |-> "none",
                   using_data_descriptor |-> fields.using_data_descriptor,
                   crc32 |-> f.crc32, compressed_size |-> Clip32(c),
                   uncompressed_size |-> Clip32(u),
                   header_start |-> Clip32(h), data_start |-> 0,
                   extra_field |-> e, large_file |-> FALSE]
           g == ParseExtraField(raw, e)
<1>11. CentralHeaderToZipFile(d, p, 0) = [g EXCEPT !.header_start = @ + 0]
  BY <1>6, <1>7, <1>10 DEF CentralHeaderToZipFile
<1> DEFINE z == IF HasZip64Record(f) THEN 1 ELSE 0
           pay == Zip64Payload(u, c, h)
<1>12. /\ {"name", "encrypted", "method", "crc32", "extra_field", "header_start",
          "uncompressed_size", "compressed_size", "large_file",
          "using_data_descriptor"} \subseteq DOMAIN raw
      /\ raw.using_data_descriptor = FALSE
      /\ raw.name = f.name /\ raw.encrypted = f.encrypted /\ raw.method = f.method
      /\ raw.crc32 = f.crc32 /\ raw.extra_field = e
      /\ raw.uncompressed_size = Clip32(u) /\ raw.compressed_size = Clip32(c)
      /\ raw.header_start = Clip32(h) /\ raw.large_file \in BOOLEAN
      /\ raw = [x \in DOMAIN raw |-> raw[x]]
  BY <1>7
<1> HIDE DEF raw
<1> DEFINE st == IF z = 1 THEN ParseExtraRecord(Unparsed(raw), e, 1)
                  ELSE Unparsed(raw)
           r == st.file
<1>13. /\ Len(e) = z + Len(f.extra_field) /\ Len(f.extra_field) \in Nat
       /\ z = 1 => e[1] = <<"zip64", pay>>
       /\ \A j \in 1..Len(f.extra_field) : e[z + j] = f.extra_field[j]
  BY CentralExtraCells, LenIsNat DEF e
<1>14. /\ r.name = f.name /\ r.encrypted = f.encrypted /\ r.method = f.method
       /\ r.crc32 = f.crc32 /\ r.extra_field = e /\ DOMAIN r = DOMAIN raw
       /\ r.using_data_descriptor = FALSE
       /\ r.uncompressed_size = u /\ r.compressed_size = c /\ r.header_start = h
       /\ st = [file |-> r, skip |-> 0]
  <2>1. CASE z = 1
    <3> DEFINE behind == AsNumbers(Len(e) - 1)
    <3>a. /\ behind \in Seq(Nat)
          /\ behind = << >> <=> f.extra_field = << >>
      <4>1. Len(e) - 1 = Len(f.extra_field)
        <5> HIDE DEF z, e
        <5>1. Len(e) = 1 + Len(f.extra_field)
          BY <1>13, <2>1
        <5> QED
          BY <5>1, <1>13
      <4>2. f.extra_field = << >> <=> Len(f.extra_field) = 0
        BY NoCells
      <4>3. behind = AsNumbers(Len(f.extra_field))
        BY <4>1
      <4> HIDE DEF behind
      <4> QED
        BY <1>13, <4>2, <4>3, NumbersBehind
    <3>b. ~Ambiguous(u, c, h, behind)
      BY <3>a DEF Legible, Ambiguous
    <3>c. u \in Nat /\ c \in Nat /\ h \in Nat
      BY DEF Legible
    <3> HIDE DEF behind
    <3>1. ReadBackFields(u, c, h, behind) = Fields(u, c, h)
      BY <3>a, <3>b, <3>c, ReadBackExact
    <3> DEFINE back == ParseZip64(Clip32(u), Clip32(c), Clip32(h), pay, behind)
    <3>n. pay # << >>
      BY <2>1 DEF HasZip64Record
    <3>2. /\ back.uncompressed_size = u /\ back.compressed_size = c
          /\ back.header_start = h /\ back.beyond = 0
      BY <3>1, <3>n DEF ReadBackFields, Fields
    <3>m. ZIP64_BYTES_THR \in {Clip32(u), Clip32(c), Clip32(h)}
      BY <3>c, <3>n, PayloadIsMarked
    <3> HIDE DEF pay, back, st
    <3>3. e[1] = <<"zip64", pay>>
      BY <1>13, <2>1
    <3>4. /\ e[1][1] = "zip64"
          /\ ParseZip64(raw.uncompressed_size, raw.compressed_size,
                        raw.header_start, e[1][2], AsNumbers(Len(e) - 1)) = back
      BY <1>12, <3>3 DEF back, behind
    <3> DEFINE parsed == WithNumbers(raw, back)
    <3>5. st = [skip |-> back.beyond, file |-> parsed]
      <4>1. st = ParseExtraRecord(Unparsed(raw), e, 1)
        BY <2>1 DEF st
      <4>3. ZIP64_BYTES_THR \in {raw.uncompressed_size, raw.compressed_size,
                                 raw.header_start}
        BY <1>12, <3>m
      <4> HIDE DEF back
      <4>4. ParseExtraRecord(Unparsed(raw), e, 1) = [skip |-> back.beyond, file |-> parsed]
        BY ONLY <4>3, <3>4, Zip64RecordParsed
      <4> QED
        BY <4>1, <4>4
    <3>7. st.file = parsed /\ st = [file |-> st.file, skip |-> 0]
      BY <3>2, <3>5
    <3>8. /\ parsed.uncompressed_size = u /\ parsed.compressed_size = c
          /\ parsed.header_start = h /\ DOMAIN parsed = DOMAIN raw
          /\ parsed.name = raw.name /\ parsed.encrypted = raw.encrypted
          /\ parsed.method = raw.method /\ parsed.crc32 = raw.crc32
          /\ parsed.extra_field = raw.extra_field
          /\ parsed.using_data_descriptor = raw.using_data_descriptor
      <4> DEFINE large == \/ raw.large_file
                          \/ raw.uncompressed_size = ZIP64_BYTES_THR
                          \/ raw.compressed_size = ZIP64_BYTES_THR
      <4>1. parsed = [raw EXCEPT !.uncompressed_size = back.uncompressed_size,
                                 !.compressed_size = back.compressed_size,
                                 !.header_start = back.header_start,
                                 !.large_file = large]
        BY DEF WithNumbers
      <4> HIDE DEF large, parsed
      <4> QED
        BY <1>12, <3>2, <4>1
    <3> HIDE DEF parsed
    <3> QED
      BY <1>12, <3>7, <3>8
  <2>2. CASE z # 1
    <3>1. pay = << >>
      BY <2>2 DEF HasZip64Record
    <3>2. Clip32(u) = u /\ Clip32(c) = c /\ Clip32(h) = h
      BY <3>1, EmptyPayload DEF Legible
    <3>3. st = [file |-> raw, skip |-> 0]
      BY <2>2 DEF Unparsed
    <3> HIDE DEF st
    <3>4. st.file = raw
      BY <3>3
    <3> QED
      BY <1>12, <3>2, <3>3, <3>4
  <2> QED
    BY <2>1, <2>2
<1>15. z \in {0, 1}
  OBVIOUS
<1>16. st = IF z = 1 THEN ParseExtraRecord(Unparsed(raw), e, 1) ELSE Unparsed(raw)
  OBVIOUS
<1> HIDE DEF st, z, g, pay
<1>17. ASSUME NEW j \in z + 1..Len(e) PROVE ParseExtraRecord(st, e, j) = st
  <2> DEFINE i == j - z
  <2>1. i \in 1..Len(f.extra_field) /\ z + i = j
    BY <1>13, <1>15
  <2> HIDE DEF i
  <2>2. e[j] = f.extra_field[i]
    BY <1>13, <2>1
  <2>3. ~(st.skip > 0)
    BY <1>14
  <2>4. e[j][1] # "zip64" \/ ZIP64_BYTES_THR \notin
          {r.uncompressed_size, r.compressed_size, r.header_start}
    BY <2>1, <2>2, <1>14 DEF ExtraReadable
  <2> QED
    BY <2>3, <2>4 DEF ParseExtraRecord
<1>18. g = r
  <2>1. DOMAIN e = 1..Len(e) /\ z <= Len(e)
    BY <1>1, <1>13, <1>15, LenProperties DEF IsSeq
  <2> HIDE DEF r
  <2>2. ParseExtraField(raw, e) = st.file
    BY <1>1, <1>15, <1>16, <1>17, <2>1, OneRecordParsed
  <2> QED
    BY <2>2 DEF g, r
<1>19. h + 0 = h
  BY DEF Legible
<1>20. RecordedAs(f, CentralHeaderToZipFile(d, p, 0))
  BY <1>11, <1>14, <1>18, <1>19, <1>12 DEF RecordedAs, e
<1> QED
  BY <1>8, <1>9, <1>20 DEF ch

\* ZipArchive::new reads one header after the other from where the end records
\* say that the directory starts.
HeadersFollow(d, n, dir, g) ==
    /\ n \in Nat /\ GetDirectoryCounts(d) = dir /\ dir.ok /\ dir.nfiles = n
    /\ g \in [1..n + 1 -> Nat] /\ g[1] = dir.start
    /\ \A k \in 1..n : /\ CentralHeaderOk(d, g[k])
                       /\ CentralHeaderEnd(d, g[k]) = g[k + 1]

OpensAs(d, n, dir, g) ==
    OpenArchive(d) =
      [ok |-> TRUE, comment |-> dir.comment, start |-> dir.start,
       files |-> [k \in 1..n |->
           CentralHeaderToZipFile(d, g[k], dir.archive_offset)]]

LEMMA HeadersAreOpened ==
    ASSUME NEW d, NEW n, NEW dir, NEW g, HeadersFollow(d, n, dir, g)
    PROVE  OpensAs(d, n, dir, g)
<1> SUFFICES ASSUME n \in Nat, GetDirectoryCounts(d) = dir, dir.ok, dir.nfiles = n,
                    g \in [1..n + 1 -> Nat], g[1] = dir.start,
                    \A k \in 1..n : /\ CentralHeaderOk(d, g[k])
                                    /\ CentralHeaderEnd(d, g[k]) = g[k + 1]
             PROVE  OpenArchive(d) =
                      [ok |-> TRUE, comment |-> dir.comment, start |-> dir.start,
                       files |-> [k \in 1..n |->
                           CentralHeaderToZipFile(d, g[k], dir.archive_offset)]]
  BY DEF HeadersFollow, OpensAs
<1> DEFINE After(s, k) ==
             IF k = 1 THEN dir.start
             ELSE IF s[k - 1] >= 0 /\ CentralHeaderOk(d, s[k - 1])
               THEN CentralHeaderEnd(d, s[k - 1]) ELSE -1
           Loop(s) == s = [k \in 1..n + 1 |-> After(s, k)]
           starts == CHOOSE s : s = [k \in 1..n + 1 |->
             IF k = 1 THEN dir.start
             ELSE IF s[k - 1] >= 0 /\ CentralHeaderOk(d, s[k - 1])
               THEN CentralHeaderEnd(d, s[k - 1]) ELSE -1]
           fs == [k \in 1..n |->
                    CentralHeaderToZipFile(d, starts[k], dir.archive_offset)]
<1>1. OpenArchive(d) =
        IF ~dir.ok \/ starts[n + 1] < 0 THEN NoArchive
        ELSE [ok |-> TRUE, comment |-> dir.comment, start |-> dir.start, files |-> fs]
  BY DEF OpenArchive
<1>2. Loop(g)
  <2>1. ASSUME NEW k \in 1..n + 1 PROVE g[k] = After(g, k)
    <3>1. CASE k = 1
      BY <3>1
    <3>2. CASE k # 1
      <4>1. k - 1 \in 1..n /\ k - 1 \in 1..n + 1 /\ k - 1 + 1 = k
        BY <3>2
      <4>2. g[k - 1] \in Nat
        BY <4>1
      <4> QED
        BY <3>2, <4>1, <4>2
    <3> QED
      BY <3>1, <3>2
  <2> HIDE DEF After
  <2> QED
    BY <2>1
<1>3. Loop(starts)
  <2>1. starts = CHOOSE s : Loop(s)
    OBVIOUS
  <2> HIDE DEF starts, Loop
  <2> QED
    BY <1>2, <2>1, Zenon
<1> HIDE DEF starts
<1> DEFINE S == {m \in Nat : m <= n => starts[m + 1] = g[m + 1]}
<1>4. 0 \in S
  <2>1. 1 \in 1..n + 1 /\ 0 + 1 = 1
    OBVIOUS
  <2> QED
    BY <1>3, <2>1
<1>5. ASSUME NEW m \in Nat, m \in S PROVE m + 1 \in S
  <2> SUFFICES ASSUME m + 1 <= n PROVE starts[m + 1 + 1] = g[m + 1 + 1]
    OBVIOUS
  <2>1. m + 1 + 1 \in 1..n + 1 /\ m + 1 + 1 # 1 /\ m + 1 + 1 - 1 = m + 1
        /\ m + 1 \in 1..n /\ m + 1 \in 1..n + 1 /\ m <= n
    OBVIOUS
  <2>2. starts[m + 1] = g[m + 1] /\ g[m + 1] \in Nat
    BY <1>5, <2>1
  <2>3. starts[m + 1 + 1] = After(starts, m + 1 + 1)
    BY <1>3, <2>1
  <2>4. g[m + 1 + 1] = After(g, m + 1 + 1)
    BY <1>2, <2>1
  <2> QED
    BY <2>1, <2>2, <2>3, <2>4
<1> HIDE DEF S
<1>6. \A m \in Nat : m \in S
  BY <1>4, <1>5, Induction
<1>7. ASSUME NEW k \in 1..n + 1 PROVE starts[k] = g[k]
  <2>1. k - 1 \in Nat /\ k - 1 <= n /\ k - 1 + 1 = k
    OBVIOUS
  <2> QED
    BY <1>6, <2>1 DEF S
<1>8. ~(starts[n + 1] < 0)
  <2>1. n + 1 \in 1..n + 1
    OBVIOUS
  <2>2. g[n + 1] \in Nat /\ starts[n + 1] = g[n + 1]
    BY <1>7, <2>1
  <2> QED
    BY <2>2
<1>9. fs = [k \in 1..n |-> CentralHeaderToZipFile(d, g[k], dir.archive_offset)]
  <2>1. \A k \in 1..n : starts[k] = g[k]
    BY <1>7
  <2> QED
    BY <2>1
<1> HIDE DEF fs
<1> QED
  BY <1>1, <1>8, <1>9

-----------------------------------------------------------------------------
(***************************************************************************)
(* What finalize has written of the directory, as an invariant: no header  *)
(* before it begins, all of them, and then the end records, behind each    *)
(* other.                                                                  *)
(***************************************************************************)
\* n headers of the directory are on disk d, from the offset start up to p; the
\* k-th of them starts at g[k].
HeadersAre(d, fs, n, start, p, g) ==
    /\ g \in [1..n + 1 -> Nat] /\ g[1] = start /\ g[n + 1] = p
    /\ \A k \in 1..n : /\ IsSeq(CentralHeader(fs[k]))
                       /\ CellsAt(d, g[k], CentralHeader(fs[k]))
                       /\ g[k + 1] = g[k] + Len(CentralHeader(fs[k]))
                       /\ g[k + 1] <= p

DirectoryIs(d, fs, n, start, p) ==
    start \in 0..p /\ \E g : HeadersAre(d, fs, n, start, p, g)

\* A directory of no headers.
LEMMA DirectoryStarts ==
    ASSUME NEW d, NEW fs, NEW p \in Nat
    PROVE  DirectoryIs(d, fs, 0, p, p)
<1> DEFINE g == [k \in 1..0 + 1 |-> p]
<1>1. g \in [1..0 + 1 -> Nat] /\ g[1] = p /\ g[0 + 1] = p
  OBVIOUS
<1> HIDE DEF g
<1>2. HeadersAre(d, fs, 0, p, p, g)
  BY <1>1 DEF HeadersAre
<1> QED
  BY <1>2 DEF DirectoryIs

\* What is on the disk stays there under a write behind it.
LEMMA CellsStay ==
    ASSUME NEW d, IsSeq(d), NEW p \in Nat, NEW more, IsSeq(more),
           NEW q \in Nat, NEW cells, IsSeq(cells), CellsAt(d, q, cells),
           q + Len(cells) <= p
    PROVE  CellsAt(WriteAt(d, p, more), q, cells)
<1> SUFFICES ASSUME NEW j \in 1..Len(cells)
             PROVE  At(WriteAt(d, p, more), q + j - 1) = cells[j]
  BY DEF CellsAt
<1>1. Len(cells) \in Nat /\ Len(more) \in Nat
  BY LenIsNat
<1>2. q + j - 1 \in Nat /\ ~(p <= q + j - 1)
  BY <1>1
<1>3. At(WriteAt(d, p, more), q + j - 1) = At(d, q + j - 1)
  BY <1>2, WriteAtCells
<1> QED
  BY <1>3 DEF CellsAt

\* What is written is there.
LEMMA CellsWritten ==
    ASSUME NEW d, IsSeq(d), NEW p \in Nat, NEW cells, IsSeq(cells)
    PROVE  CellsAt(WriteAt(d, p, cells), p, cells)
<1> SUFFICES ASSUME NEW j \in 1..Len(cells)
             PROVE  At(WriteAt(d, p, cells), p + j - 1) = cells[j]
  BY DEF CellsAt
<1>1. Len(cells) \in Nat
  BY LenIsNat
<1> DEFINE q == p + j - 1
<1>2. q \in Nat /\ p <= q /\ q < p + Len(cells) /\ q - p + 1 = j
  BY <1>1
<1> HIDE DEF q
<1>3. At(WriteAt(d, p, cells), q) = cells[q - p + 1]
  BY <1>2, WriteAtCells
<1> QED
  BY <1>2, <1>3 DEF q

\* A write behind the headers keeps them.
LEMMA DirectoryStays ==
    ASSUME NEW d, IsSeq(d), NEW fs, NEW n \in Nat, NEW start, NEW p \in Nat,
           NEW g, HeadersAre(d, fs, n, start, p, g), NEW more, IsSeq(more)
    PROVE  HeadersAre(WriteAt(d, p, more), fs, n, start, p, g)
<1>1. ASSUME NEW k \in 1..n
      PROVE  CellsAt(WriteAt(d, p, more), g[k], CentralHeader(fs[k]))
  <2>1. k \in 1..n + 1 /\ k + 1 \in 1..n + 1
    OBVIOUS
  <2>2. g[k] \in Nat
    BY <2>1 DEF HeadersAre
  <2>3. /\ IsSeq(CentralHeader(fs[k])) /\ CellsAt(d, g[k], CentralHeader(fs[k]))
        /\ g[k] + Len(CentralHeader(fs[k])) <= p
    BY DEF HeadersAre
  <2> QED
    BY <2>2, <2>3, CellsStay
<1> QED
  BY <1>1 DEF HeadersAre

\* One header more.
LEMMA DirectoryGrows ==
    ASSUME NEW d, IsSeq(d), NEW fs, NEW n \in Nat, NEW start, NEW p \in Nat,
           DirectoryIs(d, fs, n, start, p), NEW h, h = CentralHeader(fs[n + 1]),
           IsSeq(h)
    PROVE  DirectoryIs(WriteAt(d, p, h), fs, n + 1, start, p + Len(h))
<1> DEFINE e == WriteAt(d, p, h)
           q == p + Len(h)
<1>1. Len(h) \in Nat /\ q \in Nat /\ p <= q /\ start \in 0..q
  BY LenIsNat DEF DirectoryIs
<1>2. PICK g : HeadersAre(d, fs, n, start, p, g)
  BY DEF DirectoryIs
<1>3. HeadersAre(e, fs, n, start, p, g)
  BY <1>2, DirectoryStays
<1>4. CellsAt(e, p, h)
  BY CellsWritten
<1> HIDE DEF e
<1> DEFINE f == [k \in 1..n + 1 + 1 |-> IF k = n + 1 + 1 THEN q ELSE g[k]]
<1>5. \A k \in 1..n + 1 : k # n + 1 + 1 /\ k \in 1..n + 1 + 1
  OBVIOUS
<1>6. \A k \in 1..n + 1 : f[k] = g[k] /\ g[k] \in Nat
  BY <1>3, <1>5 DEF HeadersAre
<1>7. f[n + 1 + 1] = q
  OBVIOUS
<1>8. f \in [1..n + 1 + 1 -> Nat]
  <2>1. ASSUME NEW k \in 1..n + 1 + 1
        PROVE  (IF k = n + 1 + 1 THEN q ELSE g[k]) \in Nat
    <3>1. k = n + 1 + 1 \/ k \in 1..n + 1
      OBVIOUS
    <3> QED
      BY <1>1, <1>6, <3>1
  <2> QED
    BY <2>1
<1> HIDE DEF f
<1>9. f[1] = start /\ f[n + 1] = p
  BY <1>3, <1>6 DEF HeadersAre
<1>10. ASSUME NEW k \in 1..n + 1
       PROVE  /\ IsSeq(CentralHeader(fs[k])) /\ CellsAt(e, f[k], CentralHeader(fs[k]))
              /\ f[k + 1] = f[k] + Len(CentralHeader(fs[k])) /\ f[k + 1] <= q
  <2>1. CASE k = n + 1
    BY <1>1, <1>4, <1>7, <1>9, <2>1 DEF q
  <2>2. CASE k # n + 1
    <3>1. k \in 1..n /\ k \in 1..n + 1 /\ k + 1 \in 1..n + 1
      BY <2>2
    <3>2. f[k] = g[k] /\ f[k + 1] = g[k + 1] /\ g[k + 1] \in Nat
      BY <1>6, <3>1
    <3>3. /\ IsSeq(CentralHeader(fs[k])) /\ CellsAt(e, g[k], CentralHeader(fs[k]))
          /\ g[k + 1] = g[k] + Len(CentralHeader(fs[k])) /\ g[k + 1] <= p
      BY <1>3, <3>1 DEF HeadersAre
    <3>4. g[k + 1] <= q
      BY <1>1, <3>2, <3>3
    <3> QED
      BY <3>2, <3>3, <3>4
  <2> QED
    BY <2>1, <2>2
<1> HIDE DEF q
<1>11. HeadersAre(e, fs, n + 1, start, q, f)
  BY <1>7, <1>8, <1>9, <1>10 DEF HeadersAre
<1> QED
  BY <1>1, <1>11 DEF DirectoryIs, e, q

\* What finish_file and start_entry leave alone, what finalize has written of
\* the directory, and what a successful call of it leaves behind.
ArchiveIs(start, end) ==
    LET er == EndRecords(Len(files), start, end - start, comment) IN
    /\ start \in Nat /\ end \in Nat
    /\ DirectoryIs(disk, files, Len(files), start, end)
    /\ IsSeq(er) /\ CellsAt(disk, end, er) /\ pos = end + Len(er)

CentralInv ==
    /\ "central_start" \in DOMAIN call
    /\ pc \notin {"idle", "central"} => call.headers = 0
    /\ pc = "central" =>
         /\ call.headers \in 0..Len(files)
         /\ DirectoryIs(disk, files, call.headers, CentralStart, pos)
    /\ Committed => \E start, end : ArchiveIs(start, end)

\* A step that writes nothing of the directory: the call is a new one, or no
\* header was written for it.
LEMMA NoDirectoryYet ==
    ASSUME PromiseInv', "central_start" \in DOMAIN call',
           call'.headers = 0 \/ pc' = "idle", ~Committed'
    PROVE  CentralInv'
<1>1. pos' \in Nat /\ Len(files') \in Nat
  BY LenIsNat DEF PromiseInv, SinkInv, VectorsOK, IInv, TypeOK
<1>2. CASE pc' = "idle"
  BY <1>2 DEF CentralInv
<1>3. CASE call'.headers = 0
  <2>1. CentralStart' = pos'
    BY <1>3 DEF CentralStart
  <2>2. DirectoryIs(disk', files', 0, pos', pos')
    BY <1>1, DirectoryStarts
  <2>3. DirectoryIs(disk, files, call.headers, CentralStart, pos)'
    BY <1>3, <2>1, <2>2
  <2> QED
    BY <1>1, <1>3, <2>3 DEF CentralInv
<1> QED
  BY <1>2, <1>3

\* The calls that begin are new.
LEMMA CallsAreNew ==
    ASSUME \/ StartFile \/ StartFileWithExtraData \/ StartFileAligned
           \/ AddDirectory \/ AddSymlink \/ RawCopyFile
           \/ EndExtraData \/ EndLocalStartCentralExtraData
           \/ Finish \/ SetComment \/ Drop
    PROVE  "central_start" \in DOMAIN call' /\ call'.headers = 0
<1>1. CASE StartFile \/ StartFileWithExtraData
  BY <1>1 DEF StartFile, StartFileWithExtraData, AddEntry, Begin, NoCall
<1>2. CASE StartFileAligned \/ AddDirectory
  BY <1>2 DEF StartFileAligned, AddDirectory, AddEntry, Begin, NoCall
<1>3. CASE AddSymlink \/ RawCopyFile
  BY <1>3 DEF AddSymlink, RawCopyFile, AddEntry, Begin, NoCall
<1>4. CASE EndExtraData \/ EndLocalStartCentralExtraData \/ Finish
  BY <1>4 DEF EndExtraData, EndLocalStartCentralExtraData, Finish, Begin, NoCall
<1>5. CASE SetComment \/ Drop
  <2>1. CASE SetComment
    BY <2>1 DEF SetComment, NoCall
  <2>2. CASE Drop
    <3>1. PICK u : call' = [NoCall EXCEPT !.op = "drop", !.unwinding = u]
      BY <2>2 DEF Drop
    <3> QED
      BY <3>1 DEF NoCall
  <2> QED
    BY <1>5, <2>1, <2>2
<1> QED
  BY <1>1, <1>2, <1>3, <1>4, <1>5

\* Every other step but finalize's goes on with the call or returns from it.
LEMMA CallsGoOn ==
    ASSUME CentralInv,
           \/ Write \/ WriteRefused \/ Flush
           \/ ExtraRefused \/ EndCentralExtra \/ EndLocalExtraPanics \/ EndLocalExtra
           \/ SwitchStored \/ FinishCrypto \/ KeepHeader \/ UpdateHeader
           \/ StartEntry \/ CopyRaw \/ WriteTarget
    PROVE  "central_start" \in DOMAIN call' /\ (call'.headers = 0 \/ pc' = "idle")
<1>1. CASE Write
  BY <1>1 DEF Write, WriteData, Return, Fail, CentralInv
<1>2. CASE WriteRefused \/ Flush
  BY <1>2 DEF WriteRefused, Flush, Return, CentralInv
<1>3. CASE ~(Write \/ WriteRefused \/ Flush)
  <2>1. pc \notin {"idle", "central"}
    BY <1>3 DEF ExtraRefused, EndCentralExtra, EndLocalExtraPanics, EndLocalExtra,
         EndingLocalExtra, ExtraSteps, SwitchStored, FinishCrypto, KeepHeader,
         UpdateHeader, StartEntry, CopyRaw, WriteTarget
  <2>2. UNCHANGED call
    <3>1. CASE ExtraRefused \/ EndCentralExtra \/ EndLocalExtraPanics
      BY <3>1 DEF ExtraRefused, EndCentralExtra, EndLocalExtraPanics, ExtraEnded,
                  Fail, Panic, Return, Goto
    <3>2. CASE EndLocalExtra
      BY <3>2 DEF EndLocalExtra, ExtraEnded, Fail, Panic, Return, Goto
    <3>3. CASE SwitchStored \/ FinishCrypto \/ KeepHeader \/ UpdateHeader
      BY <3>3 DEF SwitchStored, FinishCrypto, KeepHeader, UpdateHeader,
                  Fail, Panic, Goto
    <3>4. CASE StartEntry
      BY <3>4 DEF StartEntry, Started, FileStarted, ExtraDataStarted,
                  DirectoryAdded, SymlinkStarted, RawCopyStarted, Fail, Return, Goto
    <3>5. CASE CopyRaw \/ WriteTarget
      BY <3>5 DEF CopyRaw, WriteTarget, WriteData, Fail, Return
    <3> QED
      BY <1>3, <3>1, <3>2, <3>3, <3>4, <3>5
  <2> QED
    BY <2>1, <2>2 DEF CentralInv
<1> QED
  BY <1>1, <1>2, <1>3

\* The central header of an entry is a vector.
LEMMA CentralHeaderIsSeq ==
    ASSUME NEW f, IsSeq(f.extra_field)
    PROVE  IsSeq(CentralHeader(f))
<1>1. IsSeq(CentralExtra(f))
  BY EmptyIsSeq, SingleIsSeq, ConcatIsSeq DEF CentralExtra
<1> QED
  BY <1>1, SingleIsSeq, ConcatIsSeq DEF CentralHeader

\* The next header goes behind the ones before it.
LEMMA WriteCentralHeaderCentral ==
    ASSUME PromiseInv, PromiseInv', CentralInv, WriteCentralHeader, ~Committed'
    PROVE  CentralInv'
<1> DEFINE h == CentralHeader(files[call.headers + 1])
           next == [call EXCEPT !.headers = @ + 1, !.central_start = CentralStart]
<1>1. pc = "central" /\ call.headers < Len(files) /\ UNCHANGED files
  BY DEF WriteCentralHeader, dataVars
<1>2. CASE Panic \/ Fail
  <2>1. pc' = "idle" /\ UNCHANGED call
    BY <1>2 DEF Panic, Fail
  <2> QED
    BY <2>1, NoDirectoryYet DEF CentralInv
<1>3. CASE /\ Succeeds(WriteTrace(disk, pos, h)) /\ call' = next
           /\ UNCHANGED <<pc, result, status>>
  <2>1. /\ call.headers \in 0..Len(files)
        /\ DirectoryIs(disk, files, call.headers, CentralStart, pos)
        /\ "central_start" \in DOMAIN call
    BY <1>1 DEF CentralInv
  <2>2. /\ IsSeq(disk) /\ pos \in Nat /\ EntriesOK /\ CallOK(call)
        /\ IsSeq(files)
    BY DEF PromiseInv, SinkInv, VectorsOK, IInv, TypeOK
  <2>3. call.headers \in Nat /\ call.headers + 1 \in 1..Len(files)
        /\ Len(files) \in Nat
    BY <1>1, <2>1, <2>2, LenIsNat
  <2>4. IsSeq(h)
    BY <2>2, <2>3, CentralHeaderIsSeq DEF EntriesOK, IsEntry
  <2>5. DirectoryIs(WriteAt(disk, pos, h), files, call.headers + 1, CentralStart,
                    pos + Len(h))
    BY <2>1, <2>2, <2>3, <2>4, DirectoryGrows
  <2>6. disk' = WriteAt(disk, pos, h) /\ pos' = pos + Len(h)
    <3> DEFINE trace == WriteTrace(disk, pos, h)
    <3> HIDE DEF h
    <3>1. /\ Len(h) \in Nat /\ Len(trace) = Len(h) + 1
          /\ trace[Len(h) + 1] = <<WriteAt(disk, pos, h), pos + Len(h)>>
      BY <2>2, <2>4, WriteTraceEnds
    <3> HIDE DEF trace
    <3>2. trace[Len(trace)] = <<WriteAt(disk, pos, h), pos + Len(h)>>
      BY <3>1
    <3>3. Succeeds(trace)
      BY <1>3 DEF trace
    <3> QED
      BY <3>2, <3>3 DEF Succeeds, MoveSink
  <2>7. /\ call'.headers = call.headers + 1 /\ call'.central_start = CentralStart
        /\ "central_start" \in DOMAIN call'
    <3> DEFINE s == CentralStart
    <3> HIDE DEF s
    <3>1. "headers" \in DOMAIN call
      BY <2>2 DEF CallOK
    <3>2. call' = [call EXCEPT !.headers = @ + 1, !.central_start = s]
      BY <1>3 DEF s
    <3> QED
      BY <2>1, <3>1, <3>2 DEF s
  <2>8. CentralStart' = CentralStart
    BY <2>3, <2>7 DEF CentralStart
  <2> HIDE DEF h, next
  <2>9. DirectoryIs(disk, files, call.headers, CentralStart, pos)'
    BY <1>1, <2>5, <2>6, <2>7, <2>8
  <2> QED
    BY <1>1, <1>3, <2>3, <2>7, <2>9 DEF CentralInv
<1> QED
  BY <1>2, <1>3 DEF WriteCentralHeader

\* The end records behind the directory make the archive.
LEMMA WriteEndRecordsCentral ==
    ASSUME PromiseInv, PromiseInv', CentralInv, WriteEndRecords
    PROVE  CentralInv'
<1> DEFINE er == EndRecords(Len(files), CentralStart, pos - CentralStart, comment)
           trace == Still(WriteTrace(disk, pos, er))
<1>1. pc = "central" /\ call.headers = Len(files) /\ UNCHANGED <<call, files, comment>>
      /\ pc' = "idle"
  BY DEF WriteEndRecords, dataVars, Fail
<1>2. /\ DirectoryIs(disk, files, Len(files), CentralStart, pos)
      /\ "central_start" \in DOMAIN call
  BY <1>1 DEF CentralInv
<1>3. CASE Fail
  <2>1. ~Committed'
    BY <1>3 DEF Fail, Committed
  <2> QED
    BY <1>1, <1>2, <2>1, NoDirectoryYet
<1>4. CASE Succeeds(trace)
  <2>1. /\ SinkInv /\ IsSeq(disk) /\ pos \in Nat /\ IsSeq(comment) /\ IsSeq(files)
        /\ Len(files) \in Nat
    BY LenIsNat DEF PromiseInv, SinkInv, VectorsOK, IInv, TypeOK
  <2>2. IsSeq(er) /\ Len(er) \in Nat
    BY <2>1, EndRecordsCells, LenIsNat
  <2> DEFINE start == CentralStart
  <2>3. start \in Nat
    BY <1>2, <2>1 DEF DirectoryIs
  <2> HIDE DEF er
  <2>4. trace[Len(trace)] = <<WriteAt(disk, pos, er), pos + Len(er)>>
    BY <2>1, <2>2, WriteHereEnds
  <2> HIDE DEF trace
  <2>5. disk' = WriteAt(disk, pos, er) /\ pos' = pos + Len(er)
    BY <1>4, <2>4 DEF Succeeds, MoveSink
  <2>6. CellsAt(disk', pos, er)
    BY <2>1, <2>2, <2>5, CellsWritten
  <2>7. DirectoryIs(disk', files, Len(files), start, pos)
    BY <1>2, <2>1, <2>2, <2>5, DirectoryStays DEF DirectoryIs
  <2>8. PICK s, p : s = start /\ p = pos
    OBVIOUS
  <2> HIDE DEF start
  <2>9. er = EndRecords(Len(files), s, p - s, comment)
    BY <2>8 DEF er, start
  <2>10. ArchiveIs(s, p)'
    BY <1>1, <2>1, <2>2, <2>3, <2>5, <2>6, <2>7, <2>8, <2>9 DEF ArchiveIs
  <2> QED
    BY <1>1, <1>2, <2>10 DEF CentralInv
<1> QED
  BY <1>3, <1>4 DEF WriteEndRecords

\* A finished writer stands where it finished, and commits nothing again.
LEMMA FinishedCommitsNot ==
    ASSUME PromiseInv, status = "finished", Next
    PROVE  ~Committed' /\ ~(WriteCentralHeader \/ WriteEndRecords)
<1>1. IInv /\ IsClosed(inner) /\ ~writing_to_extra_field
  BY DEF PromiseInv, SinkInv, Ended
<1>2. /\ ~IsPlain(inner)
      /\ pc \notin {"finish_crypto", "update_header", "local_header", "central",
                    "copy", "target"}
  BY <1>1 DEF IInv, GetPlainSafe, SafeAt, IsClosed, IsPlain
<1>3. status' # "dropped"
  BY FinishedStep
<1>4. CASE \/ StartFile \/ StartFileWithExtraData \/ StartFileAligned
           \/ AddDirectory \/ AddSymlink \/ RawCopyFile
           \/ EndExtraData \/ EndLocalStartCentralExtraData \/ Finish
  <2>1. result' = "none"
    BY <1>4 DEF StartFile, StartFileWithExtraData, StartFileAligned,
         AddDirectory, AddSymlink, RawCopyFile, AddEntry,
         EndExtraData, EndLocalStartCentralExtraData, Finish, Begin
  <2> QED
    BY <1>2, <2>1 DEF Committed, WriteCentralHeader, WriteEndRecords
<1>5. CASE SetComment
  <2>1. call'.op = "none"
    BY <1>5 DEF SetComment, NoCall
  <2> QED
    BY <1>2, <1>3, <2>1 DEF Committed, WriteCentralHeader, WriteEndRecords
<1>6. CASE WriteRefused \/ Flush \/ ExtraRefused \/ SwitchStored
  <2>1. result' = "err"
    BY <1>1, <1>6 DEF WriteRefused, Flush, ExtraRefused, SwitchStored, Return, Fail
  <2> QED
    BY <1>2, <2>1 DEF Committed, WriteCentralHeader, WriteEndRecords
<1>7. CASE Drop \/ Write \/ EndCentralExtra \/ EndLocalExtra \/ EndLocalExtraPanics
  BY <1>1, <1>7 DEF Drop, Write, EndCentralExtra, EndLocalExtra,
       EndLocalExtraPanics, EndingLocalExtra, ExtraAccepted
<1>8. CASE \/ FinishCrypto \/ KeepHeader \/ UpdateHeader \/ StartEntry
           \/ CopyRaw \/ WriteTarget \/ WriteCentralHeader \/ WriteEndRecords
  BY <1>2, <1>8 DEF FinishCrypto, KeepHeader, UpdateHeader, StartEntry, CopyRaw,
                    WriteTarget, WriteCentralHeader, WriteEndRecords
<1> QED
  BY <1>4, <1>5, <1>6, <1>7, <1>8 DEF Next

\* Nothing but the end records commits an archive.
LEMMA LiveCommitsNot ==
    ASSUME PromiseInv, status = "live", Next, ~WriteEndRecords
    PROVE  ~Committed'
<1>1. LiveStep
  BY CallsLive, WriteLive, EndExtraLive, FinishFileLive, StartEntryLive DEF Next
<1> QED
  BY <1>1 DEF LiveStep, Goes, Shown, Committed

LEMMA NextCentral ==
    ASSUME PromiseInv, PromiseInv', CentralInv, Next
    PROVE  CentralInv'
<1>1. CASE WriteEndRecords
  BY <1>1, WriteEndRecordsCentral
<1>2. CASE ~WriteEndRecords
  <2>1. status \in {"live", "finished", "dropped", "aborted"}
    BY DEF PromiseInv, SinkInv, IInv, TypeOK
  <2>2. ~Committed'
    BY <1>2, <2>1, GoneStep, FinishedCommitsNot, LiveCommitsNot
  <2>3. CASE WriteCentralHeader
    BY <2>2, <2>3, WriteCentralHeaderCentral
  <2>4. CASE ~WriteCentralHeader
    <3>1. "central_start" \in DOMAIN call' /\ (call'.headers = 0 \/ pc' = "idle")
      BY <1>2, <2>4, CallsAreNew, CallsGoOn DEF Next
    <3> QED
      BY <2>2, <3>1, NoDirectoryYet
  <2> QED
    BY <2>3, <2>4
<1> QED
  BY <1>1, <1>2

LEMMA InitCentral == Init => CentralInv
<1> SUFFICES ASSUME Init PROVE CentralInv
  OBVIOUS
<1>1. pc = "idle" /\ status = "live" /\ call = NoCall
  BY DEF Init, New, NewAppend, InitWriter
<1>2. "central_start" \in DOMAIN call
  BY <1>1 DEF NoCall
<1> QED
  BY <1>1, <1>2 DEF CentralInv, Committed

\* What finalize has written stays as it wrote it.
LEMMA CentralInvariance == Spec => []CentralInv
<1>1. PromiseInv /\ PromiseInv' /\ CentralInv /\ [Next]_vars => CentralInv'
  <2> SUFFICES ASSUME PromiseInv, PromiseInv', CentralInv, [Next]_vars
               PROVE  CentralInv'
    OBVIOUS
  <2>1. CASE Next
    BY <2>1, NextCentral
  <2>2. CASE UNCHANGED vars
    BY <2>2 DEF CentralInv, ArchiveIs, CentralStart, Committed,
         vars, sinkVars, dataVars, callVars
  <2> QED
    BY <2>1, <2>2
<1> QED
  BY <1>1, InitCentral, PromiseInvariance, PTL DEF Spec

-----------------------------------------------------------------------------
(***************************************************************************)
(* The directory reads back.                                               *)
(***************************************************************************)
\* The last cell of a central header does not pass for a ZIP64 locator.
LEMMA LastCellIsNoLocator ==
    ASSUME NEW f, IsSeq(f.extra_field), ExtraReadable(f)
    PROVE  LET h == CentralHeader(f) IN Len(h) \in Nat /\ Len(h) >= 1
                                        /\ h[Len(h)][1] # "loc64"
<1> DEFINE h == CentralHeader(f)
           e == CentralExtra(f)
           x == f.extra_field
           z == IF HasZip64Record(f) THEN 1 ELSE 0
           pay == Zip64Payload(f.uncompressed_size, f.compressed_size,
                               f.header_start)
<1>1. /\ IsSeq(e) /\ Len(e) = z + Len(x) /\ Len(x) \in Nat
      /\ z = 1 => e[1] = <<"zip64", pay>>
      /\ \A j \in 1..Len(x) : e[z + j] = x[j]
  BY CentralExtraCells, LenIsNat
<1>2. PICK head : h = <<head>> \o e /\ head[1] = "central"
  BY DEF CentralHeader
<1>3. \A j \in 1..Len(x) : x[j][1] # "loc64"
  BY DEF ExtraReadable
<1>4. z \in {0, 1}
  OBVIOUS
<1> HIDE DEF h, e, x, z, pay
<1>5. /\ Len(h) = 1 + Len(e) /\ h[1] = head
      /\ \A j \in 1..Len(e) : h[1 + j] = e[j]
  BY <1>1, <1>2, HeadedCells
<1>6. h[Len(h)][1] # "loc64"
  <2>1. CASE Len(e) = 0
    BY <1>2, <1>5, <2>1
  <2>2. CASE Len(e) # 0
    <3>1. Len(e) \in 1..Len(e) /\ h[Len(h)] = e[Len(e)]
      BY <1>1, <1>4, <1>5, <2>2
    <3>2. CASE Len(x) = 0
      <4>1. z = 1 /\ Len(e) = 1
        BY <1>1, <1>4, <2>2, <3>2
      <4>2. h[Len(h)] = <<"zip64", pay>>
        BY <1>1, <3>1, <4>1
      <4> QED
        BY <4>2
    <3>3. CASE Len(x) # 0
      <4>1. Len(x) \in 1..Len(x)
        BY <1>1, <3>3
      <4>2. e[Len(e)] = x[Len(x)]
        BY <1>1, <4>1
      <4> QED
        BY <1>3, <3>1, <4>1, <4>2
    <3> QED
      BY <3>2, <3>3
  <2> QED
    BY <2>1, <2>2
<1> QED
  BY <1>1, <1>4, <1>5, <1>6 DEF h

\* The archive that finalize wrote ends as get_directory_counts expects.
LEMMA ArchiveEnds ==
    ASSUME PromiseInv, DirectoryReadable, NEW start, NEW end, ArchiveIs(start, end)
    PROVE  /\ start \in Nat /\ end - start \in Nat /\ end <= Len(disk)
           /\ EndsWith(disk, Len(files), start, end - start, comment)
<1> DEFINE n == Len(files)
           size == end - start
           er == EndRecords(n, start, size, comment)
           z == IF HasZip64End(n, start, size) THEN 2 ELSE 0
<1>1. /\ IsSeq(disk) /\ pos \in Nat /\ IsSeq(comment) /\ IsSeq(files) /\ EntriesOK
      /\ n \in Nat
  BY LenIsNat DEF PromiseInv, SinkInv, VectorsOK, IInv, TypeOK
<1>2. /\ start \in Nat /\ end \in Nat /\ start <= end
      /\ DirectoryIs(disk, files, n, start, end)
      /\ CellsAt(disk, end, er) /\ pos = end + Len(er)
  BY DEF ArchiveIs, DirectoryIs
<1>3. Len(er) = z + 1 + Len(comment) /\ Len(comment) \in Nat
  BY <1>1, EndRecordsCells
<1>4. size \in Nat /\ start + size = end
  BY <1>2
<1> HIDE DEF n, size, er
<1>5. z \in {0, 2} /\ (~HasZip64End(n, start, size) => z = 0)
  OBVIOUS
<1> HIDE DEF z
<1>6. Len(disk) = end + Len(er) /\ end <= Len(disk)
  BY <1>2, <1>3, <1>5 DEF DirectoryReadable
<1>7. ASSUME ~HasZip64End(n, start, size)
      PROVE  At(disk, end - 1)[1] # "loc64"
  <2>1. CASE files = << >>
    <3>1. pos - 2 - Len(comment) = end - 1
      BY <1>2, <1>3, <1>5, <1>7
    <3>2. PICK g : HeadersAre(disk, files, n, start, end, g)
      BY <1>2 DEF DirectoryIs
    <3>3. n = 0
      BY <2>1, EmptyIsSeq DEF n
    <3>4. start = end
      BY <3>2, <3>3 DEF HeadersAre
    <3>5. ~(end - 1 > ZIP64_BYTES_THR + 1)
      <4>1. Max({size, start}) = start
        BY <1>2, <1>4, <3>4, HighestIs
      <4> QED
        BY <1>2, <1>7, <3>4, <4>1, BytesThrAssumption DEF HasZip64End
    <3> QED
      BY <2>1, <3>1, <3>5 DEF DirectoryReadable
  <2>2. CASE files # << >>
    <3>1. PICK g : HeadersAre(disk, files, n, start, end, g)
      BY <1>2 DEF DirectoryIs
    <3>2. n \in 1..n /\ n \in 1..n + 1
      BY <1>1, <2>2, EmptyIsSeq DEF n
    <3> DEFINE h == CentralHeader(files[n])
    <3>3. g[n] \in Nat /\ g[n + 1] = end /\ CellsAt(disk, g[n], h)
          /\ g[n + 1] = g[n] + Len(h)
      BY <3>1, <3>2 DEF HeadersAre
    <3>4. IsSeq(files[n].extra_field) /\ ExtraReadable(files[n])
      BY <1>1, <3>2 DEF EntriesOK, IsEntry, DirectoryReadable, n
    <3>5. Len(h) \in Nat /\ Len(h) >= 1 /\ h[Len(h)][1] # "loc64"
      BY <3>4, LastCellIsNoLocator
    <3> HIDE DEF h
    <3>6. Len(h) \in 1..Len(h) /\ g[n] + Len(h) - 1 = end - 1
      BY <3>3, <3>5
    <3>7. At(disk, g[n] + Len(h) - 1) = h[Len(h)]
      BY <3>3, <3>6 DEF CellsAt
    <3> QED
      BY <3>5, <3>6, <3>7
  <2> QED
    BY <2>1, <2>2
<1>8. /\ \A j \in 1..Len(comment) : comment[j][1] # "end"
      /\ Len(comment) <= ZIP64_ENTRY_THR
  BY DEF DirectoryReadable
<1>9. EndsWith(disk, n, start, size, comment)
  BY <1>2, <1>4, <1>6, <1>7, <1>8 DEF EndsWith, er
<1> QED
  BY <1>2, <1>4, <1>6, <1>9 DEF n, size

\* ... and opens as what was recorded.
LEMMA ArchiveOpens ==
    ASSUME PromiseInv, CentralInv, Committed, DirectoryReadable
    PROVE  LET a == OpenArchive(disk)
           IN  /\ a.ok /\ a.comment = comment /\ Len(a.files) = Len(files)
               /\ \A i \in 1..Len(files) : RecordedAs(files[i], a.files[i])
<1> DEFINE n == Len(files)
<1>1. /\ IsSeq(disk) /\ IsSeq(comment) /\ IsSeq(files) /\ EntriesOK /\ n \in Nat
  BY LenIsNat DEF PromiseInv, SinkInv, VectorsOK, IInv, TypeOK
<1>2. PICK start, end : ArchiveIs(start, end)
  BY DEF CentralInv
<1> DEFINE size == end - start
           dir == [ok |-> TRUE, archive_offset |-> 0, start |-> start,
                   nfiles |-> n, comment |-> comment]
<1>3. /\ start \in Nat /\ size \in Nat /\ end <= Len(disk) /\ end \in Nat
      /\ EndsWith(disk, n, start, size, comment)
  BY <1>2, ArchiveEnds DEF ArchiveIs
<1> HIDE DEF size
<1>4. GetDirectoryCounts(disk) = dir
  BY <1>1, <1>3, EndRecordsAreFound
<1>5. PICK g : HeadersAre(disk, files, n, start, end, g)
  BY <1>2 DEF ArchiveIs, DirectoryIs
<1>6. ASSUME NEW k \in 1..n
      PROVE  /\ CentralHeaderOk(disk, g[k]) /\ CentralHeaderEnd(disk, g[k]) = g[k + 1]
             /\ RecordedAs(files[k], CentralHeaderToZipFile(disk, g[k], 0))
  <2>1. /\ CellsAt(disk, g[k], CentralHeader(files[k])) /\ g[k + 1] <= end
        /\ g[k + 1] = g[k] + Len(CentralHeader(files[k]))
    BY <1>5 DEF HeadersAre
  <2>2. k \in 1..n + 1 /\ k + 1 \in 1..n + 1
    BY <1>1
  <2>3. g[k] \in Nat /\ g[k + 1] \in Nat
    BY <1>5, <2>2 DEF HeadersAre
  <2>4. Len(disk) \in Nat
    BY <1>1, LenIsNat
  <2>5. g[k + 1] <= Len(disk)
    BY <1>3, <2>1, <2>3, <2>4
  <2>6. HeaderAt(disk, g[k], files[k])
    BY <2>1, <2>5 DEF HeaderAt
  <2>7. IsSeq(files[k].extra_field) /\ Legible(files[k]) /\ ExtraReadable(files[k])
    BY <1>1 DEF EntriesOK, IsEntry, DirectoryReadable
  <2> QED
    BY <1>1, <2>1, <2>3, <2>6, <2>7, CentralHeaderReadsBack
<1> DEFINE read == [k \in 1..n |-> CentralHeaderToZipFile(disk, g[k], 0)]
<1>7. OpenArchive(disk)
        = [ok |-> TRUE, comment |-> comment, start |-> start, files |-> read]
  <2>1. /\ dir.ok /\ dir.nfiles = n /\ dir.start = start /\ dir.archive_offset = 0
        /\ dir.comment = comment
    OBVIOUS
  <2>2. g \in [1..n + 1 -> Nat] /\ g[1] = dir.start
    BY <1>5, <2>1 DEF HeadersAre
  <2>3. \A k \in 1..n : /\ CentralHeaderOk(disk, g[k])
                        /\ CentralHeaderEnd(disk, g[k]) = g[k + 1]
    BY <1>6
  <2>4. n \in Nat /\ GetDirectoryCounts(disk) = dir
    BY <1>1, <1>4
  <2> HIDE DEF dir, n
  <2>5. HeadersFollow(disk, n, dir, g)
    BY <2>1, <2>2, <2>3, <2>4 DEF HeadersFollow
  <2>6. OpenArchive(disk) =
          [ok |-> TRUE, comment |-> dir.comment, start |-> dir.start,
           files |-> [k \in 1..n |->
               CentralHeaderToZipFile(disk, g[k], dir.archive_offset)]]
    BY <2>5, HeadersAreOpened DEF OpensAs
  <2> QED
    BY <2>1, <2>6
<1>8. Len(read) = n /\ \A k \in 1..n : RecordedAs(files[k], read[k])
  <2>1. \A k \in 1..n : read[k] = CentralHeaderToZipFile(disk, g[k], 0)
    OBVIOUS
  <2>2. read = [k \in 1..n |-> read[k]]
    OBVIOUS
  <2> HIDE DEF read
  <2>3. Len(read) = n
    BY <1>1, <2>2, FunctionIsSeq
  <2> QED
    BY <1>6, <2>1, <2>3
<1> HIDE DEF read
<1> QED
  BY <1>7, <1>8

\* Whenever finish or drop succeeds, whatever calls were refused or failed,
\* panicked or were tried again before, and whatever torn directory or old
\* archive is in front, ZipArchive::new opens what is on the disk and finds
\* there the entries in their order, with their names, methods, encryption
\* flags, checksums, sizes, offsets and extra fields, and the comment: through
\* the ZIP64 records where a limit is crossed, for all limits and any number of
\* entries.  DirectoryReadable says what must not be mistaken for something
\* else: it is what write.rs leaves unchecked.
THEOREM DirectoryIsRead == Spec => []DirectoryReads
<1>1. PromiseInv /\ CentralInv => DirectoryReads
  BY ArchiveOpens DEF DirectoryReads
<1> QED
  BY <1>1, PromiseInvariance, CentralInvariance, PTL
=============================================================================

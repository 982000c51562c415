--------------------------- MODULE Extract_proofs ---------------------------
(***************************************************************************)
(* Extraction: for every archive, every file system and every directory,   *)
(* nothing is made or changed outside the directory, what was gone past is *)
(* there, ordinary archives are not refused, and the extractors agree.     *)
(***************************************************************************)
EXTENDS Extract, Vectors_proofs

-----------------------------------------------------------------------------
(***************************************************************************)
(* Times (EntryMetadata): taken apart into the fields of a header, and put *)
(* together; there is less of a time in them than a second.                *)
(***************************************************************************)
\* A number of sixteen bits, taken apart and put together again.
LEMMA DateTakenApart ==
    ASSUME NEW n \in Nat
    PROVE  n = (n % 32) + 32 * ((n \div 32) % 16) + 512 * (n \div 512)
  OBVIOUS

LEMMA TimeTakenApart ==
    ASSUME NEW n \in Nat
    PROVE  n = (n % 32) + 32 * ((n \div 32) % 64) + 2048 * (n \div 2048)
  OBVIOUS

LEMMA U16IsNat ==
    ASSUME NEW n \in U16
    PROVE  n \in Nat /\ n <= 65535
<1>1. U16_MAX \in Nat
  BY DEF U16_MAX
<1>2. n \in Nat /\ n <= U16_MAX
  BY <1>1 DEF U16
<1> QED
  BY <1>2 DEF U16_MAX

\* Both constructors make a DateTime: any pair of sixteen-bit fields does, and
\* what from_date_and_time accepts is one.
LEMMA FromMsdosIsDateTime ==
    ASSUME NEW datepart \in U16, NEW timepart \in U16
    PROVE  FromMsdos(datepart, timepart) \in DateTime
<1>1. datepart \in Nat /\ datepart <= 65535
  BY U16IsNat
<1>2. timepart \in Nat /\ timepart <= 65535
  BY U16IsNat
<1>3. /\ datepart \div 512 \in 0..127
      /\ datepart \div 32 \in Nat
      /\ datepart % 32 \in 0..31
  BY <1>1
<1>4. /\ timepart \div 2048 \in 0..31
      /\ timepart \div 32 \in Nat
      /\ timepart % 32 \in 0..31
  BY <1>2
<1>5. (datepart \div 32) % 16 \in 0..15
  BY <1>3
<1>6. (timepart \div 32) % 64 \in 0..63
  BY <1>4
<1>7. 2 * (timepart % 32) \in 0..63
  BY <1>4
<1>8. datepart \div 512 + 1980 \in 1980..2107
  BY <1>3
<1>9. QED
  BY <1>3, <1>4, <1>5, <1>6, <1>7, <1>8 DEF FromMsdos, DateTime

LEMMA InMsdosRangeIsDateTime ==
    ASSUME NEW d \in [year : Nat, month : Nat, day : Nat,
                      hour : Nat, minute : Nat, second : Nat],
           InMsdosRange(d)
    PROVE  d \in DateTime
<1>1. /\ d.year \in 1980..2107 /\ d.month \in 0..15 /\ d.day \in 0..31
      /\ d.hour \in 0..31 /\ d.minute \in 0..63 /\ d.second \in 0..63
  BY DEF InMsdosRange
<1>2. QED
  BY <1>1 DEF DateTime

\* What DatePart and TimePart keep of a DateTime, field by field.
LEMMA DateFields ==
    ASSUME NEW d \in DateTime
    PROVE  /\ DatePart(d) \in Nat /\ DatePart(d) <= 65535
           /\ DatePart(d) % 32 = d.day
           /\ (DatePart(d) \div 32) % 16 = d.month
           /\ DatePart(d) \div 512 = d.year - 1980
<1> DEFINE low  == d.day
           month == d.month
           high  == d.year - 1980
           n == DatePart(d)
<1>1. /\ low \in Nat /\ low <= 31
      /\ month \in Nat /\ month <= 15
      /\ high \in Nat /\ high <= 127
  BY DEF DateTime
<1>2. n = low + 32 * month + 512 * high
  BY DEF DatePart
<1> HIDE DEF low, month, high, n
<1>3. n \in Nat /\ n <= 65535
  BY <1>1, <1>2
<1>4. n % 32 = low /\ n \div 32 = month + 16 * high
  BY <1>1, <1>2, <1>3
<1>5. (n \div 32) % 16 = month /\ n \div 512 = high
  BY <1>1, <1>3, <1>4
<1>6. QED
  BY <1>3, <1>4, <1>5 DEF low, month, high, n

LEMMA TimeFields ==
    ASSUME NEW d \in DateTime
    PROVE  /\ TimePart(d) \in Nat /\ TimePart(d) <= 65535
           /\ TimePart(d) % 32 = d.second \div 2
           /\ (TimePart(d) \div 32) % 64 = d.minute
           /\ TimePart(d) \div 2048 = d.hour
<1> DEFINE low  == d.second \div 2
           minute == d.minute
           high  == d.hour
           n == TimePart(d)
<1>1. /\ low \in Nat /\ low <= 31
      /\ minute \in Nat /\ minute <= 63
      /\ high \in Nat /\ high <= 31
  BY DEF DateTime
<1>2. n = low + 32 * minute + 2048 * high
  BY DEF TimePart
<1> HIDE DEF low, minute, high, n
<1>3. n \in Nat /\ n <= 65535
  BY <1>1, <1>2
<1>4. n % 32 = low /\ n \div 32 = minute + 64 * high
  BY <1>1, <1>2, <1>3
<1>5. (n \div 32) % 64 = minute /\ n \div 2048 = high
  BY <1>1, <1>3, <1>4
<1>6. QED
  BY <1>3, <1>4, <1>5 DEF low, minute, high, n

\* A time written to an archive reads back as it was, to an even second below
\* it: the format's "resolution of 2 seconds" (types.rs 81) is all that is lost
\* of any time either constructor makes, and the shifts of datepart and
\* timepart (types.rs 186-193) stay within their sixteen bits.
THEOREM TimeSurvivesArchive ==
    ASSUME NEW d \in DateTime
    PROVE  /\ DatePart(d) <= 65535 /\ TimePart(d) <= 65535
           /\ FromMsdos(DatePart(d), TimePart(d)) = [d EXCEPT !.second = 2 * (@ \div 2)]
<1>1. d = [year |-> d.year, month |-> d.month, day |-> d.day,
           hour |-> d.hour, minute |-> d.minute, second |-> d.second]
      /\ d.year \in Int
  BY DEF DateTime
<1>2. [d EXCEPT !.second = 2 * (@ \div 2)] =
         [year |-> d.year, month |-> d.month, day |-> d.day,
          hour |-> d.hour, minute |-> d.minute, second |-> 2 * (d.second \div 2)]
  BY <1>1
<1> DEFINE date == DatePart(d)
           time == TimePart(d)
<1>3. /\ date \div 512 = d.year - 1980 /\ (date \div 32) % 16 = d.month
      /\ date % 32 = d.day /\ date <= 65535
  BY DateFields
<1>4. /\ time \div 2048 = d.hour /\ (time \div 32) % 64 = d.minute
      /\ time % 32 = d.second \div 2 /\ time <= 65535
  BY TimeFields
<1> HIDE DEF date, time
<1>5. date \div 512 + 1980 = d.year
  BY <1>1, <1>3
<1>6. FromMsdos(date, time) =
         [year |-> d.year, month |-> d.month, day |-> d.day,
          hour |-> d.hour, minute |-> d.minute, second |-> 2 * (d.second \div 2)]
  BY <1>3, <1>4, <1>5 DEF FromMsdos
<1>7. QED
  BY <1>2, <1>3, <1>4, <1>6 DEF date, time

\* The fields of an entry that is copied from one archive to another, as
\* raw_copy_file does it through a DateTime, are the same afterwards, whatever
\* they were.
THEOREM FieldsSurviveCopy ==
    ASSUME NEW datepart \in U16, NEW timepart \in U16
    PROVE  LET d == FromMsdos(datepart, timepart)
           IN  DatePart(d) = datepart /\ TimePart(d) = timepart
<1> DEFINE d == FromMsdos(datepart, timepart)
<1>1. datepart \in Nat
  BY U16IsNat
<1>2. timepart \in Nat
  BY U16IsNat
<1>3. /\ d.year = datepart \div 512 + 1980 /\ d.month = (datepart \div 32) % 16
      /\ d.day = datepart % 32
  BY DEF FromMsdos
<1>4. /\ d.hour = timepart \div 2048 /\ d.minute = (timepart \div 32) % 64
      /\ d.second = 2 * (timepart % 32)
  BY DEF FromMsdos
<1> HIDE DEF d
<1>5. DatePart(d) = (datepart % 32) + 32 * ((datepart \div 32) % 16) + 512 * (datepart \div 512)
  <2>1. d.year - 1980 = datepart \div 512
    BY <1>1, <1>3
  <2>2. QED
    BY <1>3, <2>1 DEF DatePart
<1>6. TimePart(d) = (timepart % 32) + 32 * ((timepart \div 32) % 64) + 2048 * (timepart \div 2048)
  <2>1. d.second \div 2 = timepart % 32
    BY <1>2, <1>4
  <2>2. QED
    BY <1>4, <2>1 DEF TimePart
<1>7. DatePart(d) = datepart
  BY <1>1, <1>5, DateTakenApart
<1>8. TimePart(d) = timepart
  BY <1>2, <1>6, TimeTakenApart
<1>9. QED
  BY <1>7, <1>8 DEF d

-----------------------------------------------------------------------------
(***************************************************************************)
(* Loops.  Each is given as FoldLeft defines it, over the sets of indices, *)
(* and then as it runs.                                                    *)
(***************************************************************************)
\* The highest of the indices up to one of them.
LEMMA HighestIndex ==
    ASSUME NEW n \in Nat, NEW s \in SUBSET (1..n + 1), n + 1 \in s
    PROVE  Max(s) = n + 1
<1>1. \A x \in s : x \in Int /\ n + 1 >= x
  OBVIOUS
<1>2. \A x \in s : (\A y \in s : x >= y) => x = n + 1
  BY <1>1
<1> QED
  BY <1>1, <1>2 DEF Max

LEMMA FirstIndices ==
    ASSUME NEW k \in Nat
    PROVE  /\ 1..k + 1 # {} /\ Max(1..k + 1) = k + 1
           /\ (1..k + 1) \ {k + 1} = 1..k
<1>1. 1..k + 1 \in SUBSET (1..k + 1) /\ k + 1 \in 1..k + 1
  OBVIOUS
<1>2. Max(1..k + 1) = k + 1
  BY <1>1, HighestIndex
<1>3. \A i : i \in (1..k + 1) \ {k + 1} <=> i \in 1..k
  OBVIOUS
<1>4. (1..k + 1) \ {k + 1} = 1..k
  BY <1>3, Zenon
<1> QED
  BY <1>1, <1>2, <1>4

\* The components of a path, one after the other (Normal).
IsNormalised(g, path, n) ==
    g = [s \in SUBSET (1..n) |->
           IF s = {} THEN << >> ELSE Walk(g[s \ {Max(s)}], path[Max(s)])]

LEMMA NormalisedExists ==
    ASSUME NEW path, NEW n \in Nat
    PROVE  \E g : IsNormalised(g, path, n)
<1> DEFINE S == {m \in Nat : \E g : IsNormalised(g, path, m)}
           Step(g, s) ==
             IF s = {} THEN << >> ELSE Walk(g[s \ {Max(s)}], path[Max(s)])
<1>1. 0 \in S
  <2> DEFINE g == [s \in SUBSET (1..0) |-> << >>]
  <2>1. \A s \in SUBSET (1..0) : s = {}
    OBVIOUS
  <2>2. IsNormalised(g, path, 0)
    BY <2>1 DEF IsNormalised
  <2> QED
    BY <2>2
<1>2. ASSUME NEW m \in Nat, m \in S PROVE m + 1 \in S
  <2>1. PICK g : IsNormalised(g, path, m)
    BY <1>2
  <2> DEFINE h == [s \in SUBSET (1..m + 1) |->
                     IF m + 1 \in s
                     THEN Walk(g[s \ {m + 1}], path[m + 1]) ELSE g[s]]
  <2>2. \A s \in SUBSET (1..m + 1) : m + 1 \notin s => s \in SUBSET (1..m)
    OBVIOUS
  <2>3. ASSUME NEW s \in SUBSET (1..m + 1) PROVE h[s] = Step(h, s)
    <3>1. CASE m + 1 \in s
      <4>1. Max(s) = m + 1 /\ s # {}
        BY <3>1, HighestIndex
      <4>2. s \ {m + 1} \in SUBSET (1..m + 1) /\ m + 1 \notin s \ {m + 1}
        OBVIOUS
      <4>3. /\ h[s] = Walk(g[s \ {m + 1}], path[m + 1])
            /\ h[s \ {m + 1}] = g[s \ {m + 1}]
        BY <3>1, <4>2
      <4> HIDE DEF h
      <4> QED
        BY <4>1, <4>3
    <3>2. CASE m + 1 \notin s
      <4>1. s \ {Max(s)} \in SUBSET (1..m + 1) /\ m + 1 \notin s \ {Max(s)}
        BY <3>2
      <4>2. h[s] = g[s] /\ h[s \ {Max(s)}] = g[s \ {Max(s)}]
        BY <3>2, <4>1
      <4>3. g[s] = Step(g, s)
        BY <2>1, <2>2, <3>2 DEF IsNormalised
      <4> HIDE DEF h
      <4> QED
        BY <4>2, <4>3
    <3> QED
      BY <3>1, <3>2
  <2>4. h = [s \in SUBSET (1..m + 1) |-> h[s]]
    OBVIOUS
  <2> HIDE DEF h
  <2>5. IsNormalised(h, path, m + 1)
    BY <2>3, <2>4 DEF IsNormalised
  <2> QED
    BY <2>5
<1> HIDE DEF S
<1>3. n \in S
  BY <1>1, <1>2, Induction
<1> QED
  BY <1>3 DEF S

\* What it is step by step, for a sequence of n elements.
LEMMA NormalisedSteps ==
    ASSUME NEW path, NEW n \in Nat, DOMAIN path = 1..n
    PROVE  \E v : /\ v[0] = << >> /\ Normal(path) = v[n]
                 /\ \A k \in Nat : k < n =>
                      v[k + 1] = Walk(v[k], path[k + 1])
<1> DEFINE iter[s \in SUBSET (1..n)] ==
             IF s = {} THEN << >> ELSE Walk(iter[s \ {Max(s)}], path[Max(s)])
           v == [k \in 0..n |-> iter[1..k]]
<1>1. IsNormalised(iter, path, n)
  <2>1. iter = CHOOSE g : IsNormalised(g, path, n)
    BY DEF IsNormalised
  <2> HIDE DEF iter
  <2> QED
    BY <2>1, NormalisedExists, Zenon
<1>2. Normal(path) = iter[1..n]
  BY DEF Normal, FoldLeft, MapThenFoldSet
<1> HIDE DEF iter
<1>3. v[0] = << >>
  <2>1. 1..0 = {} /\ 1..0 \in SUBSET (1..n) /\ 0 \in 0..n
    OBVIOUS
  <2>2. iter[1..0] = << >>
    BY <1>1, <2>1 DEF IsNormalised
  <2> QED
    BY <2>1, <2>2
<1>4. ASSUME NEW k \in Nat, k < n
      PROVE  v[k + 1] = Walk(v[k], path[k + 1])
  <2> DEFINE s == 1..k + 1
  <2>1. s \in SUBSET (1..n) /\ k \in 0..n /\ k + 1 \in 0..n
    BY <1>4
  <2>2. s # {} /\ Max(s) = k + 1 /\ s \ {k + 1} = 1..k
    BY FirstIndices
  <2>3. v[k] = iter[1..k] /\ v[k + 1] = iter[s]
    BY <2>1
  <2> HIDE DEF s, v
  <2>4. iter[s] = IF s = {} THEN << >> ELSE Walk(iter[s \ {Max(s)}], path[Max(s)])
    BY <1>1, <2>1 DEF IsNormalised
  <2>5. iter[s] = Walk(iter[1..k], path[k + 1])
    BY <2>2, <2>4
  <2> QED
    BY <2>3, <2>5
<1>5. v[n] = iter[1..n]
  OBVIOUS
<1> HIDE DEF v
<1> QED
  BY <1>2, <1>3, <1>4, <1>5

\* The same through a file system (Reached).
IsWalked(g, t, path, n) ==
    g = [s \in SUBSET (1..n) |->
           IF s = {} THEN << >> ELSE Lookup(t, g[s \ {Max(s)}], path[Max(s)])]

LEMMA WalkedExists ==
    ASSUME NEW t, NEW path, NEW n \in Nat
    PROVE  \E g : IsWalked(g, t, path, n)
<1> DEFINE S == {m \in Nat : \E g : IsWalked(g, t, path, m)}
           Step(g, s) ==
             IF s = {} THEN << >> ELSE Lookup(t, g[s \ {Max(s)}], path[Max(s)])
<1>1. 0 \in S
  <2> DEFINE g == [s \in SUBSET (1..0) |-> << >>]
  <2>1. \A s \in SUBSET (1..0) : s = {}
    OBVIOUS
  <2>2. IsWalked(g, t, path, 0)
    BY <2>1 DEF IsWalked
  <2> QED
    BY <2>2
<1>2. ASSUME NEW m \in Nat, m \in S PROVE m + 1 \in S
  <2>1. PICK g : IsWalked(g, t, path, m)
    BY <1>2
  <2> DEFINE h == [s \in SUBSET (1..m + 1) |->
                     IF m + 1 \in s
                     THEN Lookup(t, g[s \ {m + 1}], path[m + 1]) ELSE g[s]]
  <2>2. \A s \in SUBSET (1..m + 1) : m + 1 \notin s => s \in SUBSET (1..m)
    OBVIOUS
  <2>3. ASSUME NEW s \in SUBSET (1..m + 1) PROVE h[s] = Step(h, s)
    <3>1. CASE m + 1 \in s
      <4>1. Max(s) = m + 1 /\ s # {}
        BY <3>1, HighestIndex
      <4>2. s \ {m + 1} \in SUBSET (1..m + 1) /\ m + 1 \notin s \ {m + 1}
        OBVIOUS
      <4>3. /\ h[s] = Lookup(t, g[s \ {m + 1}], path[m + 1])
            /\ h[s \ {m + 1}] = g[s \ {m + 1}]
        BY <3>1, <4>2
      <4> HIDE DEF h
      <4> QED
        BY <4>1, <4>3
    <3>2. CASE m + 1 \notin s
      <4>1. s \ {Max(s)} \in SUBSET (1..m + 1) /\ m + 1 \notin s \ {Max(s)}
        BY <3>2
      <4>2. h[s] = g[s] /\ h[s \ {Max(s)}] = g[s \ {Max(s)}]
        BY <3>2, <4>1
      <4>3. g[s] = Step(g, s)
        BY <2>1, <2>2, <3>2 DEF IsWalked
      <4> HIDE DEF h
      <4> QED
        BY <4>2, <4>3
    <3> QED
      BY <3>1, <3>2
  <2>4. h = [s \in SUBSET (1..m + 1) |-> h[s]]
    OBVIOUS
  <2> HIDE DEF h
  <2>5. IsWalked(h, t, path, m + 1)
    BY <2>3, <2>4 DEF IsWalked
  <2> QED
    BY <2>5
<1> HIDE DEF S
<1>3. n \in S
  BY <1>1, <1>2, Induction
<1> QED
  BY <1>3 DEF S

\* What it is step by step, for a sequence of n elements.
LEMMA WalkedSteps ==
    ASSUME NEW t, NEW path, NEW n \in Nat, DOMAIN path = 1..n
    PROVE  \E v : /\ v[0] = << >> /\ Reached(t, path) = v[n]
                 /\ \A k \in Nat : k < n =>
                      v[k + 1] = Lookup(t, v[k], path[k + 1])
<1> DEFINE iter[s \in SUBSET (1..n)] ==
             IF s = {} THEN << >> ELSE Lookup(t, iter[s \ {Max(s)}], path[Max(s)])
           v == [k \in 0..n |-> iter[1..k]]
<1>1. IsWalked(iter, t, path, n)
  <2>1. iter = CHOOSE g : IsWalked(g, t, path, n)
    BY DEF IsWalked
  <2> HIDE DEF iter
  <2> QED
    BY <2>1, WalkedExists, Zenon
<1>2. Reached(t, path) = iter[1..n]
  BY DEF Reached, FoldLeft, MapThenFoldSet
<1> HIDE DEF iter
<1>3. v[0] = << >>
  <2>1. 1..0 = {} /\ 1..0 \in SUBSET (1..n) /\ 0 \in 0..n
    OBVIOUS
  <2>2. iter[1..0] = << >>
    BY <1>1, <2>1 DEF IsWalked
  <2> QED
    BY <2>1, <2>2
<1>4. ASSUME NEW k \in Nat, k < n
      PROVE  v[k + 1] = Lookup(t, v[k], path[k + 1])
  <2> DEFINE s == 1..k + 1
  <2>1. s \in SUBSET (1..n) /\ k \in 0..n /\ k + 1 \in 0..n
    BY <1>4
  <2>2. s # {} /\ Max(s) = k + 1 /\ s \ {k + 1} = 1..k
    BY FirstIndices
  <2>3. v[k] = iter[1..k] /\ v[k + 1] = iter[s]
    BY <2>1
  <2> HIDE DEF s, v
  <2>4. iter[s] = IF s = {} THEN << >> ELSE Lookup(t, iter[s \ {Max(s)}], path[Max(s)])
    BY <1>1, <2>1 DEF IsWalked
  <2>5. iter[s] = Lookup(t, iter[1..k], path[k + 1])
    BY <2>2, <2>4
  <2> QED
    BY <2>3, <2>5
<1>5. v[n] = iter[1..n]
  OBVIOUS
<1> HIDE DEF v
<1> QED
  BY <1>2, <1>3, <1>4, <1>5

\* The loop of enclosed_name.
IsDescended(g, path, n) ==
    g = [s \in SUBSET (1..n) |->
           IF s = {} THEN 0 ELSE Descend(g[s \ {Max(s)}], path[Max(s)])]

LEMMA DescendedExists ==
    ASSUME NEW path, NEW n \in Nat
    PROVE  \E g : IsDescended(g, path, n)
<1> DEFINE S == {m \in Nat : \E g : IsDescended(g, path, m)}
           Step(g, s) ==
             IF s = {} THEN 0 ELSE Descend(g[s \ {Max(s)}], path[Max(s)])
<1>1. 0 \in S
  <2> DEFINE g == [s \in SUBSET (1..0) |-> 0]
  <2>1. \A s \in SUBSET (1..0) : s = {}
    OBVIOUS
  <2>2. IsDescended(g, path, 0)
    BY <2>1 DEF IsDescended
  <2> QED
    BY <2>2
<1>2. ASSUME NEW m \in Nat, m \in S PROVE m + 1 \in S
  <2>1. PICK g : IsDescended(g, path, m)
    BY <1>2
  <2> DEFINE h == [s \in SUBSET (1..m + 1) |->
                     IF m + 1 \in s
                     THEN Descend(g[s \ {m + 1}], path[m + 1]) ELSE g[s]]
  <2>2. \A s \in SUBSET (1..m + 1) : m + 1 \notin s => s \in SUBSET (1..m)
    OBVIOUS
  <2>3. ASSUME NEW s \in SUBSET (1..m + 1) PROVE h[s] = Step(h, s)
    <3>1. CASE m + 1 \in s
      <4>1. Max(s) = m + 1 /\ s # {}
        BY <3>1, HighestIndex
      <4>2. s \ {m + 1} \in SUBSET (1..m + 1) /\ m + 1 \notin s \ {m + 1}
        OBVIOUS
      <4>3. /\ h[s] = Descend(g[s \ {m + 1}], path[m + 1])
            /\ h[s \ {m + 1}] = g[s \ {m + 1}]
        BY <3>1, <4>2
      <4> HIDE DEF h
      <4> QED
        BY <4>1, <4>3
    <3>2. CASE m + 1 \notin s
      <4>1. s \ {Max(s)} \in SUBSET (1..m + 1) /\ m + 1 \notin s \ {Max(s)}
        BY <3>2
      <4>2. h[s] = g[s] /\ h[s \ {Max(s)}] = g[s \ {Max(s)}]
        BY <3>2, <4>1
      <4>3. g[s] = Step(g, s)
        BY <2>1, <2>2, <3>2 DEF IsDescended
      <4> HIDE DEF h
      <4> QED
        BY <4>2, <4>3
    <3> QED
      BY <3>1, <3>2
  <2>4. h = [s \in SUBSET (1..m + 1) |-> h[s]]
    OBVIOUS
  <2> HIDE DEF h
  <2>5. IsDescended(h, path, m + 1)
    BY <2>3, <2>4 DEF IsDescended
  <2> QED
    BY <2>5
<1> HIDE DEF S
<1>3. n \in S
  BY <1>1, <1>2, Induction
<1> QED
  BY <1>3 DEF S

\* What it is step by step, for a sequence of n elements.
LEMMA DescendedSteps ==
    ASSUME NEW path, NEW n \in Nat, DOMAIN path = 1..n
    PROVE  \E v : /\ v[0] = 0 /\ Depth(path) = v[n]
                 /\ \A k \in Nat : k < n =>
                      v[k + 1] = Descend(v[k], path[k + 1])
<1> DEFINE iter[s \in SUBSET (1..n)] ==
             IF s = {} THEN 0 ELSE Descend(iter[s \ {Max(s)}], path[Max(s)])
           v == [k \in 0..n |-> iter[1..k]]
<1>1. IsDescended(iter, path, n)
  <2>1. iter = CHOOSE g : IsDescended(g, path, n)
    BY DEF IsDescended
  <2> HIDE DEF iter
  <2> QED
    BY <2>1, DescendedExists, Zenon
<1>2. Depth(path) = iter[1..n]
  BY DEF Depth, FoldLeft, MapThenFoldSet
<1> HIDE DEF iter
<1>3. v[0] = 0
  <2>1. 1..0 = {} /\ 1..0 \in SUBSET (1..n) /\ 0 \in 0..n
    OBVIOUS
  <2>2. iter[1..0] = 0
    BY <1>1, <2>1 DEF IsDescended
  <2> QED
    BY <2>1, <2>2
<1>4. ASSUME NEW k \in Nat, k < n
      PROVE  v[k + 1] = Descend(v[k], path[k + 1])
  <2> DEFINE s == 1..k + 1
  <2>1. s \in SUBSET (1..n) /\ k \in 0..n /\ k + 1 \in 0..n
    BY <1>4
  <2>2. s # {} /\ Max(s) = k + 1 /\ s \ {k + 1} = 1..k
    BY FirstIndices
  <2>3. v[k] = iter[1..k] /\ v[k + 1] = iter[s]
    BY <2>1
  <2> HIDE DEF s, v
  <2>4. iter[s] = IF s = {} THEN 0 ELSE Descend(iter[s \ {Max(s)}], path[Max(s)])
    BY <1>1, <2>1 DEF IsDescended
  <2>5. iter[s] = Descend(iter[1..k], path[k + 1])
    BY <2>2, <2>4
  <2> QED
    BY <2>3, <2>5
<1>5. v[n] = iter[1..n]
  OBVIOUS
<1> HIDE DEF v
<1> QED
  BY <1>2, <1>3, <1>4, <1>5

\* The components of a path, counted.
Indices(path) == [i \in 1..Len(path) |-> i]

\* create_dir_all, from the top.
IsMade(g, t, path, n) ==
    g = [s \in SUBSET (1..n) |->
           IF s = {} THEN [tree |-> t, ok |-> TRUE] ELSE CreateDir(path, g[s \ {Max(s)}], Indices(path)[Max(s)])]

LEMMA MadeExists ==
    ASSUME NEW t, NEW path, NEW n \in Nat
    PROVE  \E g : IsMade(g, t, path, n)
<1> DEFINE S == {m \in Nat : \E g : IsMade(g, t, path, m)}
           Step(g, s) ==
             IF s = {} THEN [tree |-> t, ok |-> TRUE] ELSE CreateDir(path, g[s \ {Max(s)}], Indices(path)[Max(s)])
<1>1. 0 \in S
  <2> DEFINE g == [s \in SUBSET (1..0) |-> [tree |-> t, ok |-> TRUE]]
  <2>1. \A s \in SUBSET (1..0) : s = {}
    OBVIOUS
  <2>2. IsMade(g, t, path, 0)
    BY <2>1 DEF IsMade
  <2> QED
    BY <2>2
<1>2. ASSUME NEW m \in Nat, m \in S PROVE m + 1 \in S
  <2>1. PICK g : IsMade(g, t, path, m)
    BY <1>2
  <2> DEFINE h == [s \in SUBSET (1..m + 1) |->
                     IF m + 1 \in s
                     THEN CreateDir(path, g[s \ {m + 1}], Indices(path)[m + 1]) ELSE g[s]]
  <2>2. \A s \in SUBSET (1..m + 1) : m + 1 \notin s => s \in SUBSET (1..m)
    OBVIOUS
  <2>3. ASSUME NEW s \in SUBSET (1..m + 1) PROVE h[s] = Step(h, s)
    <3>1. CASE m + 1 \in s
      <4>1. Max(s) = m + 1 /\ s # {}
        BY <3>1, HighestIndex
      <4>2. s \ {m + 1} \in SUBSET (1..m + 1) /\ m + 1 \notin s \ {m + 1}
        OBVIOUS
      <4>3. /\ h[s] = CreateDir(path, g[s \ {m + 1}], Indices(path)[m + 1])
            /\ h[s \ {m + 1}] = g[s \ {m + 1}]
        BY <3>1, <4>2
      <4> HIDE DEF h
      <4> QED
        BY <4>1, <4>3
    <3>2. CASE m + 1 \notin s
      <4>1. s \ {Max(s)} \in SUBSET (1..m + 1) /\ m + 1 \notin s \ {Max(s)}
        BY <3>2
      <4>2. h[s] = g[s] /\ h[s \ {Max(s)}] = g[s \ {Max(s)}]
        BY <3>2, <4>1
      <4>3. g[s] = Step(g, s)
        BY <2>1, <2>2, <3>2 DEF IsMade
      <4> HIDE DEF h
      <4> QED
        BY <4>2, <4>3
    <3> QED
      BY <3>1, <3>2
  <2>4. h = [s \in SUBSET (1..m + 1) |-> h[s]]
    OBVIOUS
  <2> HIDE DEF h
  <2>5. IsMade(h, t, path, m + 1)
    BY <2>3, <2>4 DEF IsMade
  <2> QED
    BY <2>5
<1> HIDE DEF S
<1>3. n \in S
  BY <1>1, <1>2, Induction
<1> QED
  BY <1>3 DEF S

\* What it is step by step.
LEMMA MadeSteps ==
    ASSUME NEW t, NEW path, Len(path) \in Nat
    PROVE  \E v : /\ v[0] = [tree |-> t, ok |-> TRUE]
                 /\ CreateDirAll(t, path) = v[Len(path)]
                 /\ \A k \in Nat : k < Len(path) =>
                      v[k + 1] = CreateDir(path, v[k], Indices(path)[k + 1])
<1> SUFFICES
      ASSUME NEW n \in Nat, n = Len(path)
      PROVE  \E v : /\ v[0] = [tree |-> t, ok |-> TRUE]
                   /\ CreateDirAll(t, path) = v[n]
                   /\ \A k \in Nat : k < n =>
                        v[k + 1] = CreateDir(path, v[k], Indices(path)[k + 1])
  OBVIOUS
<1> DEFINE iter[s \in SUBSET (1..n)] ==
             IF s = {} THEN [tree |-> t, ok |-> TRUE] ELSE CreateDir(path, iter[s \ {Max(s)}], Indices(path)[Max(s)])
           v == [k \in 0..n |-> iter[1..k]]
<1>1. IsMade(iter, t, path, n)
  <2>1. iter = CHOOSE g : IsMade(g, t, path, n)
    BY DEF IsMade
  <2> HIDE DEF iter
  <2> QED
    BY <2>1, MadeExists, Zenon
<1>2. CreateDirAll(t, path) = iter[1..n]
  BY DEF CreateDirAll, Indices, FoldLeft, MapThenFoldSet
<1> HIDE DEF iter
<1>3. v[0] = [tree |-> t, ok |-> TRUE]
  <2>1. 1..0 = {} /\ 1..0 \in SUBSET (1..n) /\ 0 \in 0..n
    OBVIOUS
  <2>2. iter[1..0] = [tree |-> t, ok |-> TRUE]
    BY <1>1, <2>1 DEF IsMade
  <2> QED
    BY <2>1, <2>2
<1>4. ASSUME NEW k \in Nat, k < n
      PROVE  v[k + 1] = CreateDir(path, v[k], Indices(path)[k + 1])
  <2> DEFINE s == 1..k + 1
  <2>1. s \in SUBSET (1..n) /\ k \in 0..n /\ k + 1 \in 0..n
    BY <1>4
  <2>2. s # {} /\ Max(s) = k + 1 /\ s \ {k + 1} = 1..k
    BY FirstIndices
  <2>3. v[k] = iter[1..k] /\ v[k + 1] = iter[s]
    BY <2>1
  <2> HIDE DEF s, v
  <2>4. iter[s] = IF s = {} THEN [tree |-> t, ok |-> TRUE] ELSE CreateDir(path, iter[s \ {Max(s)}], Indices(path)[Max(s)])
    BY <1>1, <2>1 DEF IsMade
  <2>5. iter[s] = CreateDir(path, iter[1..k], Indices(path)[k + 1])
    BY <2>2, <2>4
  <2> QED
    BY <2>3, <2>5
<1>5. v[n] = iter[1..n]
  OBVIOUS
<1> HIDE DEF v
<1> QED
  BY <1>2, <1>3, <1>4, <1>5

-----------------------------------------------------------------------------
(***************************************************************************)
(* The same loops over the front parts of one path.                        *)
(***************************************************************************)
LEMMA NormalisedPrefix ==
    ASSUME NEW path, IsSeq(path)
    PROVE  /\ Normal(SubSeq(path, 1, 0)) = << >>
           /\ \A k \in Nat : k < Len(path) =>
                Normal(SubSeq(path, 1, k + 1)) =
                  Walk(Normal(SubSeq(path, 1, k)), path[k + 1])
<1>1. Normal(SubSeq(path, 1, 0)) = << >>
  <2> DEFINE e == SubSeq(path, 1, 0)
  <2>1. DOMAIN e = 1..0
    BY PrefixCells
  <2> HIDE DEF e
  <2>2. \E v : v[0] = << >> /\ Normal(e) = v[0]
    BY <2>1, NormalisedSteps
  <2> QED
    BY <2>2 DEF e
<1>2. ASSUME NEW k \in Nat, k < Len(path)
      PROVE  Normal(SubSeq(path, 1, k + 1)) =
               Walk(Normal(SubSeq(path, 1, k)), path[k + 1])
  <2> DEFINE p == SubSeq(path, 1, k)
             q == SubSeq(path, 1, k + 1)
  <2>1. /\ DOMAIN p = 1..k /\ \A i \in 1..k : p[i] = path[i]
        /\ DOMAIN q = 1..k + 1 /\ \A i \in 1..k + 1 : q[i] = path[i]
    <3>1. k <= Len(path) /\ k + 1 <= Len(path) /\ k + 1 \in Nat
      BY <1>2, LenIsNat
    <3> QED
      BY <3>1, PrefixCells
  <2> HIDE DEF p, q
  <2>2. PICK v : /\ v[0] = << >> /\ Normal(p) = v[k]
                 /\ \A j \in Nat : j < k => v[j + 1] = Walk(v[j], p[j + 1])
    BY <2>1, NormalisedSteps
  <2>3. PICK w : /\ w[0] = << >> /\ Normal(q) = w[k + 1]
                 /\ \A j \in Nat : j < k + 1 => w[j + 1] = Walk(w[j], q[j + 1])
    BY <2>1, NormalisedSteps
  <2> DEFINE S == {j \in Nat : j <= k => v[j] = w[j]}
  <2>4. 0 \in S
    BY <2>2, <2>3
  <2>5. ASSUME NEW j \in Nat, j \in S PROVE j + 1 \in S
    <3> SUFFICES ASSUME j + 1 <= k PROVE v[j + 1] = w[j + 1]
      OBVIOUS
    <3>1. v[j] = w[j] /\ j < k /\ j < k + 1 /\ p[j + 1] = q[j + 1]
      BY <2>1, <2>5
    <3> QED
      BY <2>2, <2>3, <3>1
  <2> HIDE DEF S
  <2>6. k \in S
    BY <2>4, <2>5, Induction
  <2>7. v[k] = w[k]
    BY <2>6 DEF S
  <2>8. w[k + 1] = Walk(w[k], q[k + 1]) /\ q[k + 1] = path[k + 1]
    BY <2>1, <2>3
  <2> QED
    BY <2>2, <2>3, <2>7, <2>8 DEF p, q
<1> QED
  BY <1>1, <1>2

LEMMA WalkedPrefix ==
    ASSUME NEW t, NEW path, IsSeq(path)
    PROVE  /\ Reached(t, SubSeq(path, 1, 0)) = << >>
           /\ \A k \in Nat : k < Len(path) =>
                Reached(t, SubSeq(path, 1, k + 1)) =
                  Lookup(t, Reached(t, SubSeq(path, 1, k)), path[k + 1])
<1>1. Reached(t, SubSeq(path, 1, 0)) = << >>
  <2> DEFINE e == SubSeq(path, 1, 0)
  <2>1. DOMAIN e = 1..0
    BY PrefixCells
  <2> HIDE DEF e
  <2>2. \E v : v[0] = << >> /\ Reached(t, e) = v[0]
    BY <2>1, WalkedSteps
  <2> QED
    BY <2>2 DEF e
<1>2. ASSUME NEW k \in Nat, k < Len(path)
      PROVE  Reached(t, SubSeq(path, 1, k + 1)) =
               Lookup(t, Reached(t, SubSeq(path, 1, k)), path[k + 1])
  <2> DEFINE p == SubSeq(path, 1, k)
             q == SubSeq(path, 1, k + 1)
  <2>1. /\ DOMAIN p = 1..k /\ \A i \in 1..k : p[i] = path[i]
        /\ DOMAIN q = 1..k + 1 /\ \A i \in 1..k + 1 : q[i] = path[i]
    <3>1. k <= Len(path) /\ k + 1 <= Len(path) /\ k + 1 \in Nat
      BY <1>2, LenIsNat
    <3> QED
      BY <3>1, PrefixCells
  <2> HIDE DEF p, q
  <2>2. PICK v : /\ v[0] = << >> /\ Reached(t, p) = v[k]
                 /\ \A j \in Nat : j < k => v[j + 1] = Lookup(t, v[j], p[j + 1])
    BY <2>1, WalkedSteps
  <2>3. PICK w : /\ w[0] = << >> /\ Reached(t, q) = w[k + 1]
                 /\ \A j \in Nat : j < k + 1 => w[j + 1] = Lookup(t, w[j], q[j + 1])
    BY <2>1, WalkedSteps
  <2> DEFINE S == {j \in Nat : j <= k => v[j] = w[j]}
  <2>4. 0 \in S
    BY <2>2, <2>3
  <2>5. ASSUME NEW j \in Nat, j \in S PROVE j + 1 \in S
    <3> SUFFICES ASSUME j + 1 <= k PROVE v[j + 1] = w[j + 1]
      OBVIOUS
    <3>1. v[j] = w[j] /\ j < k /\ j < k + 1 /\ p[j + 1] = q[j + 1]
      BY <2>1, <2>5
    <3> QED
      BY <2>2, <2>3, <3>1
  <2> HIDE DEF S
  <2>6. k \in S
    BY <2>4, <2>5, Induction
  <2>7. v[k] = w[k]
    BY <2>6 DEF S
  <2>8. w[k + 1] = Lookup(t, w[k], q[k + 1]) /\ q[k + 1] = path[k + 1]
    BY <2>1, <2>3
  <2> QED
    BY <2>2, <2>3, <2>7, <2>8 DEF p, q
<1> QED
  BY <1>1, <1>2

LEMMA DescendedPrefix ==
    ASSUME NEW path, IsSeq(path)
    PROVE  /\ Depth(SubSeq(path, 1, 0)) = 0
           /\ \A k \in Nat : k < Len(path) =>
                Depth(SubSeq(path, 1, k + 1)) =
                  Descend(Depth(SubSeq(path, 1, k)), path[k + 1])
<1>1. Depth(SubSeq(path, 1, 0)) = 0
  <2> DEFINE e == SubSeq(path, 1, 0)
  <2>1. DOMAIN e = 1..0
    BY PrefixCells
  <2> HIDE DEF e
  <2>2. \E v : v[0] = 0 /\ Depth(e) = v[0]
    BY <2>1, DescendedSteps
  <2> QED
    BY <2>2 DEF e
<1>2. ASSUME NEW k \in Nat, k < Len(path)
      PROVE  Depth(SubSeq(path, 1, k + 1)) =
               Descend(Depth(SubSeq(path, 1, k)), path[k + 1])
  <2> DEFINE p == SubSeq(path, 1, k)
             q == SubSeq(path, 1, k + 1)
  <2>1. /\ DOMAIN p = 1..k /\ \A i \in 1..k : p[i] = path[i]
        /\ DOMAIN q = 1..k + 1 /\ \A i \in 1..k + 1 : q[i] = path[i]
    <3>1. k <= Len(path) /\ k + 1 <= Len(path) /\ k + 1 \in Nat
      BY <1>2, LenIsNat
    <3> QED
      BY <3>1, PrefixCells
  <2> HIDE DEF p, q
  <2>2. PICK v : /\ v[0] = 0 /\ Depth(p) = v[k]
                 /\ \A j \in Nat : j < k => v[j + 1] = Descend(v[j], p[j + 1])
    BY <2>1, DescendedSteps
  <2>3. PICK w : /\ w[0] = 0 /\ Depth(q) = w[k + 1]
                 /\ \A j \in Nat : j < k + 1 => w[j + 1] = Descend(w[j], q[j + 1])
    BY <2>1, DescendedSteps
  <2> DEFINE S == {j \in Nat : j <= k => v[j] = w[j]}
  <2>4. 0 \in S
    BY <2>2, <2>3
  <2>5. ASSUME NEW j \in Nat, j \in S PROVE j + 1 \in S
    <3> SUFFICES ASSUME j + 1 <= k PROVE v[j + 1] = w[j + 1]
      OBVIOUS
    <3>1. v[j] = w[j] /\ j < k /\ j < k + 1 /\ p[j + 1] = q[j + 1]
      BY <2>1, <2>5
    <3> QED
      BY <2>2, <2>3, <3>1
  <2> HIDE DEF S
  <2>6. k \in S
    BY <2>4, <2>5, Induction
  <2>7. v[k] = w[k]
    BY <2>6 DEF S
  <2>8. w[k + 1] = Descend(w[k], q[k + 1]) /\ q[k + 1] = path[k + 1]
    BY <2>1, <2>3
  <2> QED
    BY <2>2, <2>3, <2>7, <2>8 DEF p, q
<1> QED
  BY <1>1, <1>2

-----------------------------------------------------------------------------
(***************************************************************************)
(* Where paths lead.                                                       *)
(***************************************************************************)
\* The parts of a front part.
LEMMA PrefixOfPrefix ==
    ASSUME NEW d, IsSeq(d), NEW m \in Nat, NEW k \in Nat, k <= m, m <= Len(d)
    PROVE  SubSeq(SubSeq(d, 1, m), 1, k) = SubSeq(d, 1, k)
<1> DEFINE p == SubSeq(d, 1, m)
           a == SubSeq(p, 1, k)
           b == SubSeq(d, 1, k)
<1>1. IsSeq(p) /\ Len(p) = m /\ \A i \in 1..m : p[i] = d[i]
  BY PrefixCells
<1> HIDE DEF p
<1>2. IsSeq(a) /\ Len(a) = k /\ \A i \in 1..k : a[i] = p[i]
  BY <1>1, PrefixCells
<1>3. k <= Len(d)
  BY LenIsNat
<1>4. IsSeq(b) /\ Len(b) = k /\ \A i \in 1..k : b[i] = d[i]
  BY <1>3, PrefixCells
<1> HIDE DEF a, b
<1>5. a = b
  BY <1>1, <1>2, <1>4, SameCells
<1> QED
  BY <1>5 DEF a, b, p

LEMMA WholeIsPrefix == ASSUME NEW d, IsSeq(d) PROVE SubSeq(d, 1, Len(d)) = d
BY SubSeqFull DEF IsSeq

\* The last component taken away.
LEMMA FrontCells ==
    ASSUME NEW p, IsSeq(p), p # << >>
    PROVE  /\ IsSeq(Front(p)) /\ Len(Front(p)) = Len(p) - 1
           /\ Front(p) = SubSeq(p, 1, Len(p) - 1)
           /\ \A i \in 1..Len(p) - 1 : Front(p)[i] = p[i]
<1>1. Len(p) \in Nat \ {0}
  BY LenIsNat
<1>2. Len(p) - 1 \in Nat /\ Len(p) - 1 <= Len(p)
  BY <1>1
<1> QED
  BY <1>2, PrefixCells DEF Front

LEMMA FrontOfAppend ==
    ASSUME NEW p, IsSeq(p), NEW c
    PROVE  Front(Append(p, c)) = p /\ Append(p, c) # << >>
<1> DEFINE q == Append(p, c)
<1>1. /\ IsSeq(q) /\ Len(q) = Len(p) + 1 /\ q # << >>
      /\ \A i \in 1..Len(p) : q[i] = p[i]
  BY AppendCells, AppendIsSeq
<1> HIDE DEF q
<1>2. Len(p) \in Nat /\ Len(q) - 1 = Len(p)
  BY <1>1, LenIsNat
<1>3. IsSeq(Front(q)) /\ Len(Front(q)) = Len(p) /\ \A i \in 1..Len(p) : Front(q)[i] = p[i]
  BY <1>1, <1>2, FrontCells
<1>4. Front(q) = p
  BY <1>3, SameCells
<1> QED
  BY <1>1, <1>4 DEF q

LEMMA WalkIsSeq == ASSUME NEW p, IsSeq(p), NEW c PROVE IsSeq(Walk(p, c))
BY AppendIsSeq, FrontCells DEF Walk

\* Every path has a place by its name.
LEMMA NormalIsSeq ==
    ASSUME NEW path, IsSeq(path), NEW n \in Nat, n <= Len(path)
    PROVE  IsSeq(Normal(SubSeq(path, 1, n)))
<1> DEFINE N(k) == Normal(SubSeq(path, 1, k))
           S == {k \in Nat : k <= Len(path) => IsSeq(N(k))}
<1>1. 0 \in S
  BY NormalisedPrefix, EmptyIsSeq
<1>2. ASSUME NEW k \in Nat, k \in S PROVE k + 1 \in S
  <2> SUFFICES ASSUME k + 1 <= Len(path) PROVE IsSeq(N(k + 1))
    OBVIOUS
  <2>1. k < Len(path) /\ k <= Len(path)
    BY LenIsNat
  <2>2. N(k + 1) = Walk(N(k), path[k + 1])
    BY <2>1, NormalisedPrefix
  <2>3. IsSeq(N(k))
    BY <1>2, <2>1
  <2> HIDE DEF N
  <2> QED
    BY <2>2, <2>3, WalkIsSeq
<1> HIDE DEF S
<1>3. n \in S
  BY <1>1, <1>2, Induction
<1> QED
  BY <1>3 DEF S

\* A path that can be walked leads to its place by name.
LEMMA ReachedIsNormal ==
    ASSUME NEW t, NEW path, IsSeq(path)
    PROVE  /\ Reached(t, path) \in {Nowhere, Normal(path)}
           /\ IsSeq(Normal(path))
<1> DEFINE N(k) == Normal(SubSeq(path, 1, k))
           R(k) == Reached(t, SubSeq(path, 1, k))
           S == {k \in Nat : k <= Len(path) => R(k) \in {Nowhere, N(k)}}
<1>1. 0 \in S
  BY NormalisedPrefix, WalkedPrefix
<1>2. ASSUME NEW k \in Nat, k \in S PROVE k + 1 \in S
  <2> SUFFICES ASSUME k + 1 <= Len(path) PROVE R(k + 1) \in {Nowhere, N(k + 1)}
    OBVIOUS
  <2>1. k < Len(path) /\ k <= Len(path)
    BY LenIsNat
  <2>2. N(k + 1) = Walk(N(k), path[k + 1])
    BY <2>1, NormalisedPrefix
  <2>3. R(k + 1) = Lookup(t, R(k), path[k + 1])
    BY <2>1, WalkedPrefix
  <2>4. R(k) \in {Nowhere, N(k)}
    BY <1>2, <2>1
  <2> HIDE DEF N, R
  <2> QED
    BY <2>2, <2>3, <2>4 DEF Lookup
<1>3. Len(path) \in S
  <2> HIDE DEF S
  <2> QED
    BY <1>1, <1>2, Induction, LenIsNat
<1>4. Len(path) \in Nat /\ Len(path) <= Len(path)
  BY LenIsNat
<1>5. R(Len(path)) \in {Nowhere, N(Len(path))} /\ IsSeq(N(Len(path)))
  BY <1>3, <1>4, NormalIsSeq
<1> QED
  BY <1>5, WholeIsPrefix

\* It leads to a node, or to where one could be, in a directory.
LEMMA ReachedPlace ==
    ASSUME NEW t, IsTree(t), NEW path, IsSeq(path),
           Reached(t, path) # Nowhere, Reached(t, path) \notin DOMAIN t
    PROVE  LET p == Reached(t, path)
           IN  IsSeq(p) /\ p # << >> /\ Front(p) \in DOMAIN t
               /\ t[Front(p)].kind = "dir" /\ p = Normal(path)
<1> DEFINE p == Reached(t, path)
           R(k) == Reached(t, SubSeq(path, 1, k))
           n == Len(path)
<1>1. n \in Nat /\ p = R(n) /\ p = Normal(path) /\ IsSeq(p)
  BY LenIsNat, WholeIsPrefix, ReachedIsNormal
<1>2. R(0) = << >>
  BY WalkedPrefix
<1>3. << >> \in DOMAIN t
  BY DEF IsTree
<1>4. n # 0
  BY <1>1, <1>2, <1>3
<1> DEFINE q == R(n - 1)
<1>5. p = Lookup(t, q, path[n])
  <2> DEFINE k == n - 1
  <2>1. k \in Nat /\ k < Len(path) /\ k + 1 = n
    BY <1>1, <1>4
  <2> HIDE DEF k
  <2>2. R(k + 1) = Lookup(t, R(k), path[k + 1])
    BY <2>1, WalkedPrefix
  <2> HIDE DEF R
  <2>3. R(n) = Lookup(t, R(k), path[n])
    BY <2>1, <2>2
  <2> QED
    BY <1>1, <2>3 DEF k
<1>6. p # Nowhere /\ p \notin DOMAIN t
  OBVIOUS
<1> HIDE DEF p, q
<1>7. q \in DOMAIN t /\ t[q].kind = "dir" /\ p = Walk(q, path[n])
  BY <1>5, <1>6 DEF Lookup
<1>8. q = << >> \/ (IsSeq(q) /\ Front(q) \in DOMAIN t)
  BY <1>7 DEF IsTree
<1>9. IsSeq(q)
  BY <1>8, EmptyIsSeq
<1>10. p = Append(q, path[n])
  <2>1. path[n] # ".." /\ path[n] # "."
    BY <1>6, <1>7, <1>8 DEF Walk
  <2> QED
    BY <1>7, <2>1 DEF Walk
<1>11. Front(p) = q /\ p # << >>
  BY <1>9, <1>10, FrontOfAppend
<1> QED
  BY <1>1, <1>7, <1>11 DEF p

-----------------------------------------------------------------------------
(***************************************************************************)
(* Names that enclosed_name lets through.                                  *)
(***************************************************************************)
\* A vector is a prefix of one that has its elements in front.
LEMMA PrefixByCells ==
    ASSUME NEW s, IsSeq(s), NEW t, IsSeq(t), Len(s) <= Len(t),
           \A i \in 1..Len(s) : t[i] = s[i]
    PROVE  IsPrefix(s, t)
<1> DEFINE a == SubSeq(t, 1, Len(s))
<1>1. Len(s) \in Nat
  BY LenIsNat
<1>2. IsSeq(a) /\ Len(a) = Len(s) /\ \A i \in 1..Len(s) : a[i] = t[i]
  BY <1>1, PrefixCells
<1> HIDE DEF a
<1>3. a = s
  BY <1>2, SameCells
<1> QED
  BY <1>3, WholeIsPrefix DEF IsPrefix, a

\* A name that is enclosed never climbs above where it starts.
LEMMA NeverAbove ==
    ASSUME NEW name, IsSeq(name.components), Enclosed(name),
           NEW n \in Nat, n <= Len(name.components)
    PROVE  Depth(SubSeq(name.components, 1, n)) # NoDepth
<1> DEFINE c == name.components
           D(k) == Depth(SubSeq(c, 1, k))
           S == {j \in Nat : n + j <= Len(c) => D(n + j) = NoDepth}
<1>1. Len(c) \in Nat /\ Depth(c) # NoDepth
  BY LenIsNat DEF Enclosed
<1> SUFFICES ASSUME D(n) = NoDepth PROVE FALSE
  OBVIOUS
<1>2. 0 \in S
  OBVIOUS
<1>3. ASSUME NEW j \in Nat, j \in S PROVE j + 1 \in S
  <2> SUFFICES ASSUME n + (j + 1) <= Len(c) PROVE D(n + (j + 1)) = NoDepth
    OBVIOUS
  <2> DEFINE k == n + j
  <2>1. k \in Nat /\ k < Len(c) /\ k <= Len(c) /\ n + (j + 1) = k + 1
    BY <1>1
  <2>2. D(k) = NoDepth
    BY <1>3, <2>1
  <2> HIDE DEF k
  <2>3. D(k + 1) = Descend(D(k), c[k + 1])
    BY <2>1, DescendedPrefix
  <2>4. D(k + 1) = NoDepth
    BY <2>2, <2>3 DEF Descend
  <2> QED
    BY <2>1, <2>4
<1> DEFINE l == Len(c) - n
<1>4. l \in Nat /\ n + l = Len(c) /\ n + l <= Len(c)
  BY <1>1
<1>5. l \in S
  <2> HIDE DEF S, l
  <2> QED
    BY <1>2, <1>3, <1>4, Induction
<1>6. D(Len(c)) = NoDepth
  BY <1>4, <1>5
<1> QED
  BY <1>1, <1>6, WholeIsPrefix

\* Its places are as deep below the directory as enclosed_name counts.
LEMMA EnclosedInside ==
    ASSUME NEW name, IsSeq(name.components), Enclosed(name), IsSeq(Directory),
           NEW n \in Nat, n <= Len(name.components)
    PROVE  Inside(Normal(SubSeq(Directory \o name.components, 1,
                                Len(Directory) + n)))
<1> DEFINE c == name.components
           path == Directory \o c
           l == Len(Directory)
           home == Normal(Directory)
           N(k) == Normal(SubSeq(path, 1, l + k))
           D(k) == Depth(SubSeq(c, 1, k))
           Below(k) ==
             /\ D(k) \in Nat
             /\ Len(N(k)) = Len(home) + D(k)
             /\ \A i \in 1..Len(home) : N(k)[i] = home[i]
           S == {k \in Nat : k <= Len(c) => Below(k)}
<1>1. /\ IsSeq(path) /\ Len(path) = l + Len(c) /\ l \in Nat /\ Len(c) \in Nat
      /\ \A i \in 1..l : path[i] = Directory[i]
      /\ \A i \in 1..Len(c) : path[l + i] = c[i]
  <2>1. IsSeq(path) /\ Len(path) = l + Len(c) /\ l \in Nat /\ Len(c) \in Nat
    BY ConcatIsSeq, LenIsNat
  <2>2. \A j \in 1..l + Len(c) : path[j] = IF j <= l THEN Directory[j] ELSE c[j - l]
    BY ConcatCells
  <2> HIDE DEF path, c
  <2>3. \A i \in 1..l : path[i] = Directory[i]
    BY <2>1, <2>2
  <2>4. ASSUME NEW i \in 1..Len(c) PROVE path[l + i] = c[i]
    <3>1. l + i \in 1..l + Len(c) /\ ~(l + i <= l) /\ l + i - l = i
      BY <2>1
    <3> QED
      BY <2>2, <3>1
  <2> QED
    BY <2>1, <2>3, <2>4
<1> HIDE DEF path
<1>2. IsSeq(home) /\ Len(home) \in Nat
  BY ReachedIsNormal, LenIsNat
<1>3. \A k \in Nat : k <= Len(c) => IsSeq(N(k)) /\ D(k) # NoDepth
  BY <1>1, NormalIsSeq, NeverAbove
<1>4. 0 \in S
  <2>1. SubSeq(path, 1, l) = Directory
    <3> DEFINE a == SubSeq(path, 1, l)
    <3>1. IsSeq(a) /\ Len(a) = l /\ \A i \in 1..l : a[i] = path[i]
      BY <1>1, PrefixCells
    <3> HIDE DEF a
    <3>2. a = Directory
      BY <1>1, <3>1, SameCells
    <3> QED
      BY <3>2 DEF a
  <2>2. N(0) = home
    <3>1. l + 0 = l
      BY <1>1
    <3> QED
      BY <2>1, <3>1
  <2>3. D(0) = 0
    BY DescendedPrefix
  <2> HIDE DEF home, N, D
  <2> QED
    BY <1>2, <2>2, <2>3
<1>5. ASSUME NEW k \in Nat, k \in S PROVE k + 1 \in S
  <2> SUFFICES ASSUME k + 1 <= Len(c) PROVE Below(k + 1)
    OBVIOUS
  <2>1. k < Len(c) /\ k <= Len(c) /\ l + k \in Nat /\ l + k < Len(path)
        /\ l + (k + 1) = (l + k) + 1 /\ k + 1 \in 1..Len(c)
    BY <1>1
  <2>2. Below(k)
    BY <1>5, <2>1
  <2>3. D(k + 1) = Descend(D(k), c[k + 1])
    BY <2>1, DescendedPrefix
  <2>4. N(k + 1) = Walk(N(k), c[k + 1])
    <3>1. path[l + k + 1] = c[k + 1]
      BY <1>1, <2>1
    <3>2. Normal(SubSeq(path, 1, l + k + 1)) = Walk(N(k), path[l + k + 1])
      BY <1>1, <2>1, NormalisedPrefix
    <3> QED
      BY <2>1, <3>1, <3>2
  <2>5. IsSeq(N(k)) /\ D(k + 1) # NoDepth /\ D(k) # NoDepth
    BY <1>3, <2>1
  <2> DEFINE p == N(k)
             q == N(k + 1)
             d == D(k)
             e == D(k + 1)
             x == c[k + 1]
  <2>6. /\ d \in Nat /\ Len(p) = Len(home) + d /\ IsSeq(p)
        /\ \A i \in 1..Len(home) : p[i] = home[i]
        /\ e = Descend(d, x) /\ q = Walk(p, x) /\ e # NoDepth /\ d # NoDepth
    BY <2>2, <2>3, <2>4, <2>5
  <2> SUFFICES /\ e \in Nat /\ Len(q) = Len(home) + e
               /\ \A i \in 1..Len(home) : q[i] = home[i]
    OBVIOUS
  <2> HIDE DEF p, q, d, e, x, home, N, D
  <2>7. CASE x = ".."
    <3>1. e = d - 1 /\ e \in Nat
      BY <2>6, <2>7 DEF Descend, NoDepth
    <3>2. p # << >>
      BY <1>2, <2>6, <3>1, EmptyIsSeq
    <3>3. q = Front(p)
      BY <2>6, <2>7, <3>2 DEF Walk
    <3>4. Len(q) = Len(p) - 1 /\ \A i \in 1..Len(p) - 1 : q[i] = p[i]
      BY <2>6, <3>2, <3>3, FrontCells
    <3>5. Len(home) <= Len(p) - 1
      BY <1>2, <2>6, <3>1
    <3> QED
      BY <1>2, <2>6, <3>1, <3>4, <3>5
  <2>8. CASE x = "."
    <3>1. e = d /\ q = p
      BY <2>6, <2>8 DEF Descend, Walk
    <3> QED
      BY <2>6, <3>1
  <2>9. CASE x # ".." /\ x # "."
    <3>1. e = d + 1 /\ q = Append(p, x)
      BY <2>6, <2>9 DEF Descend, Walk
    <3>2. /\ Len(Append(p, x)) = Len(p) + 1
          /\ \A i \in 1..Len(p) : Append(p, x)[i] = p[i]
      <4>1. IsSeq(p)
        BY <2>6
      <4> QED
        BY <4>1, AppendCells
    <3>3. Len(q) = Len(p) + 1 /\ \A i \in 1..Len(p) : q[i] = p[i]
      BY <3>1, <3>2, Zenon
    <3> QED
      BY <1>2, <2>6, <3>1, <3>3
  <2> QED
    BY <2>7, <2>8, <2>9
<1>6. Below(n)
  <2>1. n \in S
    <3> HIDE DEF S
    <3> QED
      BY <1>4, <1>5, Induction
  <2> QED
    BY <2>1
<1>7. IsSeq(N(n))
  BY <1>3
<1>8. Len(home) <= Len(N(n)) /\ \A i \in 1..Len(home) : N(n)[i] = home[i]
  <2>1. D(n) \in Nat /\ Len(N(n)) = Len(home) + D(n)
        /\ \A i \in 1..Len(home) : N(n)[i] = home[i]
    BY <1>6
  <2> HIDE DEF home, N, D
  <2> QED
    BY <1>2, <2>1
<1>9. IsPrefix(home, N(n))
  <2> HIDE DEF home, N
  <2> QED
    BY <1>2, <1>7, <1>8, PrefixByCells
<1> QED
  BY <1>9 DEF Inside, path

-----------------------------------------------------------------------------
(***************************************************************************)
(* What the file system does to a tree.                                    *)
(***************************************************************************)
\* Something new is made where its path leads by name, and the tree is one.
LEMMA PlusTree ==
    ASSUME NEW t, IsTree(t), NEW path, IsSeq(path), Free(t, path),
           NEW node, IsNode(node)
    PROVE  LET u == Plus(t, Reached(t, path), node)
           IN  /\ IsTree(u) /\ DOMAIN u = DOMAIN t \cup {Normal(path)}
               /\ \A p \in DOMAIN t : u[p] = t[p]
<1> DEFINE place == Reached(t, path)
           u == Plus(t, place, node)
<1>1. /\ place # Nowhere /\ place \notin DOMAIN t /\ IsSeq(place) /\ place # << >>
      /\ Front(place) \in DOMAIN t /\ t[Front(place)].kind = "dir"
      /\ place = Normal(path)
  BY ReachedPlace DEF Free
<1> HIDE DEF place
<1>2. /\ u = [p \in DOMAIN u |-> u[p]] /\ DOMAIN u = DOMAIN t \cup {place}
      /\ u[place] = node /\ \A p \in DOMAIN t : u[p] = t[p]
  BY <1>1 DEF Plus
<1> HIDE DEF u
<1>3. \A p \in DOMAIN u \ {<< >>} :
         IsSeq(p) /\ Front(p) \in DOMAIN u /\ u[Front(p)].kind = "dir"
  <2> TAKE p \in DOMAIN u \ {<< >>}
  <2>1. CASE p = place
    BY <1>1, <1>2, <2>1
  <2>2. CASE p # place
    <3>1. p \in DOMAIN t \ {<< >>}
      BY <1>2, <2>2
    <3>2. IsSeq(p) /\ Front(p) \in DOMAIN t /\ t[Front(p)].kind = "dir"
      BY <3>1 DEF IsTree
    <3> QED
      BY <1>2, <3>2
  <2> QED
    BY <2>1, <2>2
<1>4. \A p \in DOMAIN u : IsNode(u[p])
  <2>1. \A p \in DOMAIN t : IsNode(t[p])
    BY DEF IsTree
  <2> TAKE p \in DOMAIN u
  <2>2. CASE u[p] = node
    BY <2>2
  <2>3. CASE p \in DOMAIN t /\ u[p] = t[p]
    BY <2>1, <2>3
  <2>4. u[p] = node \/ (p \in DOMAIN t /\ u[p] = t[p])
    BY <1>2
  <2> QED
    BY <2>2, <2>3, <2>4
<1>5. Nowhere \notin DOMAIN u /\ << >> \in DOMAIN u
  BY <1>1, <1>2 DEF IsTree
<1>6. IsTree(u)
  BY <1>2, <1>3, <1>4, <1>5 DEF IsTree
<1> QED
  BY <1>1, <1>2, <1>6 DEF u, place

LEMMA PlusNode ==
    ASSUME NEW t, NEW path, IsSeq(path), Free(t, path), NEW node
    PROVE  Plus(t, Reached(t, path), node)[Normal(path)] = node
<1>1. Reached(t, path) = Normal(path)
  BY ReachedIsNormal DEF Free
<1> QED
  BY <1>1 DEF Plus

\* A tree that has grown by directories at places a path passes through.
Grown(t, u, path) ==
    /\ IsTree(u)
    /\ \A p \in DOMAIN t : p \in DOMAIN u /\ u[p] = t[p]
    /\ \A p \in DOMAIN u \ DOMAIN t :
          /\ \E n \in 0..Len(path) : p = Normal(SubSeq(path, 1, n))
          /\ u[p] = NewDirectory

IsDirectory(t, p) == p \in DOMAIN t /\ t[p].kind = "dir"

LEMMA DirectoryMade ==
    ASSUME NEW done, IsTree(done.tree), NEW path, IsSeq(path),
           NEW n \in Nat, n <= Len(path)
    PROVE  LET made == CreateDir(path, done, n)
           IN  /\ Grown(done.tree, made.tree, path)
               /\ made.ok => IsDirectory(made.tree, Normal(SubSeq(path, 1, n)))
<1> DEFINE t == done.tree
           p == SubSeq(path, 1, n)
           made == CreateDir(path, done, n)
<1>1. IsSeq(p)
  BY PrefixCells
<1>2. CASE ~done.ok \/ IsDir(t, p)
  <2>1. made = done
    BY <1>2 DEF CreateDir
  <2>2. Grown(t, t, path)
    BY DEF Grown
  <2>3. done.ok => IsDirectory(t, Normal(p))
    <3> HIDE DEF p, t
    <3>1. IsDir(t, p) => Reached(t, p) = Normal(p)
      BY <1>1, ReachedIsNormal DEF IsDir, Exists, IsTree, t
    <3> QED
      BY <1>2, <3>1 DEF IsDir, Exists, IsDirectory
  <2> QED
    BY <2>1, <2>2, <2>3
<1>3. CASE done.ok /\ ~IsDir(t, p) /\ ~Free(t, p)
  <2>1. made.tree = t /\ ~made.ok
    BY <1>3 DEF CreateDir
  <2>2. Grown(t, t, path)
    BY DEF Grown
  <2> QED
    BY <2>1, <2>2
<1>4. CASE done.ok /\ ~IsDir(t, p) /\ Free(t, p)
  <2>1. made.tree = Plus(t, Reached(t, p), NewDirectory)
    BY <1>4 DEF CreateDir
  <2>2. IsNode(NewDirectory) /\ NewDirectory.kind = "dir"
    BY DEF NewDirectory, IsNode, Modes
  <2> HIDE DEF t, p, made
  <2>3. IsTree(t)
    BY DEF t
  <2> DEFINE w == Plus(t, Reached(t, p), NewDirectory)
  <2>4. /\ IsTree(w) /\ DOMAIN w = DOMAIN t \cup {Normal(p)}
        /\ \A q \in DOMAIN t : w[q] = t[q]
    BY <1>1, <1>4, <2>2, <2>3, PlusTree, Zenon
  <2>8. w[Normal(p)] = NewDirectory
    BY <1>1, <1>4, PlusNode
  <2> HIDE DEF w
  <2>5. n \in 0..Len(path)
    BY LenIsNat
  <2>6. Grown(t, w, path)
    BY <2>4, <2>5, <2>8 DEF Grown, p
  <2>7. IsDirectory(w, Normal(p))
    BY <2>2, <2>4, <2>8 DEF IsDirectory
  <2> QED
    BY <2>1, <2>6, <2>7 DEF t, p, w, made
<1> QED
  BY <1>2, <1>3, <1>4

\* Of create_dir_all too.
LEMMA DirectoriesMade ==
    ASSUME NEW t, IsTree(t), NEW path, IsSeq(path)
    PROVE  LET made == CreateDirAll(t, path)
           IN  /\ Grown(t, made.tree, path)
               /\ made.ok /\ path # << >> => IsDirectory(made.tree, Normal(path))
<1>1. Len(path) \in Nat
  BY LenIsNat
<1>2. PICK v : /\ v[0] = [tree |-> t, ok |-> TRUE]
               /\ CreateDirAll(t, path) = v[Len(path)]
               /\ \A k \in Nat : k < Len(path) =>
                    v[k + 1] = CreateDir(path, v[k], Indices(path)[k + 1])
  BY <1>1, MadeSteps
<1> DEFINE n == Len(path)
           At(k) == v[k].ok /\ k # 0 => IsDirectory(v[k].tree, Normal(SubSeq(path, 1, k)))
<1> DEFINE S == {k \in Nat : k <= n => Grown(t, v[k].tree, path) /\ At(k)}
<1>3. 0 \in S
  BY <1>2 DEF Grown
<1>4. ASSUME NEW k \in Nat, k \in S PROVE k + 1 \in S
  <2> SUFFICES ASSUME k + 1 <= n PROVE Grown(t, v[k + 1].tree, path) /\ At(k + 1)
    OBVIOUS
  <2>1. k < n /\ k <= n /\ k + 1 \in 1..n
    BY <1>1
  <2>2. Indices(path)[k + 1] = k + 1
    BY <1>1, <2>1 DEF Indices
  <2>3. v[k + 1] = CreateDir(path, v[k], k + 1)
    BY <1>2, <2>1, <2>2
  <2>4. Grown(t, v[k].tree, path)
    BY <1>4, <2>1
  <2>5. /\ Grown(v[k].tree, v[k + 1].tree, path)
        /\ v[k + 1].ok => IsDirectory(v[k + 1].tree, Normal(SubSeq(path, 1, k + 1)))
    <3> DEFINE m == k + 1
    <3>1. IsTree(v[k].tree) /\ m \in Nat /\ m <= Len(path)
      BY <1>1, <2>1, <2>4 DEF Grown
    <3> HIDE DEF m
    <3>2. LET made == CreateDir(path, v[k], m)
          IN  /\ Grown(v[k].tree, made.tree, path)
              /\ made.ok => IsDirectory(made.tree, Normal(SubSeq(path, 1, m)))
      BY <3>1, DirectoryMade
    <3> QED
      BY <2>3, <3>2 DEF m
  <2> QED
    BY <2>4, <2>5 DEF Grown
<1> HIDE DEF S
<1>5. n \in S
  BY <1>1, <1>3, <1>4, Induction
<1>6. Grown(t, v[n].tree, path) /\ At(n)
  BY <1>1, <1>5 DEF S
<1>7. path # << >> => n # 0
  BY EmptyIsSeq
<1> QED
  BY <1>2, <1>6, <1>7, WholeIsPrefix

\* One node of a tree given another content or mode.
LEMMA NodeChanged ==
    ASSUME NEW t, IsTree(t), NEW place \in DOMAIN t, NEW node,
           node.kind = t[place].kind, IsNode(node)
    PROVE  LET u == [t EXCEPT ![place] = node]
           IN  /\ IsTree(u) /\ DOMAIN u = DOMAIN t
               /\ \A p \in DOMAIN t : p # place => u[p] = t[p]
<1> DEFINE u == [t EXCEPT ![place] = node]
<1>1. /\ DOMAIN u = DOMAIN t /\ u = [p \in DOMAIN t |-> u[p]]
      /\ u[place] = node /\ \A p \in DOMAIN t : p # place => u[p] = t[p]
  OBVIOUS
<1> HIDE DEF u
<1>2. \A p \in DOMAIN t : u[p].kind = t[p].kind /\ IsNode(u[p])
  <2>1. \A p \in DOMAIN t : IsNode(t[p])
    BY DEF IsTree
  <2> TAKE p \in DOMAIN t
  <2>2. CASE p = place
    BY <1>1, <2>2
  <2>3. CASE p # place
    <3>1. u[p] = t[p]
      BY <1>1, <2>3
    <3> QED
      BY <2>1, <3>1
  <2> QED
    BY <2>2, <2>3
<1>3. IsTree(u)
  <2>1. /\ Nowhere \notin DOMAIN t /\ << >> \in DOMAIN t
        /\ \A p \in DOMAIN t \ {<< >>} :
              IsSeq(p) /\ Front(p) \in DOMAIN t /\ t[Front(p)].kind = "dir"
    BY DEF IsTree
  <2>2. \A p \in DOMAIN u \ {<< >>} :
              IsSeq(p) /\ Front(p) \in DOMAIN u /\ u[Front(p)].kind = "dir"
    BY <1>1, <1>2, <2>1, Zenon
  <2> QED
    BY <1>1, <1>2, <2>1, <2>2 DEF IsTree
<1> QED
  BY <1>1, <1>3 DEF u

-----------------------------------------------------------------------------
(***************************************************************************)
(* What one entry may do to a tree.                                        *)
(***************************************************************************)
\* An entry whose name is enclosed passes only through places on the way to
\* the directory and in it, and ends in it.
LEMMA PassedPlaces ==
    ASSUME NEW e, IsSeq(e.name.components), Enclosed(e.name)
    PROVE  /\ IsSeq(OutPath(e)) /\ Len(OutPath(e)) \in Nat /\ OutPath(e) # << >>
           /\ \A p \in Passed(e) : Inside(p) \/ OnTheWay(p)
           /\ Inside(Place(e)) /\ Place(e) \in Passed(e)
<1> DEFINE c == e.name.components
           path == Directory \o c
           l == Len(Directory)
<1>1. IsSeq(Directory) /\ Directory # << >>
  BY ExtractAssumption
<1>2. /\ IsSeq(path) /\ Len(path) = l + Len(c) /\ l \in Nat /\ Len(c) \in Nat
      /\ l # 0
  BY <1>1, ConcatIsSeq, LenIsNat
<1>3. \A i \in 1..l : path[i] = Directory[i]
  <2>1. \A j \in 1..l + Len(c) : path[j] = IF j <= l THEN Directory[j] ELSE c[j - l]
    BY <1>1, ConcatCells
  <2> HIDE DEF path, c
  <2> QED
    BY <1>2, <2>1
<1>4. path # << >>
  <2>1. Len(path) # 0
    BY <1>2
  <2> QED
    BY <2>1
<1> HIDE DEF path
<1>5. ASSUME NEW n \in 0..Len(path)
      PROVE  LET p == Normal(SubSeq(path, 1, n))
             IN  /\ Inside(p) \/ OnTheWay(p)
                 /\ n = Len(path) => Inside(p)
  <2>1. CASE l <= n
    <3> DEFINE k == n - l
    <3>1. k \in Nat /\ k <= Len(c) /\ l + k = n
      BY <1>2, <2>1
    <3>2. Inside(Normal(SubSeq(path, 1, l + k)))
      BY <1>1, <3>1, EnclosedInside DEF path
    <3> QED
      BY <3>1, <3>2
  <2>2. CASE n < l
    <3> DEFINE a == SubSeq(path, 1, n)
               b == SubSeq(Directory, 1, n)
    <3>1. n \in Nat /\ n <= Len(path) /\ n <= l /\ n \in 0..l /\ n # Len(path)
      BY <1>2, <2>2
    <3>2. IsSeq(a) /\ Len(a) = n /\ \A i \in 1..n : a[i] = path[i]
      BY <1>2, <3>1, PrefixCells
    <3>3. IsSeq(b) /\ Len(b) = n /\ \A i \in 1..n : b[i] = Directory[i]
      BY <1>1, <3>1, PrefixCells
    <3>4. \A i \in 1..n : path[i] = Directory[i]
      BY <1>2, <1>3, <3>1
    <3> HIDE DEF a, b
    <3>5. a = b
      BY <3>2, <3>3, <3>4, SameCells
    <3>6. OnTheWay(Normal(SubSeq(path, 1, n)))
      BY <3>1, <3>5 DEF OnTheWay, a, b
    <3> QED
      BY <3>1, <3>6
  <2> QED
    BY <1>2, <2>1, <2>2
<1>6. OutPath(e) = path
  BY DEF OutPath, path
<1>7. Len(path) \in 0..Len(path) /\ SubSeq(path, 1, Len(path)) = path
  BY <1>2, WholeIsPrefix
<1>8. \A p \in Passed(e) : Inside(p) \/ OnTheWay(p)
  BY <1>5, <1>6 DEF Passed
<1>9. Inside(Place(e))
  BY <1>5, <1>6, <1>7 DEF Place
<1>10. Place(e) \in Passed(e)
  BY <1>6, <1>7 DEF Passed, Place
<1> QED
  BY <1>2, <1>4, <1>6, <1>8, <1>9, <1>10

\* A tree in which nothing is new but what the entry passes through, and
\* nothing but what it names is not as it was.
Touched(t, u, e) ==
    /\ IsTree(u)
    /\ \A p \in DOMAIN t : p \in DOMAIN u /\ (u[p] = t[p] \/ p = Place(e))
    /\ \A p \in DOMAIN u \ DOMAIN t : p \in Passed(e)

\* Nodes stay what they are, and new ones have the modes of new ones.
Careful(t, u, e) ==
    /\ Touched(t, u, e)
    /\ \A p \in DOMAIN t : u[p].kind = t[p].kind /\ u[p].mode = t[p].mode
    /\ \A p \in DOMAIN u \ DOMAIN t :
          u[p].mode = IF u[p].kind = "dir" THEN NewDirectory.mode ELSE NewFile.mode

LEMMA NothingTouched == ASSUME NEW t, IsTree(t), NEW e PROVE Careful(t, t, e)
BY DEF Careful, Touched

\* Directories on the path of an entry.
LEMMA PathMade ==
    ASSUME NEW t, IsTree(t), NEW e, IsSeq(OutPath(e)),
           NEW m \in Nat, m <= Len(OutPath(e))
    PROVE  Careful(t, CreateDirAll(t, SubSeq(OutPath(e), 1, m)).tree, e)
<1> DEFINE path == OutPath(e)
           a == SubSeq(path, 1, m)
           u == CreateDirAll(t, a).tree
<1>1. IsSeq(a) /\ Len(a) = m
  BY PrefixCells
<1>2. Grown(t, u, a)
  BY <1>1, DirectoriesMade
<1>3. ASSUME NEW n \in 0..Len(a) PROVE Normal(SubSeq(a, 1, n)) \in Passed(e)
  <2>1. n \in Nat /\ n <= m /\ n \in 0..Len(path)
    BY <1>1, LenIsNat
  <2>2. SubSeq(a, 1, n) = SubSeq(path, 1, n)
    BY <2>1, PrefixOfPrefix
  <2> QED
    BY <2>1, <2>2 DEF Passed
<1> HIDE DEF a, u
<1>4. Touched(t, u, e)
  BY <1>2, <1>3 DEF Grown, Touched
<1>5. Careful(t, u, e)
  BY <1>2, <1>4 DEF Grown, Careful, NewDirectory
<1> QED
  BY <1>5 DEF u, a

LEMMA DirectoriesTouch ==
    ASSUME NEW t, IsTree(t), NEW e, IsSeq(OutPath(e)), OutPath(e) # << >>, NEW x
    PROVE  Careful(t, Directories(x, t, e).tree, e)
<1> DEFINE path == OutPath(e)
<1>1. Len(path) \in Nat /\ Len(path) - 1 \in Nat
  BY LenIsNat, EmptyIsSeq
<1>2. SubSeq(path, 1, Len(path)) = path /\ SubSeq(path, 1, Len(path) - 1) = Front(path)
  BY WholeIsPrefix, FrontCells
<1>3. Careful(t, CreateDirAll(t, path).tree, e)
  <2> DEFINE m == Len(path)
  <2>1. m \in Nat /\ m <= Len(path) /\ SubSeq(path, 1, m) = path
    BY <1>1, <1>2
  <2> HIDE DEF m
  <2>2. Careful(t, CreateDirAll(t, SubSeq(path, 1, m)).tree, e)
    BY <2>1, PathMade
  <2> QED
    BY <2>1, <2>2
<1>4. Careful(t, CreateDirAll(t, Front(path)).tree, e)
  <2>1. Len(path) - 1 <= Len(path)
    BY <1>1
  <2> QED
    BY <1>1, <1>2, <2>1, PathMade
<1>5. Careful(t, t, e)
  BY NothingTouched
<1> QED
  BY <1>3, <1>4, <1>5 DEF Directories

\* A node that is there, where the path of the entry leads, is what it names.
LEMMA NodeTouched ==
    ASSUME NEW t, IsTree(t), NEW e, IsSeq(OutPath(e)),
           Reached(t, OutPath(e)) \in DOMAIN t, NEW node, IsNode(node),
           node.kind = t[Reached(t, OutPath(e))].kind
    PROVE  Touched(t, [t EXCEPT ![Reached(t, OutPath(e))] = node], e)
<1> DEFINE place == Reached(t, OutPath(e))
           u == [t EXCEPT ![place] = node]
<1>1. place = Place(e)
  BY ReachedIsNormal DEF IsTree, Place
<1>2. /\ IsTree(u) /\ DOMAIN u = DOMAIN t
      /\ \A p \in DOMAIN t : p # place => u[p] = t[p]
  BY NodeChanged
<1> HIDE DEF place, u
<1>3. Touched(t, u, e)
  BY <1>1, <1>2 DEF Touched
<1> QED
  BY <1>3 DEF place, u

\* Content and mode may be anything, the kind stays.
LEMMA DataTouched ==
    ASSUME NEW t, IsTree(t), NEW e, IsSeq(OutPath(e)),
           Reached(t, OutPath(e)) \in DOMAIN t, NEW d
    PROVE  Careful(t, [t EXCEPT ![Reached(t, OutPath(e))].data = d], e)
<1> DEFINE place == Reached(t, OutPath(e))
           old == t[place]
           node == [old EXCEPT !.data = d]
           u == [t EXCEPT ![place] = node]
<1>1. IsNode(old)
  BY DEF IsTree
<1>2. node = [kind |-> old.kind, data |-> d, mode |-> old.mode]
  BY <1>1 DEF IsNode
<1>3. IsNode(node) /\ node.kind = old.kind /\ node.mode = old.mode
  BY <1>1, <1>2 DEF IsNode
<1> HIDE DEF node
<1>4. Touched(t, u, e)
  BY <1>3, NodeTouched
<1>5. DOMAIN u = DOMAIN t /\ \A p \in DOMAIN t : u[p] = IF p = place THEN node ELSE t[p]
  OBVIOUS
<1> HIDE DEF u
<1>6. \A p \in DOMAIN t : u[p].kind = t[p].kind /\ u[p].mode = t[p].mode
  BY <1>3, <1>5
<1>7. Careful(t, u, e)
  BY <1>4, <1>5, <1>6 DEF Careful
<1> QED
  BY <1>7 DEF u, node

LEMMA ModeTouched ==
    ASSUME NEW t, IsTree(t), NEW e, IsSeq(OutPath(e)),
           Reached(t, OutPath(e)) \in DOMAIN t, NEW m \in Modes
    PROVE  Touched(t, [t EXCEPT ![Reached(t, OutPath(e))].mode = m], e)
<1> DEFINE place == Reached(t, OutPath(e))
           old == t[place]
           node == [old EXCEPT !.mode = m]
<1>1. IsNode(old)
  BY DEF IsTree
<1>2. node = [kind |-> old.kind, data |-> old.data, mode |-> m]
  BY <1>1 DEF IsNode
<1>3. IsNode(node) /\ node.kind = old.kind
  BY <1>1, <1>2 DEF IsNode
<1>4. Touched(t, [t EXCEPT ![place] = node], e)
  <2> HIDE DEF node
  <2> QED
    BY <1>3, NodeTouched
<1> QED
  BY <1>4

\* What the node then holds.
LEMMA NodeThere ==
    ASSUME NEW t, IsTree(t), NEW path, IsSeq(path), Reached(t, path) \in DOMAIN t
    PROVE  /\ Reached(t, path) = Normal(path) /\ Normal(path) \in DOMAIN t
           /\ \A d : [t EXCEPT ![Reached(t, path)].data = d][Normal(path)].data = d
           /\ \A m : LET u == [t EXCEPT ![Reached(t, path)].mode = m]
                     IN  /\ DOMAIN u = DOMAIN t /\ u[Normal(path)].mode = m
                         /\ \A p \in DOMAIN t :
                               /\ u[p].kind = t[p].kind /\ u[p].data = t[p].data
                               /\ p # Normal(path) => u[p] = t[p]
<1> DEFINE place == Reached(t, path)
<1>1. place = Normal(path)
  BY ReachedIsNormal DEF IsTree
<1>2. t[place] = [kind |-> t[place].kind, data |-> t[place].data, mode |-> t[place].mode]
  BY DEF IsTree, IsNode
<1> HIDE DEF place
<1>3. /\ place \in DOMAIN t
      /\ \A d : [t EXCEPT ![place].data = d][place].data = d
  BY <1>2 DEF place
<1>4. ASSUME NEW m
      PROVE  LET u == [t EXCEPT ![place].mode = m]
             IN  /\ DOMAIN u = DOMAIN t /\ u[place].mode = m
                 /\ \A p \in DOMAIN t :
                       /\ u[p].kind = t[p].kind /\ u[p].data = t[p].data
                       /\ p # place => u[p] = t[p]
  <2> DEFINE u == [t EXCEPT ![place].mode = m]
  <2>1. /\ DOMAIN u = DOMAIN t /\ u[place].mode = m
        /\ u[place].kind = t[place].kind /\ u[place].data = t[place].data
        /\ \A p \in DOMAIN t : p # place => u[p] = t[p]
    BY <1>2, <1>3
  <2> HIDE DEF u
  <2>2. \A p \in DOMAIN t : u[p].kind = t[p].kind /\ u[p].data = t[p].data
    BY <2>1
  <2> QED
    BY <2>1, <2>2 DEF u
<1> QED
  BY <1>1, <1>3, <1>4 DEF place

\* A path leads where it led while no kind and no mode changes.
LEMMA ReachedKept ==
    ASSUME NEW t, NEW u, NEW path, IsSeq(path), Reached(t, path) # Nowhere,
           \A p \in DOMAIN t : /\ p \in DOMAIN u /\ u[p].kind = t[p].kind
                               /\ u[p].mode = t[p].mode
    PROVE  Reached(u, path) = Reached(t, path)
<1> DEFINE R(k) == Reached(t, SubSeq(path, 1, k))
           Q(k) == Reached(u, SubSeq(path, 1, k))
           S == {k \in Nat : k <= Len(path) /\ R(k) # Nowhere => Q(k) = R(k)}
<1>1. 0 \in S
  BY WalkedPrefix
<1>2. ASSUME NEW k \in Nat, k \in S PROVE k + 1 \in S
  <2> SUFFICES ASSUME k + 1 <= Len(path), R(k + 1) # Nowhere PROVE Q(k + 1) = R(k + 1)
    OBVIOUS
  <2>1. k < Len(path) /\ k <= Len(path)
    BY LenIsNat
  <2>2. /\ R(k + 1) = Lookup(t, R(k), path[k + 1])
        /\ Q(k + 1) = Lookup(u, Q(k), path[k + 1])
    BY <2>1, WalkedPrefix
  <2>3. R(k) # Nowhere => Q(k) = R(k)
    BY <1>2, <2>1
  <2> HIDE DEF Q, R
  <2>4. R(k) # Nowhere /\ R(k) \in DOMAIN t
    BY <2>2 DEF Lookup
  <2> QED
    BY <2>2, <2>3, <2>4 DEF Lookup, Searchable
<1>3. Len(path) \in S
  <2> HIDE DEF S
  <2> QED
    BY <1>1, <1>2, Induction, LenIsNat
<1>4. Len(path) \in Nat /\ Len(path) <= Len(path)
  BY LenIsNat
<1>5. R(Len(path)) # Nowhere => Q(Len(path)) = R(Len(path))
  BY <1>3, <1>4
<1> QED
  BY <1>5, WholeIsPrefix

LEMMA FileTouched ==
    ASSUME NEW t, IsTree(t), NEW e, IsSeq(OutPath(e)), CanCreate(t, OutPath(e))
    PROVE  LET u == Created(t, OutPath(e))
           IN  /\ Careful(t, u, e) /\ Reached(u, OutPath(e)) = Place(e)
               /\ Place(e) \in DOMAIN u
               /\ u[Place(e)].kind = "file" /\ u[Place(e)].data = << >>
<1> DEFINE path == OutPath(e)
           place == Reached(t, path)
           u == Created(t, path)
<1>1. /\ Careful(t, u, e) /\ place = Place(e) /\ place # Nowhere
      /\ Place(e) \in DOMAIN u
      /\ u[Place(e)].kind = "file" /\ u[Place(e)].data = << >>
  <2>1. CASE Exists(t, path)
    <3> DEFINE d == << >>
               w == [t EXCEPT ![place].data = d]
    <3>1. u = w /\ place \in DOMAIN t
      BY <2>1 DEF Created, Exists
    <3> HIDE DEF d
    <3>2. Careful(t, w, e)
      BY <3>1, DataTouched
    <3>3. place = Place(e) /\ place # Nowhere /\ w[Place(e)].data = d
      BY <3>1, NodeThere DEF IsTree, Place
    <3>4. t[place].kind = "file"
      BY <2>1, <3>1 DEF CanCreate, Free
    <3> HIDE DEF place, w, u
    <3>5. w[place].kind = "file" /\ place \in DOMAIN w
      BY <3>1, <3>2, <3>4 DEF Careful, Touched
    <3> QED
      BY <3>1, <3>2, <3>3, <3>5 DEF d
  <2>2. CASE ~Exists(t, path)
    <3> DEFINE w == Plus(t, place, NewFile)
    <3>1. Free(t, path)
      BY <2>2 DEF CanCreate
    <3>2. IsNode(NewFile) /\ NewFile.kind = "file" /\ NewFile.data = << >>
      BY DEF IsNode, NewFile, Modes
    <3>3. /\ IsTree(w) /\ DOMAIN w = DOMAIN t \cup {Normal(path)}
          /\ \A p \in DOMAIN t : w[p] = t[p]
      BY <3>1, <3>2, PlusTree
    <3>4. w[Normal(path)] = NewFile
      BY <3>1, PlusNode
    <3>5. Normal(path) \in Passed(e)
      <4>1. Len(path) \in 0..Len(path) /\ SubSeq(path, 1, Len(path)) = path
        BY LenIsNat, WholeIsPrefix
      <4> QED
        BY <4>1 DEF Passed
    <3>6. place = Normal(path) /\ place # Nowhere /\ Normal(path) = Place(e)
      BY <3>1, ReachedIsNormal DEF Free, Place
    <3>7. u = w
      BY <2>2 DEF Created
    <3> HIDE DEF w, u, path, place
    <3>8. Touched(t, w, e)
      BY <3>3, <3>5 DEF Touched
    <3>9. Careful(t, w, e)
      BY <3>2, <3>3, <3>4, <3>8 DEF Careful
    <3> QED
      BY <3>2, <3>3, <3>4, <3>6, <3>7, <3>9
  <2> QED
    BY <2>1, <2>2
<1> HIDE DEF u, path
<1>2. Reached(u, path) = place
  BY <1>1, ReachedKept DEF Careful, Touched, path
<1> QED
  BY <1>1, <1>2 DEF u, path

-----------------------------------------------------------------------------
(***************************************************************************)
(* The invariant.                                                          *)
(***************************************************************************)
\* Past its opening, an entry is there and its name is enclosed.
Going ==
    \A x \in Extractors :
        at[x].step # "open" => at[x].entry <= Len(archive) /\ Enclosed(Entry(x).name)

ExtractInv ==
    /\ TypeOK /\ tree = [x \in Extractors |-> tree[x]]
    /\ Going /\ StaysInside

Position ==
    [entry : 1..Len(archive) + 1,
     step : {"open", "directories", "create", "copy", "mode"}, copied : Nat]

\* What every step of an extractor does to its place in the archive,
Advances(x) ==
    /\ UNCHANGED <<archive, before>> /\ at' = [at EXCEPT ![x] = at'[x]]
    /\ at'[x] \in Position /\ at[x].entry <= at'[x].entry
    /\ at'[x].step # "open" =>
          /\ at'[x].entry = at[x].entry /\ at[x].entry <= Len(archive)
          /\ Enclosed(Entry(x).name)

\* and to the file system.
Changes(x) ==
    /\ tree' = [tree EXCEPT ![x] = tree'[x]]
    /\ tree'[x] # tree[x] =>
          /\ at[x].entry <= Len(archive) /\ Enclosed(Entry(x).name)
          /\ Touched(tree[x], tree'[x], Entry(x))

Outcomes(x) ==
    /\ result' \in [Extractors -> {"running", "ok", "error"}]
    /\ faults' \in 0..MaxFaults

\* An entry of an archive.
LEMMA EntryIsOne ==
    ASSUME TypeOK, NEW x \in Extractors, at[x].entry <= Len(archive)
    PROVE  /\ at[x].entry \in 1..Len(archive) /\ IsSeq(Entry(x).name.components)
           /\ Entry(x).attributes[1] \in U16
<1>1. at[x].entry \in 1..Len(archive) + 1 /\ archive \in Archives
  BY DEF TypeOK
<1>2. Len(archive) \in Nat
  BY <1>1, ExtractAssumption, LenIsNat
<1>3. at[x].entry \in 1..Len(archive)
  BY <1>1, <1>2
<1> QED
  BY <1>1, <1>3, ExtractAssumption DEF Entry

LEMMA StepKeepsInv ==
    ASSUME ExtractInv, NEW x \in Extractors, Advances(x), Changes(x), Outcomes(x)
    PROVE  ExtractInv'
<1> DEFINE e == Entry(x)
           i == at[x].entry
<1>1. /\ archive' = archive /\ before' = before
      /\ archive \in Archives /\ before \in Trees
      /\ at \in [Extractors -> Position]
      /\ \A y \in Extractors : IsTree(tree[y])
  BY DEF ExtractInv, TypeOK, Advances, Position
<1>2. /\ at' \in [Extractors -> Position] /\ at'[x] \in Position
      /\ \A y \in Extractors : y # x => at'[y] = at[y]
      /\ at[x].entry <= at'[x].entry
  BY <1>1 DEF Advances
<1>3. /\ \A y \in Extractors : y # x => tree'[y] = tree[y]
      /\ tree' = [y \in Extractors |-> tree'[y]]
  <2>1. tree = [y \in Extractors |-> tree[y]] /\ tree' = [tree EXCEPT ![x] = tree'[x]]
    BY DEF ExtractInv, Changes
  <2>2. DOMAIN tree = Extractors
    BY <2>1
  <2> QED
    BY <2>1, <2>2
<1>4. Started(x) \subseteq Started(x)' /\ \A y \in Extractors \ {x} : Started(y)' = Started(y)
  <2>1. Started(x) \subseteq Started(x)'
    <3>1. at[x].entry \in Int /\ at'[x].entry \in Int
      BY <1>1, <1>2 DEF Position
    <3>2. \A k \in 1..Len(archive) : k <= at[x].entry => k <= at'[x].entry
      BY <1>2, <3>1
    <3> QED
      BY <1>1, <3>2 DEF Started
  <2>2. \A y \in Extractors \ {x} : Started(y)' = Started(y)
    BY <1>1, <1>2 DEF Started
  <2> QED
    BY <2>1, <2>2
<1>5. tree'[x] # tree[x] =>
         /\ Touched(tree[x], tree'[x], e) /\ i \in Started(x)' /\ e = archive[i]
         /\ Inside(Place(e)) /\ \A p \in Passed(e) : Inside(p) \/ OnTheWay(p)
  <2> SUFFICES ASSUME tree'[x] # tree[x]
               PROVE  /\ Touched(tree[x], tree'[x], e)
                      /\ i \in Started(x)' /\ e = archive[i] /\ Inside(Place(e))
                      /\ \A p \in Passed(e) : Inside(p) \/ OnTheWay(p)
    OBVIOUS
  <2>1. /\ i <= Len(archive) /\ Enclosed(e.name) /\ Touched(tree[x], tree'[x], e)
        /\ e = archive[i]
    BY DEF Changes, Entry
  <2>2. i \in 1..Len(archive) /\ IsSeq(e.name.components)
    BY <2>1, EntryIsOne DEF ExtractInv
  <2>3. i \in Started(x)'
    BY <1>1, <1>2, <2>2 DEF Started
  <2> QED
    BY <2>1, <2>2, <2>3, PassedPlaces
<1>6. \A y \in Extractors : IsTree(tree'[y])
  BY <1>1, <1>3, <1>5 DEF Touched
<1>7. TypeOK'
  BY <1>1, <1>2, <1>6 DEF TypeOK, Position, Outcomes
<1>8. Going'
  <2> SUFFICES ASSUME NEW y \in Extractors, at'[y].step # "open"
               PROVE  at'[y].entry <= Len(archive) /\ Enclosed(archive[at'[y].entry].name)
    BY <1>1 DEF Going, Entry
  <2>1. CASE y = x
    BY <2>1 DEF Advances, Entry
  <2>2. CASE y # x
    BY <1>2, <2>2 DEF ExtractInv, Going, Entry
  <2> QED
    BY <2>1, <2>2
<1>9. StaysInside'
  <2> SUFFICES ASSUME NEW y \in Extractors
      PROVE  /\ \A p \in DOMAIN before :
                   \/ p \in DOMAIN tree'[y] /\ tree'[y][p] = before[p]
                   \/ Inside(p) /\ \E k \in Started(y)' : p = Place(archive[k])
             /\ \A p \in DOMAIN tree'[y] \ DOMAIN before :
                   /\ Inside(p) \/ OnTheWay(p)
                   /\ \E k \in Started(y)' : p \in Passed(archive[k])
    BY <1>1 DEF StaysInside
  <2>1. /\ \A p \in DOMAIN before :
             \/ p \in DOMAIN tree[y] /\ tree[y][p] = before[p]
             \/ Inside(p) /\ \E k \in Started(y)' : p = Place(archive[k])
        /\ \A p \in DOMAIN tree[y] \ DOMAIN before :
             /\ Inside(p) \/ OnTheWay(p)
             /\ \E k \in Started(y)' : p \in Passed(archive[k])
    BY <1>4 DEF ExtractInv, StaysInside
  <2>2. CASE tree'[y] = tree[y]
    BY <2>1, <2>2
  <2>3. CASE tree'[y] # tree[y]
    <3>1. y = x
      BY <1>3, <2>3
    <3>2. /\ Touched(tree[y], tree'[y], e) /\ i \in Started(y)' /\ e = archive[i]
          /\ Inside(Place(e)) /\ \A p \in Passed(e) : Inside(p) \/ OnTheWay(p)
      BY <1>5, <2>3, <3>1
    <3> HIDE DEF e, i
    <3>3. ASSUME NEW p \in DOMAIN before
          PROVE  \/ p \in DOMAIN tree'[y] /\ tree'[y][p] = before[p]
                 \/ Inside(p) /\ \E k \in Started(y)' : p = Place(archive[k])
      <4>1. CASE p \in DOMAIN tree[y] /\ tree[y][p] = before[p]
        BY <3>2, <4>1 DEF Touched
      <4> QED
        BY <2>1, <4>1
    <3>4. ASSUME NEW p \in DOMAIN tree'[y] \ DOMAIN before
          PROVE  /\ Inside(p) \/ OnTheWay(p)
                 /\ \E k \in Started(y)' : p \in Passed(archive[k])
      <4>1. CASE p \in DOMAIN tree[y]
        BY <2>1, <4>1
      <4>2. CASE p \notin DOMAIN tree[y]
        BY <3>2, <4>2 DEF Touched
      <4> QED
        BY <4>1, <4>2
    <3> QED
      BY <3>3, <3>4
  <2> QED
    BY <2>2, <2>3
<1> QED
  BY <1>3, <1>7, <1>8, <1>9 DEF ExtractInv

\* The ways on through the archive.
LEMMA GoesOn ==
    ASSUME ExtractInv, NEW x \in Extractors, UNCHANGED <<archive, before>>,
           at[x].entry <= Len(archive), Enclosed(Entry(x).name),
           NEW step \in {"directories", "create", "copy", "mode"}, GoTo(x, step)
    PROVE  Advances(x) /\ result' = result
<1>1. at \in [Extractors -> Position]
  BY DEF ExtractInv, TypeOK, Position
<1>2. /\ at' = [at EXCEPT ![x] = [at[x] EXCEPT !.step = step, !.copied = 0]]
      /\ result' = result
  BY <1>1 DEF GoTo, Position
<1>3. at[x] \in Position /\ archive' = archive
  BY <1>1
<1>4. /\ at'[x] = [entry |-> at[x].entry, step |-> step, copied |-> 0]
      /\ at' = [at EXCEPT ![x] = at'[x]]
  BY <1>1, <1>2, <1>3 DEF Position
<1>5. at'[x] \in Position /\ at[x].entry <= at'[x].entry
  <2>1. at[x].entry \in Int /\ at[x].entry \in 1..Len(archive) + 1
    BY <1>3 DEF Position
  <2> QED
    BY <1>4, <2>1 DEF Position
<1> QED
  BY <1>2, <1>4, <1>5 DEF Advances

LEMMA GoesToNext ==
    ASSUME ExtractInv, NEW x \in Extractors, UNCHANGED <<archive, before>>,
           at[x].entry <= Len(archive), NextEntry(x)
    PROVE  Advances(x) /\ result' = result
<1>1. at \in [Extractors -> Position]
  BY DEF ExtractInv, TypeOK, Position
<1>2. /\ at' = [at EXCEPT ![x] = [entry |-> at[x].entry + 1, step |-> "open", copied |-> 0]]
      /\ result' = result
  BY <1>1 DEF NextEntry
<1>3. /\ at'[x] = [entry |-> at[x].entry + 1, step |-> "open", copied |-> 0]
      /\ at' = [at EXCEPT ![x] = at'[x]]
  BY <1>1, <1>2
<1>4. at[x].entry \in 1..Len(archive)
  BY EntryIsOne DEF ExtractInv
<1>5. Len(archive) \in Nat
  <2>1. archive \in Archives
    BY DEF ExtractInv, TypeOK
  <2> QED
    BY <2>1, ExtractAssumption, LenIsNat
<1>6. at'[x] \in Position /\ at[x].entry <= at'[x].entry
  BY <1>3, <1>4, <1>5 DEF Position
<1> QED
  BY <1>2, <1>3, <1>6 DEF Advances

LEMMA StandsStill ==
    ASSUME ExtractInv, NEW x \in Extractors, UNCHANGED <<archive, before, at>>
    PROVE  Advances(x)
<1>1. at \in [Extractors -> Position]
  BY DEF ExtractInv, TypeOK, Position
<1>2. at'[x] = at[x] /\ at[x] \in Position /\ at' = [at EXCEPT ![x] = at'[x]]
  BY <1>1
<1>3. at[x].entry <= at'[x].entry
  <2>1. at[x].entry \in Int
    BY <1>2 DEF Position
  <2> QED
    BY <1>2, <2>1
<1> QED
  BY <1>2, <1>3 DEF Advances, ExtractInv, Going

LEMMA Fails ==
    ASSUME ExtractInv, NEW x \in Extractors, UNCHANGED <<archive, before>>, Fail(x)
    PROVE  Advances(x) /\ result' \in [Extractors -> {"running", "ok", "error"}]
BY StandsStill DEF Fail, ExtractInv, TypeOK

LEMMA TreeStays ==
    ASSUME ExtractInv, NEW x \in Extractors, UNCHANGED tree
    PROVE  Changes(x)
<1>1. tree = [y \in Extractors |-> tree[y]]
  BY DEF ExtractInv
<1> QED
  BY <1>1 DEF Changes

LEMMA TreeChanges ==
    ASSUME ExtractInv, NEW x \in Extractors, NEW u,
           tree' = [tree EXCEPT ![x] = u], at[x].entry <= Len(archive),
           Enclosed(Entry(x).name), Touched(tree[x], u, Entry(x))
    PROVE  Changes(x)
<1>1. DOMAIN tree = Extractors
  BY DEF ExtractInv
<1>2. tree'[x] = u
  BY <1>1
<1> QED
  BY <1>2 DEF Changes

\* An entry that an extractor is past the opening of.
LEMMA GoingOn ==
    ASSUME ExtractInv, NEW x \in Extractors, at[x].step # "open"
    PROVE  LET e == Entry(x)
           IN  /\ at[x].entry <= Len(archive) /\ Enclosed(e.name) /\ IsTree(tree[x])
               /\ IsSeq(OutPath(e)) /\ Len(OutPath(e)) \in Nat /\ OutPath(e) # << >>
               /\ e.attributes[1] \in U16
<1>1. at[x].entry <= Len(archive) /\ Enclosed(Entry(x).name) /\ IsTree(tree[x])
  BY DEF ExtractInv, Going, TypeOK
<1>2. IsSeq(Entry(x).name.components) /\ Entry(x).attributes[1] \in U16
  BY <1>1, EntryIsOne DEF ExtractInv
<1> QED
  BY <1>1, <1>2, PassedPlaces

LEMMA GoesAfter ==
    ASSUME ExtractInv, NEW x \in Extractors, UNCHANGED <<archive, before>>,
           at[x].step # "open", AfterEntry(x)
    PROVE  Advances(x) /\ result' = result
BY GoingOn, GoesOn, GoesToNext DEF AfterEntry

\* The twelve bits of any mode.
LEMMA ModeBits ==
    ASSUME NEW e, e.attributes[1] \in U16
    PROVE  Mode(e) % 4096 \in Modes
<1>1. DosMode(e.attributes) \in Int /\ None \in Int /\ e.attributes[1] \in Int
  <2>1. DosMode(e.attributes) \in Int
    BY DEF DosMode
  <2>2. None \in Int
    BY DEF None
  <2>3. e.attributes[1] \in Int
    BY U16IsNat
  <2> QED
    BY <2>1, <2>2, <2>3
<1>2. UnixMode(SystemFrom(e.made_by), e.attributes) \in Int
  BY <1>1 DEF UnixMode
<1>3. Mode(e) \in Int
  BY <1>2 DEF Mode
<1>4. \A m \in Int : m % 4096 \in Modes
  BY DEF Modes
<1> QED
  BY <1>3, <1>4

-----------------------------------------------------------------------------
(***************************************************************************)
(* The actions.                                                            *)
(***************************************************************************)
LEMMA OpenEntryKeepsInv ==
    ASSUME ExtractInv, NEW x \in Extractors, OpenEntry(x)
    PROVE  ExtractInv'
<1>1. /\ UNCHANGED <<archive, before, tree, faults>> /\ at[x].entry <= Len(archive)
      /\ \/ Enclosed(Entry(x).name) /\ GoTo(x, "directories")
         \/ Fail(x)
  BY DEF OpenEntry, AtStep
<1>2. Changes(x)
  BY <1>1, TreeStays
<1>3. Advances(x) /\ Outcomes(x)
  BY <1>1, GoesOn, Fails DEF Outcomes, ExtractInv, TypeOK
<1> QED
  BY <1>2, <1>3, StepKeepsInv

LEMMA FinishKeepsInv ==
    ASSUME ExtractInv, NEW x \in Extractors, Finish(x)
    PROVE  ExtractInv'
<1>1. /\ UNCHANGED <<archive, before, tree, at, faults>>
      /\ \E r \in {"ok", "error"} : result' = [result EXCEPT ![x] = r]
  BY DEF Finish, AtStep
<1>2. Outcomes(x)
  BY <1>1 DEF Outcomes, ExtractInv, TypeOK
<1> QED
  BY <1>1, <1>2, StandsStill, TreeStays, StepKeepsInv

LEMMA MakeDirectoriesKeepsInv ==
    ASSUME ExtractInv, NEW x \in Extractors, MakeDirectories(x)
    PROVE  ExtractInv'
<1> DEFINE e == Entry(x)
           made == Directories(x, tree[x], e)
<1>1. /\ at[x].step # "open" /\ UNCHANGED <<archive, before, faults>>
      /\ tree' = [tree EXCEPT ![x] = made.tree]
      /\ Fail(x) \/ AfterEntry(x) \/ GoTo(x, "create")
  BY DEF MakeDirectories, AtStep
<1>2. Touched(tree[x], made.tree, e) /\ at[x].entry <= Len(archive) /\ Enclosed(e.name)
  BY <1>1, GoingOn, DirectoriesTouch DEF Careful
<1>3. Changes(x)
  <2> HIDE DEF made
  <2> QED
    BY <1>1, <1>2, TreeChanges
<1>4. Advances(x) /\ Outcomes(x)
  <2> HIDE DEF made
  <2> QED
    BY <1>1, <1>2, GoesOn, GoesAfter, Fails DEF Outcomes, ExtractInv, TypeOK
<1> QED
  BY <1>3, <1>4, StepKeepsInv

LEMMA CreateFileKeepsInv ==
    ASSUME ExtractInv, NEW x \in Extractors, CreateFile(x)
    PROVE  ExtractInv'
<1> DEFINE e == Entry(x)
           t == tree[x]
<1>1. at[x].step # "open" /\ UNCHANGED <<archive, before, faults>>
  BY DEF CreateFile, AtStep
<1>2. /\ at[x].entry <= Len(archive) /\ Enclosed(e.name)
      /\ IsTree(t) /\ IsSeq(OutPath(e))
  BY <1>1, GoingOn
<1>3. CASE NamesFile(e) /\ CanCreate(t, OutPath(e))
  <2>1. tree' = [tree EXCEPT ![x] = Created(t, OutPath(e))] /\ GoTo(x, "copy")
    <3>1. DOMAIN tree = Extractors
      BY DEF ExtractInv
    <3> QED
      BY <1>3, <3>1 DEF CreateFile
  <2>2. Touched(t, Created(t, OutPath(e)), e)
    BY <1>2, <1>3, FileTouched DEF Careful
  <2>3. Changes(x)
    BY <1>2, <2>1, <2>2, TreeChanges
  <2>4. Advances(x) /\ Outcomes(x)
    BY <1>1, <1>2, <2>1, GoesOn DEF Outcomes, ExtractInv, TypeOK
  <2> QED
    BY <2>3, <2>4, StepKeepsInv
<1>4. CASE ~(NamesFile(e) /\ CanCreate(t, OutPath(e)))
  <2>1. Fail(x) /\ UNCHANGED tree
    BY <1>4 DEF CreateFile
  <2>2. Advances(x) /\ Outcomes(x) /\ Changes(x)
    BY <1>1, <2>1, Fails, TreeStays DEF Outcomes, ExtractInv, TypeOK
  <2> QED
    BY <2>2, StepKeepsInv
<1> QED
  BY <1>3, <1>4

LEMMA CopyCellKeepsInv ==
    ASSUME ExtractInv, NEW x \in Extractors, CopyCell(x)
    PROVE  ExtractInv'
<1> DEFINE e == Entry(x)
           t == tree[x]
           place == Reached(t, OutPath(e))
           d == Written(t[place].data, at[x].copied, e.data[at[x].copied + 1])
           u == [t EXCEPT ![place].data = d]
<1>1. /\ at[x].step # "open" /\ UNCHANGED <<archive, before, faults, result>>
      /\ at' = [at EXCEPT ![x].copied = at[x].copied + 1]
      /\ tree' = [tree EXCEPT ![x] = u]
  <2>1. DOMAIN tree = Extractors /\ DOMAIN at = Extractors
    BY DEF ExtractInv, TypeOK
  <2> QED
    BY <2>1 DEF CopyCell, AtStep
<1>2. /\ at[x].entry <= Len(archive) /\ Enclosed(e.name)
      /\ IsTree(t) /\ IsSeq(OutPath(e))
  BY <1>1, GoingOn
<1> HIDE DEF d
<1>3. Touched(t, u, e)
  <2>1. CASE place \in DOMAIN t
    BY <1>2, <2>1, DataTouched DEF Careful
  <2>2. CASE place \notin DOMAIN t
    <3>1. t = [p \in DOMAIN t |-> t[p]]
      BY <1>2 DEF IsTree
    <3>2. u = t
      BY <2>2, <3>1
    <3> QED
      BY <1>2, <3>2, NothingTouched DEF Careful
  <2> QED
    BY <2>1, <2>2
<1>4. Changes(x)
  <2> HIDE DEF u
  <2> QED
    BY <1>1, <1>2, <1>3, TreeChanges
<1>5. Advances(x)
  <2>1. at \in [Extractors -> Position]
    BY DEF ExtractInv, TypeOK, Position
  <2>2. /\ at'[x] = [entry |-> at[x].entry, step |-> at[x].step,
                     copied |-> at[x].copied + 1]
        /\ at' = [at EXCEPT ![x] = at'[x]]
    BY <1>1, <2>1 DEF Position
  <2>3. at'[x] \in Position /\ at[x].entry <= at'[x].entry
    <3>1. at[x] \in Position
      BY <2>1
    <3> QED
      BY <2>2, <3>1 DEF Position
  <2> QED
    BY <1>1, <1>2, <2>2, <2>3 DEF Advances
<1>6. Outcomes(x)
  BY <1>1 DEF Outcomes, ExtractInv, TypeOK
<1> QED
  BY <1>4, <1>5, <1>6, StepKeepsInv

LEMMA ReadFailsKeepsInv ==
    ASSUME ExtractInv, NEW x \in Extractors, ReadFails(x)
    PROVE  ExtractInv'
<1>1. UNCHANGED <<archive, before, tree, faults>> /\ Fail(x)
  BY DEF ReadFails, AtStep
<1>2. Advances(x) /\ Outcomes(x) /\ Changes(x)
  BY <1>1, Fails, TreeStays DEF Outcomes, ExtractInv, TypeOK
<1> QED
  BY <1>2, StepKeepsInv

LEMMA CopyEndsKeepsInv ==
    ASSUME ExtractInv, NEW x \in Extractors, CopyEnds(x)
    PROVE  ExtractInv'
<1>1. /\ UNCHANGED <<archive, before, tree, faults>>
      /\ at[x].step # "open" /\ AfterEntry(x)
  BY DEF CopyEnds, AtStep
<1>2. Advances(x) /\ Outcomes(x) /\ Changes(x)
  BY <1>1, GoesAfter, TreeStays DEF Outcomes, ExtractInv, TypeOK
<1> QED
  BY <1>2, StepKeepsInv

LEMMA SetPermissionsKeepsInv ==
    ASSUME ExtractInv, NEW x \in Extractors, SetPermissions(x)
    PROVE  ExtractInv'
<1> DEFINE e == Entry(x)
           t == tree[x]
           place == Reached(t, OutPath(e))
           m == Mode(e) % 4096
           u == [t EXCEPT ![place].mode = m]
<1>1. at[x].step # "open" /\ UNCHANGED <<archive, before, faults>>
  BY DEF SetPermissions, AtStep
<1>2. /\ at[x].entry <= Len(archive) /\ Enclosed(e.name)
      /\ IsTree(t) /\ IsSeq(OutPath(e)) /\ e.attributes[1] \in U16
  BY <1>1, GoingOn
<1>3. CASE UNCHANGED tree /\ (NextEntry(x) \/ Fail(x))
  <2>1. Advances(x) /\ Outcomes(x) /\ Changes(x)
    BY <1>1, <1>2, <1>3, GoesToNext, Fails, TreeStays DEF Outcomes, ExtractInv, TypeOK
  <2> QED
    BY <2>1, StepKeepsInv
<1>4. CASE /\ place \in DOMAIN t /\ tree' = [tree EXCEPT ![x] = u] /\ NextEntry(x)
  <2>1. m \in Modes
    BY <1>2, ModeBits
  <2> HIDE DEF m
  <2>2. Touched(t, u, e)
    BY <1>2, <1>4, <2>1, ModeTouched
  <2>3. Changes(x)
    <3> HIDE DEF u
    <3> QED
      BY <1>2, <1>4, <2>2, TreeChanges
  <2>4. Advances(x) /\ Outcomes(x)
    BY <1>1, <1>2, <1>4, GoesToNext DEF Outcomes, ExtractInv, TypeOK
  <2> QED
    BY <2>3, <2>4, StepKeepsInv
<1>5. \/ UNCHANGED tree /\ (NextEntry(x) \/ Fail(x))
      \/ place \in DOMAIN t /\ tree' = [tree EXCEPT ![x] = u] /\ NextEntry(x)
  <2>1. DOMAIN tree = Extractors
    BY DEF ExtractInv
  <2> QED
    BY <2>1 DEF SetPermissions
<1> QED
  BY <1>3, <1>4, <1>5

LEMMA SystemFailsKeepsInv ==
    ASSUME ExtractInv, NEW x \in Extractors, SystemFails(x)
    PROVE  ExtractInv'
<1> DEFINE e == Entry(x)
           path == OutPath(e)
<1>1. /\ at[x].step # "open" /\ UNCHANGED <<archive, before>> /\ Fail(x)
      /\ faults < MaxFaults /\ faults' = faults + 1
  BY DEF SystemFails, AtStep
<1>2. /\ at[x].entry <= Len(archive) /\ Enclosed(e.name) /\ IsTree(tree[x])
      /\ IsSeq(path) /\ Len(path) \in Nat
  BY <1>1, GoingOn
<1>3. Outcomes(x)
  <2>1. faults \in 0..MaxFaults /\ MaxFaults \in Nat
    BY ExtractAssumption DEF ExtractInv, TypeOK
  <2> QED
    BY <1>1, <2>1, Fails DEF Outcomes
<1>4. Advances(x)
  BY <1>1, Fails
<1>5. Changes(x)
  <2>1. CASE UNCHANGED tree
    BY <2>1, TreeStays
  <2>2. CASE \E n \in 0..Len(path) - 1 :
               tree' = [tree EXCEPT ![x] = CreateDirAll(tree[x], SubSeq(path, 1, n)).tree]
    <3>1. PICK n \in 0..Len(path) - 1 :
             tree' = [tree EXCEPT ![x] = CreateDirAll(tree[x], SubSeq(path, 1, n)).tree]
      BY <2>2
    <3>2. n \in Nat /\ n <= Len(path)
      BY <1>2
    <3> DEFINE u == CreateDirAll(tree[x], SubSeq(path, 1, n)).tree
    <3>3. Touched(tree[x], u, e)
      BY <1>2, <3>2, PathMade DEF Careful
    <3> HIDE DEF u
    <3> QED
      BY <1>2, <3>1, <3>3, TreeChanges DEF u
  <2>3. DOMAIN tree = Extractors
    BY DEF ExtractInv
  <2> QED
    BY <2>1, <2>2, <2>3 DEF SystemFails
<1> QED
  BY <1>3, <1>4, <1>5, StepKeepsInv

-----------------------------------------------------------------------------
\* Every reachable state satisfies the invariant.
THEOREM ExtractInvariance == Spec => []ExtractInv
<1>1. Init => ExtractInv
  <2> SUFFICES ASSUME Init PROVE ExtractInv
    OBVIOUS
  <2>1. archive \in Archives /\ before \in Trees /\ IsTree(before)
    BY ExtractAssumption DEF Init
  <2>2. \A x \in Extractors : tree[x] = before
    BY DEF Init
  <2>3. Len(archive) \in Nat /\ MaxFaults \in Nat
    BY <2>1, ExtractAssumption, LenIsNat
  <2>4. TypeOK
    BY <2>1, <2>2, <2>3 DEF Init, TypeOK
  <2>5. Going
    BY DEF Init, Going
  <2>6. StaysInside
    BY <2>2 DEF StaysInside
  <2>7. tree = [x \in Extractors |-> tree[x]]
    BY DEF Init
  <2> QED
    BY <2>4, <2>5, <2>6, <2>7 DEF ExtractInv
<1>2. ExtractInv /\ [Next]_vars => ExtractInv'
  <2> SUFFICES ASSUME ExtractInv, [Next]_vars PROVE ExtractInv'
    OBVIOUS
  <2>1. CASE UNCHANGED vars
    BY <2>1 DEF vars, ExtractInv, TypeOK, Going, StaysInside, Entry, Started
  <2>2. CASE Next
    BY <2>2, OpenEntryKeepsInv, MakeDirectoriesKeepsInv, CreateFileKeepsInv,
       CopyCellKeepsInv, ReadFailsKeepsInv, CopyEndsKeepsInv,
       SetPermissionsKeepsInv, FinishKeepsInv, SystemFailsKeepsInv DEF Next
  <2> QED
    BY <2>1, <2>2
<1> QED
  BY <1>1, <1>2, PTL DEF Spec

\* The trees stay file systems, and the places in the archive in range.
THEOREM ExtractIsTypeCorrect == Spec => []TypeOK
<1>1. ExtractInv => TypeOK
  BY DEF ExtractInv
<1> QED
  BY <1>1, ExtractInvariance, PTL

\* Whatever the archive, the file system, the directory and the failures of
\* the system, extraction makes and changes nothing outside the directory
\* (read.rs 443-479, read/stream.rs 60-82, types.rs 383-398).
THEOREM ExtractionStaysInside == Spec => []StaysInside
<1>1. ExtractInv => StaysInside
  BY DEF ExtractInv
<1> QED
  BY <1>1, ExtractInvariance, PTL

-----------------------------------------------------------------------------
(***************************************************************************)
(* What has been extracted, and with which modes.                          *)
(***************************************************************************)
UpTo(n) == { k \in 1..Len(archive) : k <= n }

\* The node of an entry is there, and of its kind.
Held(t, e) ==
    /\ Place(e) \in DOMAIN t
    /\ t[Place(e)].kind = IF e.name.slash THEN "dir" ELSE "file"

\* The entries in front of entry n, which is under way.
Past(t, n) ==
    \A i \in 1..Len(archive) : i < n =>
        /\ Held(t, archive[i])
        /\ ~archive[i].name.slash /\ LastOfIts(i, UpTo(n))
             => t[Place(archive[i])].data = archive[i].data

\* Those of them, in archive a, that gave place p a mode.
Given(a, x, n, p) ==
    { i \in 1..Len(a) :
        i < n /\ x = "archive" /\ Mode(a[i]) # None /\ Place(a[i]) = p }

\* The mode that is due to place p of tree b if the entries in s gave it one.
Latest(s) == CHOOSE i \in s : \A k \in s : k <= i
Topmost(s, n) == n \in s /\ \A k \in s : k <= n /\ k \in Int

DueMode(a, b, s, p, kind) ==
    IF s # {} THEN Mode(a[Latest(s)]) % 4096
    ELSE IF p \in DOMAIN b THEN b[p].mode
    ELSE IF kind = "dir" THEN NewDirectory.mode ELSE NewFile.mode

ModesDue(x, t, n) ==
    \A p \in DOMAIN t : t[p].mode = DueMode(archive, before, Given(archive, x, n, p), p, t[p].kind)

\* The entry under way: its file stays within reach while it is written.
InHand(x, t, c) ==
    LET e == archive[c.entry]
    IN  /\ c.step \in {"create", "copy"} => ~e.name.slash
        /\ c.step = "copy" =>
              /\ Held(t, e) /\ Reached(t, OutPath(e)) = Place(e)
              /\ t[Place(e)].data = SubSeq(e.data, 1, c.copied)
        /\ c.step = "mode" =>
              /\ x = "archive" /\ Held(t, e)
              /\ ~e.name.slash => t[Place(e)].data = e.data

Delivers(x, t, c) ==
    /\ \A p \in DOMAIN before : p \in DOMAIN t
    /\ Past(t, c.entry) /\ InHand(x, t, c) /\ ModesDue(x, t, c.entry)

DeliverInv == \A x \in Extractors : Delivers(x, tree[x], at[x])

\* An extractor's step takes effect on its own tree and place.
LEMMA DeliversFrame ==
    ASSUME ExtractInv, DeliverInv, NEW x \in Extractors, NEW u, NEW c,
           UNCHANGED <<archive, before>>, tree' = [tree EXCEPT ![x] = u],
           at' = [at EXCEPT ![x] = c], Delivers(x, u, c)
    PROVE  DeliverInv'
<1>1. DOMAIN tree = Extractors /\ DOMAIN at = Extractors
  BY DEF ExtractInv, TypeOK
<1>2. \A y \in Extractors : Delivers(y, tree'[y], at'[y])
  <2> TAKE y \in Extractors
  <2>1. CASE y = x
    <3>1. tree'[y] = u /\ at'[y] = c
      BY <1>1, <2>1
    <3> QED
      BY <2>1, <3>1
  <2>2. CASE y # x
    <3>1. tree'[y] = tree[y] /\ at'[y] = at[y]
      BY <1>1, <2>2
    <3> QED
      BY <3>1 DEF DeliverInv
  <2> QED
    BY <2>1, <2>2
<1>3. archive' = archive /\ before' = before
  OBVIOUS
<1>4. ASSUME NEW y \in Extractors PROVE Delivers(y, tree[y], at[y])'
  <2>1. \A p \in DOMAIN before' : p \in DOMAIN tree'[y]
    BY <1>2, <1>3 DEF Delivers
  <2>2. Past(tree[y], at[y].entry)'
    BY <1>2, <1>3 DEF Delivers, Past, UpTo, LastOfIts
  <2>3. InHand(y, tree[y], at[y])'
    BY <1>2, <1>3 DEF Delivers, InHand
  <2>4. ModesDue(y, tree[y], at[y].entry)'
    <3>1. ModesDue(y, tree'[y], at'[y].entry)
      BY <1>2 DEF Delivers
    <3> QED
      BY <1>3, <3>1 DEF ModesDue
  <2> QED
    BY <2>1, <2>2, <2>3, <2>4 DEF Delivers
<1> QED
  BY <1>4 DEF DeliverInv

LEMMA MovesOn ==
    ASSUME ExtractInv, NEW x \in Extractors
    PROVE  /\ \A step : GoTo(x, step) =>
                at' = [at EXCEPT ![x] = [entry |-> at[x].entry, step |-> step, copied |-> 0]]
           /\ NextEntry(x) =>
                at' = [at EXCEPT ![x] = [entry |-> at[x].entry + 1, step |-> "open",
                                         copied |-> 0]]
           /\ UNCHANGED at => at' = [at EXCEPT ![x] = at[x]]
           /\ UNCHANGED tree => tree' = [tree EXCEPT ![x] = tree[x]]
<1>1. at \in [Extractors -> Position] /\ tree = [y \in Extractors |-> tree[y]]
  BY DEF ExtractInv, TypeOK, Position
<1>2. at[x] \in Position
  BY <1>1
<1>5. ASSUME NEW step, GoTo(x, step)
      PROVE  at' = [at EXCEPT ![x] = [entry |-> at[x].entry, step |-> step, copied |-> 0]]
  <2>1. at' = [at EXCEPT ![x] = [at[x] EXCEPT !.step = step, !.copied = 0]]
    BY <1>1, <1>5 DEF GoTo
  <2>2. at'[x] = [entry |-> at[x].entry, step |-> step, copied |-> 0]
        /\ at' = [at EXCEPT ![x] = at'[x]]
    BY <1>1, <1>2, <2>1 DEF Position
  <2> QED
    BY <2>2
<1>6. NextEntry(x) =>
        at' = [at EXCEPT ![x] = [entry |-> at[x].entry + 1, step |-> "open", copied |-> 0]]
  BY <1>1 DEF NextEntry
<1>7. UNCHANGED at => at' = [at EXCEPT ![x] = at[x]]
  BY <1>1
<1>8. UNCHANGED tree => tree' = [tree EXCEPT ![x] = tree[x]]
  BY <1>1
<1> QED
  BY <1>5, <1>6, <1>7, <1>8

\* The entries gone past stay as they are while the next one is under way: it
\* changes the content of its own place only, and no kind.
LEMMA PastKept ==
    ASSUME NEW n \in 1..Len(archive), Len(archive) \in Nat, NEW t, Past(t, n),
           NEW u, Touched(t, u, archive[n]), \A p \in DOMAIN t : u[p].kind = t[p].kind
    PROVE  Past(u, n)
<1> SUFFICES ASSUME NEW i \in 1..Len(archive), i < n
             PROVE  /\ Held(u, archive[i])
                    /\ ~archive[i].name.slash /\ LastOfIts(i, UpTo(n))
                         => u[Place(archive[i])].data = archive[i].data
  BY DEF Past
<1> DEFINE p == Place(archive[i])
<1>1. /\ Held(t, archive[i])
      /\ ~archive[i].name.slash /\ LastOfIts(i, UpTo(n)) => t[p].data = archive[i].data
  BY DEF Past
<1>2. Held(u, archive[i])
  BY <1>1 DEF Held, Touched
<1>3. LastOfIts(i, UpTo(n)) => p # Place(archive[n])
  <2>1. n \in UpTo(n) /\ ~(n <= i)
    BY DEF UpTo
  <2> QED
    BY <2>1 DEF LastOfIts
<1>4. p # Place(archive[n]) => u[p] = t[p]
  BY <1>1 DEF Held, Touched
<1> QED
  BY <1>1, <1>2, <1>3, <1>4

LEMMA PastNext ==
    ASSUME NEW n \in 1..Len(archive), Len(archive) \in Nat, NEW t, Past(t, n),
           Held(t, archive[n]),
           ~archive[n].name.slash => t[Place(archive[n])].data = archive[n].data
    PROVE  Past(t, n + 1)
<1> SUFFICES ASSUME NEW i \in 1..Len(archive), i < n + 1
             PROVE  /\ Held(t, archive[i])
                    /\ ~archive[i].name.slash /\ LastOfIts(i, UpTo(n + 1))
                         => t[Place(archive[i])].data = archive[i].data
  BY DEF Past
<1>1. CASE i = n
  BY <1>1
<1>2. CASE i < n
  <2>1. UpTo(n) \subseteq UpTo(n + 1)
    BY DEF UpTo
  <2>2. LastOfIts(i, UpTo(n + 1)) => LastOfIts(i, UpTo(n))
    BY <2>1 DEF LastOfIts
  <2> QED
    BY <1>2, <2>2 DEF Past
<1> QED
  BY <1>1, <1>2

\* A place that was given a mode is there.
LEMMA GivenIsThere ==
    ASSUME NEW t, NEW n, Past(t, n), NEW x, NEW p, p \notin DOMAIN t
    PROVE  Given(archive, x, n, p) = {}
BY DEF Given, Past, Held

LEMMA ModesKept ==
    ASSUME NEW x, NEW t, NEW n, ModesDue(x, t, n), Past(t, n),
           \A p \in DOMAIN before : p \in DOMAIN t,
           NEW u, NEW e, Careful(t, u, e)
    PROVE  ModesDue(x, u, n)
<1> SUFFICES ASSUME NEW p \in DOMAIN u
             PROVE  u[p].mode = DueMode(archive, before, Given(archive, x, n, p), p, u[p].kind)
  BY DEF ModesDue
<1>1. CASE p \in DOMAIN t
  BY <1>1 DEF ModesDue, Careful
<1>2. CASE p \notin DOMAIN t
  <2>1. Given(archive, x, n, p) = {} /\ p \notin DOMAIN before
    BY <1>2, GivenIsThere
  <2>2. u[p].mode = IF u[p].kind = "dir" THEN NewDirectory.mode ELSE NewFile.mode
    BY <1>2 DEF Careful
  <2> QED
    BY <2>1, <2>2 DEF DueMode
<1> QED
  BY <1>1, <1>2

\* An entry without a mode, or extracted by the stream, gives none.
LEMMA NoModeGiven ==
    ASSUME NEW x, NEW t, NEW n \in 1..Len(archive), Len(archive) \in Nat,
           ModesDue(x, t, n), x # "archive" \/ Mode(archive[n]) = None
    PROVE  ModesDue(x, t, n + 1)
<1>1. \A p : Given(archive, x, n + 1, p) = Given(archive, x, n, p)
  <2> SUFFICES ASSUME NEW p, NEW i \in 1..Len(archive), x = "archive", Mode(archive[i]) # None
               PROVE  i < n + 1 <=> i < n
    BY DEF Given
  <2>1. i # n
    OBVIOUS
  <2> QED
    BY <2>1
<1> QED
  BY <1>1 DEF ModesDue

\* The latest of a set of places is its topmost member.
LEMMA LatestOfTopmost ==
    ASSUME NEW s, NEW n, Topmost(s, n)
    PROVE  Latest(s) = n
<1>1. n \in s /\ \A k \in s : k <= n /\ k \in Int
  BY DEF Topmost
<1>2. \E i \in s : \A k \in s : k <= i
  BY <1>1
<1>3. Latest(s) \in s /\ \A k \in s : k <= Latest(s)
  BY <1>2, Zenon DEF Latest
<1> QED
  BY <1>1, <1>3

LEMMA ModeGiven ==
    ASSUME NEW x, x = "archive", NEW t, NEW n \in 1..Len(archive), Len(archive) \in Nat,
           ModesDue(x, t, n), Mode(archive[n]) # None, NEW u, DOMAIN u = DOMAIN t,
           u[Place(archive[n])].mode = Mode(archive[n]) % 4096,
           \A p \in DOMAIN t : /\ u[p].kind = t[p].kind
                               /\ p # Place(archive[n]) => u[p] = t[p]
    PROVE  ModesDue(x, u, n + 1)
<1> SUFFICES ASSUME NEW p \in DOMAIN u
             PROVE  u[p].mode = DueMode(archive, before, Given(archive, x, n + 1, p), p, u[p].kind)
  BY DEF ModesDue
<1> DEFINE s == Given(archive, x, n + 1, p)
<1>1. CASE p # Place(archive[n])
  <2>1. s = Given(archive, x, n, p)
    <3> SUFFICES ASSUME NEW i \in 1..Len(archive), Place(archive[i]) = p
                 PROVE  i < n + 1 <=> i < n
      BY DEF Given
    <3>1. i # n
      BY <1>1
    <3> QED
      BY <3>1
  <2>2. u[p] = t[p]
    BY <1>1
  <2> QED
    BY <2>1, <2>2 DEF ModesDue
<1>2. CASE p = Place(archive[n])
  <2>1. Topmost(s, n) /\ s # {}
    BY <1>2 DEF Given, Topmost
  <2> HIDE DEF s
  <2>2. DueMode(archive, before, s, p, u[p].kind) = Mode(archive[n]) % 4096
    BY <2>1, LatestOfTopmost DEF DueMode
  <2> QED
    BY <1>2, <2>2 DEF s
<1> QED
  BY <1>1, <1>2

\* The place of an extractor under way, and its entry.
LEMMA UnderWay ==
    ASSUME ExtractInv, NEW x \in Extractors, at[x].entry <= Len(archive)
    PROVE  /\ at[x].entry \in 1..Len(archive) /\ Len(archive) \in Nat
           /\ Entry(x) = archive[at[x].entry] /\ IsSeq(Entry(x).data)
           /\ at[x] = [entry |-> at[x].entry, step |-> at[x].step, copied |-> at[x].copied]
           /\ at[x].copied \in Nat
<1>1. archive \in Archives /\ at \in [Extractors -> Position]
  BY DEF ExtractInv, TypeOK, Position
<1>2. at[x].entry \in 1..Len(archive)
  BY EntryIsOne DEF ExtractInv
<1>3. at[x] \in Position
  BY <1>1
<1>4. IsSeq(archive) /\ IsSeq(archive[at[x].entry].data)
  BY <1>1, <1>2, ExtractAssumption
<1> QED
  BY <1>2, <1>3, <1>4, LenIsNat DEF Entry, Position

\* Careful changes for the sake of the entry under way.
LEMMA CarefulDelivers ==
    ASSUME ExtractInv, NEW x \in Extractors, at[x].entry <= Len(archive),
           Delivers(x, tree[x], at[x]), NEW u, Careful(tree[x], u, Entry(x))
    PROVE  /\ \A p \in DOMAIN before : p \in DOMAIN u
           /\ Past(u, at[x].entry) /\ ModesDue(x, u, at[x].entry)
<1> DEFINE t == tree[x]
           n == at[x].entry
<1>1. /\ n \in 1..Len(archive) /\ Len(archive) \in Nat /\ Entry(x) = archive[n]
  BY UnderWay
<1>2. /\ \A p \in DOMAIN before : p \in DOMAIN t
      /\ Past(t, n) /\ ModesDue(x, t, n)
  BY DEF Delivers
<1>3. Touched(t, u, archive[n]) /\ \A p \in DOMAIN t : u[p].kind = t[p].kind
  BY <1>1 DEF Careful
<1>4. Past(u, n)
  BY <1>1, <1>2, <1>3, PastKept
<1>5. ModesDue(x, u, n)
  BY <1>2, ModesKept
<1> QED
  BY <1>2, <1>3, <1>4, <1>5 DEF Touched

\* A step of an extractor that only fails.
LEMMA StopsDelivering ==
    ASSUME ExtractInv, DeliverInv, NEW x \in Extractors, UNCHANGED <<archive, before, at>>,
           NEW u, tree' = [tree EXCEPT ![x] = u],
           \/ u = tree[x]
           \/ /\ at[x].step = "directories" /\ at[x].entry <= Len(archive)
              /\ Careful(tree[x], u, Entry(x))
    PROVE  DeliverInv'
<1>1. Delivers(x, tree[x], at[x]) /\ at' = [at EXCEPT ![x] = at[x]]
  BY MovesOn DEF DeliverInv
<1>2. Delivers(x, u, at[x])
  <2>1. CASE u = tree[x]
    BY <1>1, <2>1
  <2>2. CASE /\ at[x].step = "directories" /\ at[x].entry <= Len(archive)
             /\ Careful(tree[x], u, Entry(x))
    BY <1>1, <2>2, CarefulDelivers DEF Delivers, InHand
  <2> QED
    BY <2>1, <2>2
<1> QED
  BY <1>1, <1>2, DeliversFrame

\* An extractor that goes on with an entry that is there.
LEMMA GoesAfterDelivery ==
    ASSUME ExtractInv, DeliverInv, NEW x \in Extractors, UNCHANGED <<archive, before>>,
           at[x].entry <= Len(archive), NEW u, tree' = [tree EXCEPT ![x] = u],
           Careful(tree[x], u, Entry(x)), Held(u, Entry(x)),
           ~Entry(x).name.slash => u[Place(Entry(x))].data = Entry(x).data,
           AfterEntry(x)
    PROVE  DeliverInv'
<1> DEFINE n == at[x].entry
<1>1. n \in 1..Len(archive) /\ Len(archive) \in Nat /\ Entry(x) = archive[n]
  BY UnderWay
<1>2. /\ \A p \in DOMAIN before : p \in DOMAIN u
      /\ Past(u, n) /\ ModesDue(x, u, n)
  BY CarefulDelivers DEF DeliverInv
<1>3. CASE x = "archive"
  <2> DEFINE c == [entry |-> n, step |-> "mode", copied |-> 0]
  <2>1. at' = [at EXCEPT ![x] = c]
    BY <1>3, MovesOn DEF AfterEntry
  <2>2. Delivers(x, u, c)
    BY <1>1, <1>2, <1>3 DEF Delivers, InHand
  <2> HIDE DEF c
  <2> QED
    BY <2>1, <2>2, DeliversFrame
<1>4. CASE x # "archive"
  <2> DEFINE c == [entry |-> n + 1, step |-> "open", copied |-> 0]
  <2>1. at' = [at EXCEPT ![x] = c]
    BY <1>4, MovesOn DEF AfterEntry
  <2>2. Past(u, n + 1)
    BY <1>1, <1>2, PastNext
  <2>3. ModesDue(x, u, n + 1)
    BY <1>1, <1>2, <1>4, NoModeGiven
  <2>4. Delivers(x, u, c)
    BY <1>2, <2>2, <2>3 DEF Delivers, InHand
  <2> HIDE DEF c
  <2> QED
    BY <2>1, <2>4, DeliversFrame
<1> QED
  BY <1>3, <1>4


LEMMA OpenEntryDelivers ==
    ASSUME ExtractInv, DeliverInv, NEW x \in Extractors, OpenEntry(x) \/ Finish(x)
    PROVE  DeliverInv'
<1>1. /\ UNCHANGED <<archive, before>> /\ tree' = [tree EXCEPT ![x] = tree[x]]
      /\ GoTo(x, "directories") \/ UNCHANGED at
  BY MovesOn DEF OpenEntry, Finish, AtStep, Fail
<1>2. CASE GoTo(x, "directories")
  <2> DEFINE c == [entry |-> at[x].entry, step |-> "directories", copied |-> 0]
  <2>1. at' = [at EXCEPT ![x] = c]
    BY <1>2, MovesOn
  <2>2. Delivers(x, tree[x], c)
    BY DEF DeliverInv, Delivers, InHand
  <2> HIDE DEF c
  <2> QED
    BY <1>1, <2>1, <2>2, DeliversFrame
<1> QED
  BY <1>1, <1>2, StopsDelivering

\* The directories of an entry: one of its own, or those above its file.
LEMMA DirectoryIsThere ==
    ASSUME NEW t, IsTree(t), NEW e, IsSeq(OutPath(e)), OutPath(e) # << >>, NEW x,
           e.name.slash, Directories(x, t, e).ok
    PROVE  Held(Directories(x, t, e).tree, e)
<1>1. Directories(x, t, e) = CreateDirAll(t, OutPath(e))
  BY DEF Directories
<1>2. IsDirectory(CreateDirAll(t, OutPath(e)).tree, Normal(OutPath(e)))
  BY <1>1, DirectoriesMade
<1> QED
  BY <1>1, <1>2 DEF IsDirectory, Held, Place

LEMMA MakeDirectoriesDelivers ==
    ASSUME ExtractInv, DeliverInv, NEW x \in Extractors, MakeDirectories(x)
    PROVE  DeliverInv'
<1> DEFINE e == Entry(x)
           made == Directories(x, tree[x], e)
           u == made.tree
<1>1. /\ at[x].step = "directories" /\ UNCHANGED <<archive, before>>
      /\ tree' = [tree EXCEPT ![x] = u]
      /\ \/ Fail(x)
         \/ made.ok /\ e.name.slash /\ AfterEntry(x)
         \/ ~e.name.slash /\ GoTo(x, "create")
  BY DEF MakeDirectories, AtStep
<1>2. /\ at[x].entry <= Len(archive) /\ IsTree(tree[x])
      /\ IsSeq(OutPath(e)) /\ OutPath(e) # << >>
  BY <1>1, GoingOn
<1>3. Careful(tree[x], u, e)
  BY <1>2, DirectoriesTouch
<1>4. made.ok /\ e.name.slash => Held(u, e)
  BY <1>2, DirectoryIsThere
<1> HIDE DEF u, made
<1>5. CASE Fail(x)
  <2>1. UNCHANGED at
    BY <1>5 DEF Fail
  <2> QED
    BY <1>1, <1>2, <1>3, <2>1, StopsDelivering
<1>6. CASE made.ok /\ e.name.slash /\ AfterEntry(x)
  BY <1>1, <1>2, <1>3, <1>4, <1>6, GoesAfterDelivery
<1>7. CASE ~e.name.slash /\ GoTo(x, "create")
  <2> DEFINE c == [entry |-> at[x].entry, step |-> "create", copied |-> 0]
  <2>1. at' = [at EXCEPT ![x] = c]
    BY <1>7, MovesOn
  <2>2. /\ \A p \in DOMAIN before : p \in DOMAIN u
        /\ Past(u, at[x].entry) /\ ModesDue(x, u, at[x].entry)
    BY <1>2, <1>3, CarefulDelivers DEF DeliverInv
  <2>3. Delivers(x, u, c)
    BY <1>7, <2>2 DEF Delivers, InHand, Entry
  <2> HIDE DEF c
  <2> QED
    BY <1>1, <2>1, <2>3, DeliversFrame
<1> QED
  BY <1>1, <1>5, <1>6, <1>7

LEMMA CreateFileDelivers ==
    ASSUME ExtractInv, DeliverInv, NEW x \in Extractors, CreateFile(x)
    PROVE  DeliverInv'
<1> DEFINE e == Entry(x)
           t == tree[x]
           u == Created(t, OutPath(e))
<1>1. at[x].step = "create" /\ UNCHANGED <<archive, before>>
  BY DEF CreateFile, AtStep
<1>2. at[x].entry <= Len(archive) /\ IsTree(t) /\ IsSeq(OutPath(e))
  BY <1>1, GoingOn
<1>3. CASE NamesFile(e) /\ CanCreate(t, OutPath(e))
  <2> DEFINE c == [entry |-> at[x].entry, step |-> "copy", copied |-> 0]
  <2>1. tree' = [tree EXCEPT ![x] = u] /\ at' = [at EXCEPT ![x] = c]
    <3>1. DOMAIN tree = Extractors
      BY DEF ExtractInv
    <3>2. tree' = [tree EXCEPT ![x] = u] /\ GoTo(x, "copy")
      BY <1>3, <3>1 DEF CreateFile
    <3> QED
      BY <3>2, MovesOn
  <2>2. /\ Careful(t, u, e) /\ Reached(u, OutPath(e)) = Place(e) /\ Place(e) \in DOMAIN u
        /\ u[Place(e)].kind = "file" /\ u[Place(e)].data = << >>
    BY <1>2, <1>3, FileTouched
  <2> HIDE DEF u
  <2>3. /\ \A p \in DOMAIN before : p \in DOMAIN u
        /\ Past(u, at[x].entry) /\ ModesDue(x, u, at[x].entry)
    BY <1>2, <2>2, CarefulDelivers DEF DeliverInv
  <2>4. e = archive[at[x].entry] /\ ~e.name.slash
    BY <1>1 DEF DeliverInv, Delivers, InHand, Entry
  <2>5. SubSeq(e.data, 1, 0) = << >>
    <3>1. IsSeq(e.data)
      BY <1>2, UnderWay
    <3> QED
      BY <3>1, PrefixCells, EmptyIsSeq
  <2>6. InHand(x, u, c)
    BY <2>2, <2>4, <2>5 DEF InHand, Held
  <2>7. Delivers(x, u, c)
    BY <2>3, <2>6 DEF Delivers
  <2> HIDE DEF c
  <2> QED
    BY <1>1, <2>1, <2>7, DeliversFrame
<1>4. CASE ~(NamesFile(e) /\ CanCreate(t, OutPath(e)))
  <2>1. UNCHANGED at /\ tree' = [tree EXCEPT ![x] = t]
    BY <1>4, MovesOn DEF CreateFile, Fail
  <2> QED
    BY <1>1, <2>1, StopsDelivering
<1> QED
  BY <1>3, <1>4

\* One more cell of the data.
LEMMA WrittenIsPrefix ==
    ASSUME NEW d, IsSeq(d), NEW n \in Nat, n < Len(d)
    PROVE  Written(SubSeq(d, 1, n), n, d[n + 1]) = SubSeq(d, 1, n + 1)
<1> DEFINE old == SubSeq(d, 1, n)
           new == SubSeq(d, 1, n + 1)
           w   == Written(old, n, d[n + 1])
<1>1. Len(d) \in Nat /\ n <= Len(d) /\ n + 1 \in Nat /\ n + 1 <= Len(d)
  BY LenIsNat
<1>2. Len(old) = n /\ \A i \in 1..n : old[i] = d[i]
  BY <1>1, PrefixCells
<1>3. IsSeq(new) /\ DOMAIN new = 1..n + 1 /\ \A i \in 1..n + 1 : new[i] = d[i]
  BY <1>1, PrefixCells
<1> HIDE DEF old, new
<1>4. w = [i \in 1..n + 1 |-> IF i = n + 1 THEN d[n + 1] ELSE old[i]]
  BY <1>2 DEF Written
<1>5. \A i \in 1..n + 1 : (IF i = n + 1 THEN d[n + 1] ELSE old[i]) = d[i]
  BY <1>2
<1>6. w = [i \in 1..n + 1 |-> d[i]]
  BY <1>4, <1>5
<1>7. new = [i \in 1..n + 1 |-> d[i]]
  BY <1>3 DEF IsSeq
<1> QED
  BY <1>6, <1>7 DEF old, new

LEMMA CopyCellDelivers ==
    ASSUME ExtractInv, DeliverInv, NEW x \in Extractors, CopyCell(x)
    PROVE  DeliverInv'
<1> DEFINE e == Entry(x)
           t == tree[x]
           place == Reached(t, OutPath(e))
           n == at[x].copied
           d == Written(t[place].data, n, e.data[n + 1])
           u == [t EXCEPT ![place].data = d]
           c == [entry |-> at[x].entry, step |-> "copy", copied |-> n + 1]
<1>1. /\ at[x].step = "copy" /\ UNCHANGED <<archive, before>> /\ n < Len(e.data)
      /\ at' = [at EXCEPT ![x].copied = n + 1]
      /\ tree' = [tree EXCEPT ![x] = u]
  <2>1. DOMAIN tree = Extractors /\ DOMAIN at = Extractors
    BY DEF ExtractInv, TypeOK
  <2> QED
    BY <2>1 DEF CopyCell, AtStep
<1>2. at[x].entry <= Len(archive) /\ IsTree(t) /\ IsSeq(OutPath(e))
  BY <1>1, GoingOn
<1>3. /\ n \in Nat /\ IsSeq(e.data) /\ e = archive[at[x].entry]
      /\ at[x] = [entry |-> at[x].entry, step |-> "copy", copied |-> n]
  BY <1>1, <1>2, UnderWay
<1>4. at' = [at EXCEPT ![x] = c]
  <2>1. DOMAIN at = Extractors
    BY DEF ExtractInv, TypeOK
  <2>2. [at[x] EXCEPT !.copied = n + 1] = c
    BY <1>3
  <2> QED
    BY <1>1, <2>1, <2>2
<1>5. /\ ~e.name.slash /\ Held(t, e) /\ place = Place(e)
      /\ t[Place(e)].data = SubSeq(e.data, 1, n)
  BY <1>1, <1>3 DEF DeliverInv, Delivers, InHand
<1>6. d = SubSeq(e.data, 1, n + 1)
  BY <1>1, <1>3, <1>5, WrittenIsPrefix
<1>7. place \in DOMAIN t /\ place # Nowhere
  BY <1>2, <1>5 DEF Held, IsTree
<1> HIDE DEF d
<1>8. Careful(t, u, e)
  BY <1>2, <1>7, DataTouched
<1>9. u[Place(e)].data = d
  BY <1>2, <1>7, NodeThere DEF Place
<1> HIDE DEF u
<1>10. Reached(u, OutPath(e)) = Place(e)
  <2>1. \A p \in DOMAIN t : /\ p \in DOMAIN u /\ u[p].kind = t[p].kind
                            /\ u[p].mode = t[p].mode
    BY <1>8 DEF Careful, Touched
  <2> QED
    BY <1>2, <1>5, <1>7, <2>1, ReachedKept
<1>11. Held(u, e)
  BY <1>5, <1>8 DEF Held, Careful, Touched
<1>12. /\ \A p \in DOMAIN before : p \in DOMAIN u
       /\ Past(u, at[x].entry) /\ ModesDue(x, u, at[x].entry)
  BY <1>2, <1>8, CarefulDelivers DEF DeliverInv
<1>13. InHand(x, u, c)
  BY <1>3, <1>5, <1>6, <1>9, <1>10, <1>11 DEF InHand
<1>14. Delivers(x, u, c)
  BY <1>12, <1>13 DEF Delivers
<1> HIDE DEF c
<1> QED
  BY <1>1, <1>4, <1>14, DeliversFrame

LEMMA CopyEndsDelivers ==
    ASSUME ExtractInv, DeliverInv, NEW x \in Extractors, CopyEnds(x)
    PROVE  DeliverInv'
<1> DEFINE e == Entry(x)
           t == tree[x]
<1>1. /\ at[x].step = "copy" /\ UNCHANGED <<archive, before>> /\ AfterEntry(x)
      /\ tree' = [tree EXCEPT ![x] = t] /\ at[x].copied = Len(e.data)
  BY MovesOn DEF CopyEnds, AtStep
<1>2. at[x].entry <= Len(archive) /\ IsTree(t)
  BY <1>1, GoingOn
<1>3. IsSeq(e.data) /\ e = archive[at[x].entry]
  BY <1>2, UnderWay
<1>4. Held(t, e) /\ t[Place(e)].data = e.data
  BY <1>1, <1>3, WholeIsPrefix DEF DeliverInv, Delivers, InHand
<1>5. Careful(t, t, e)
  BY <1>2, NothingTouched
<1> QED
  BY <1>1, <1>2, <1>4, <1>5, GoesAfterDelivery

LEMMA SetPermissionsDelivers ==
    ASSUME ExtractInv, DeliverInv, NEW x \in Extractors, SetPermissions(x)
    PROVE  DeliverInv'
<1> DEFINE e == Entry(x)
           t == tree[x]
           n == at[x].entry
           place == Reached(t, OutPath(e))
           m == Mode(e) % 4096
           u == [t EXCEPT ![place].mode = m]
           c == [entry |-> n + 1, step |-> "open", copied |-> 0]
<1>1. at[x].step = "mode" /\ UNCHANGED <<archive, before>>
  BY DEF SetPermissions, AtStep
<1>2. /\ n <= Len(archive) /\ IsTree(t) /\ IsSeq(OutPath(e)) /\ e.attributes[1] \in U16
  BY <1>1, GoingOn
<1>3. n \in 1..Len(archive) /\ Len(archive) \in Nat /\ e = archive[n]
  BY <1>2, UnderWay
<1>4. /\ \A p \in DOMAIN before : p \in DOMAIN t
      /\ Past(t, n) /\ ModesDue(x, t, n) /\ InHand(x, t, at[x])
  BY DEF DeliverInv, Delivers
<1>5. /\ x = "archive" /\ Held(t, e)
      /\ ~e.name.slash => t[Place(e)].data = e.data
  BY <1>1, <1>3, <1>4 DEF InHand
<1>6. \/ UNCHANGED tree /\ UNCHANGED at
      \/ Mode(e) = None /\ UNCHANGED tree /\ NextEntry(x)
      \/ /\ Mode(e) # None /\ place \in DOMAIN t
         /\ tree' = [tree EXCEPT ![x] = u] /\ NextEntry(x)
  <2>1. DOMAIN tree = Extractors
    BY DEF ExtractInv
  <2> QED
    BY <2>1 DEF SetPermissions, Fail
<1>7. CASE UNCHANGED tree /\ UNCHANGED at
  <2>1. tree' = [tree EXCEPT ![x] = t]
    BY <1>7, MovesOn
  <2> QED
    BY <1>1, <1>7, <2>1, StopsDelivering
<1>8. CASE Mode(e) = None /\ UNCHANGED tree /\ NextEntry(x)
  <2>1. tree' = [tree EXCEPT ![x] = t] /\ at' = [at EXCEPT ![x] = c]
    BY <1>8, MovesOn
  <2>2. Past(t, n + 1)
    BY <1>3, <1>4, <1>5, PastNext
  <2>3. ModesDue(x, t, n + 1)
    BY <1>3, <1>4, <1>8, NoModeGiven
  <2>4. Delivers(x, t, c)
    BY <1>4, <2>2, <2>3 DEF Delivers, InHand
  <2> HIDE DEF c
  <2> QED
    BY <1>1, <2>1, <2>4, DeliversFrame
<1>9. CASE /\ Mode(e) # None /\ place \in DOMAIN t
           /\ tree' = [tree EXCEPT ![x] = u] /\ NextEntry(x)
  <2>1. at' = [at EXCEPT ![x] = c]
    <3>1. NextEntry(x)
      BY <1>9
    <3> QED
      BY <3>1, MovesOn
  <2>2. m \in Modes
    BY <1>2, ModeBits
  <2> HIDE DEF m
  <2>3. Touched(t, u, e)
    BY <1>2, <1>9, <2>2, ModeTouched
  <2>4. /\ DOMAIN u = DOMAIN t /\ u[Place(e)].mode = m
        /\ \A p \in DOMAIN t : /\ u[p].kind = t[p].kind /\ u[p].data = t[p].data
                               /\ p # Place(e) => u[p] = t[p]
    BY <1>2, <1>9, NodeThere DEF Place
  <2> HIDE DEF u
  <2>5. Past(u, n)
    BY <1>3, <1>4, <2>3, <2>4, PastKept
  <2>6. Held(u, e) /\ (~e.name.slash => u[Place(e)].data = e.data)
    BY <1>5, <2>4 DEF Held
  <2>7. Past(u, n + 1)
    BY <1>3, <2>5, <2>6, PastNext
  <2>8. ModesDue(x, u, n + 1)
    BY <1>3, <1>4, <1>5, <1>9, <2>4, ModeGiven DEF m
  <2>9. Delivers(x, u, c)
    BY <1>4, <2>4, <2>7, <2>8 DEF Delivers, InHand
  <2> HIDE DEF c
  <2> QED
    BY <1>1, <1>9, <2>1, <2>9, DeliversFrame
<1> QED
  BY <1>6, <1>7, <1>8, <1>9

LEMMA FailureDelivers ==
    ASSUME ExtractInv, DeliverInv, NEW x \in Extractors, ReadFails(x) \/ SystemFails(x)
    PROVE  DeliverInv'
<1> DEFINE e == Entry(x)
           path == OutPath(e)
<1>1. UNCHANGED <<archive, before, at>> /\ at[x].step # "open"
  BY DEF ReadFails, SystemFails, AtStep, Fail
<1>2. /\ at[x].entry <= Len(archive) /\ IsTree(tree[x])
      /\ IsSeq(path) /\ Len(path) \in Nat
  BY <1>1, GoingOn
<1>3. CASE UNCHANGED tree
  <2>1. tree' = [tree EXCEPT ![x] = tree[x]]
    BY <1>3, MovesOn
  <2> QED
    BY <1>1, <2>1, StopsDelivering
<1>4. CASE /\ at[x].step = "directories"
           /\ \E n \in 0..Len(path) - 1 :
                tree' = [tree EXCEPT ![x] = CreateDirAll(tree[x], SubSeq(path, 1, n)).tree]
  <2>1. PICK n \in 0..Len(path) - 1 :
           tree' = [tree EXCEPT ![x] = CreateDirAll(tree[x], SubSeq(path, 1, n)).tree]
    BY <1>4
  <2>2. n \in Nat /\ n <= Len(path)
    BY <1>2
  <2> DEFINE u == CreateDirAll(tree[x], SubSeq(path, 1, n)).tree
  <2>3. Careful(tree[x], u, e)
    BY <1>2, <2>2, PathMade
  <2>4. tree' = [tree EXCEPT ![x] = u]
    BY <2>1
  <2> HIDE DEF u
  <2> QED
    BY <1>1, <1>2, <1>4, <2>3, <2>4, StopsDelivering
<1>5. \/ UNCHANGED tree
      \/ /\ at[x].step = "directories"
         /\ \E n \in 0..Len(path) - 1 :
              tree' = [tree EXCEPT ![x] = CreateDirAll(tree[x], SubSeq(path, 1, n)).tree]
  <2>1. DOMAIN tree = Extractors
    BY DEF ExtractInv
  <2> QED
    BY <2>1 DEF ReadFails, SystemFails, AtStep
<1> QED
  BY <1>3, <1>4, <1>5

\* Every reachable state has the entries gone past in place, the file under way
\* within reach of its path, and the modes that are due.
THEOREM DeliveryInvariance == Spec => []DeliverInv
<1>1. Init => DeliverInv
  <2> SUFFICES ASSUME Init, NEW x \in Extractors PROVE Delivers(x, tree[x], at[x])
    BY DEF DeliverInv
  <2>1. tree[x] = before /\ at[x] = [entry |-> 1, step |-> "open", copied |-> 0]
    BY DEF Init
  <2>2. archive \in Archives /\ Len(archive) \in Nat
    BY ExtractAssumption, LenIsNat DEF Init
  <2>3. \A p : Given(archive, x, 1, p) = {}
    BY <2>2 DEF Given
  <2>4. ModesDue(x, before, 1)
    BY <2>3 DEF ModesDue, DueMode
  <2>5. Past(before, 1)
    BY <2>2 DEF Past
  <2> QED
    BY <2>1, <2>4, <2>5 DEF Delivers, InHand
<1>2. ExtractInv /\ DeliverInv /\ [Next]_vars => DeliverInv'
  <2> SUFFICES ASSUME ExtractInv, DeliverInv, [Next]_vars PROVE DeliverInv'
    OBVIOUS
  <2>1. CASE UNCHANGED vars
    <3>1. "archive" \in Extractors
      BY DEF Extractors
    <3>2. tree' = [tree EXCEPT !["archive"] = tree["archive"]]
      BY <2>1, <3>1, MovesOn DEF vars
    <3> QED
      BY <2>1, <3>1, <3>2, StopsDelivering DEF vars
  <2>2. CASE Next
    BY <2>2, OpenEntryDelivers, MakeDirectoriesDelivers, CreateFileDelivers,
       CopyCellDelivers, CopyEndsDelivers, SetPermissionsDelivers, FailureDelivers DEF Next
  <2> QED
    BY <2>1, <2>2
<1> QED
  BY <1>1, <1>2, ExtractInvariance, PTL DEF Spec

\* At every moment, whatever fails, the entries that either extractor has gone
\* past are there with their data, of those with one place the last, and the
\* file it is writing holds the beginning of the entry's data and nothing of
\* what was there before (read.rs 443-479, read/stream.rs 60-82).
THEOREM EntriesAreDelivered == Spec => []EntriesDelivered
<1>1. ExtractInv /\ DeliverInv => EntriesDelivered
  <2> SUFFICES ASSUME ExtractInv, DeliverInv, NEW x \in Extractors
      PROVE  /\ \A i \in Done(x) :
                  LET p == Place(archive[i])
                  IN  /\ p \in DOMAIN tree[x]
                      /\ IF archive[i].name.slash THEN tree[x][p].kind = "dir"
                         ELSE /\ tree[x][p].kind = "file"
                              /\ LastOfIts(i, Started(x))
                                   => tree[x][p].data = archive[i].data
             /\ at[x].step = "copy" =>
                  tree[x][Place(Entry(x))].data = SubSeq(Entry(x).data, 1, at[x].copied)
    BY DEF EntriesDelivered
  <2>1. Past(tree[x], at[x].entry) /\ InHand(x, tree[x], at[x])
    BY DEF DeliverInv, Delivers
  <2>2. UpTo(at[x].entry) = Started(x)
    BY DEF UpTo, Started
  <2>3. ASSUME NEW i \in Done(x)
        PROVE  /\ Held(tree[x], archive[i])
               /\ ~archive[i].name.slash /\ LastOfIts(i, Started(x))
                    => tree[x][Place(archive[i])].data = archive[i].data
    BY <2>1, <2>2 DEF Past, Done
  <2>4. at[x].step = "copy" =>
          tree[x][Place(Entry(x))].data = SubSeq(Entry(x).data, 1, at[x].copied)
    BY <2>1 DEF InHand, Entry
  <2> QED
    BY <2>3, <2>4 DEF Held
<1> QED
  BY <1>1, ExtractInvariance, DeliveryInvariance, PTL

\* Every node has the mode of the last of its entries that gives one, if the
\* archive's extractor has gone past it, and otherwise the mode it had or that
\* of a new node; the stream's extractor sets none (read.rs 470-477).
THEOREM ModesAreApplied == Spec => []ModesApplied
<1>1. DeliverInv => ModesApplied
  <2> SUFFICES ASSUME DeliverInv, NEW x \in Extractors, NEW p \in DOMAIN tree[x]
      PROVE  LET given == { i \in Done(x) : x = "archive" /\ Mode(archive[i]) # None
                                              /\ Place(archive[i]) = p }
             IN  tree[x][p].mode = DueMode(archive, before, given, p, tree[x][p].kind)
    BY DEF ModesApplied, DueMode, Latest
  <2>1. tree[x][p].mode = DueMode(archive, before, Given(archive, x, at[x].entry, p), p, tree[x][p].kind)
    BY DEF DeliverInv, Delivers, ModesDue
  <2>2. Given(archive, x, at[x].entry, p)
          = { i \in Done(x) : x = "archive" /\ Mode(archive[i]) # None
                                /\ Place(archive[i]) = p }
    BY DEF Given, Done
  <2> QED
    BY <2>1, <2>2
<1> QED
  BY <1>1, DeliveryInvariance, PTL
-----------------------------------------------------------------------------
(***************************************************************************)
(* Success.  What an extractor that has gone through all entries has made: *)
(* kinds and content that depend on the archive and on what was there, and *)
(* not on the extractor.                                                   *)
(***************************************************************************)
\* The directories of an entry are there.
Laid(t, e) == \A p : NeedsDir(e, p) => IsDirectory(t, p)

\* A node that was there before is of the kind it was; a new one is what an
\* entry needs; and only an entry's own file has other content.
Filed(t) ==
    /\ \A p \in DOMAIN before : p \in DOMAIN t /\ t[p].kind = before[p].kind
    /\ \A p \in DOMAIN t \ DOMAIN before : \E i \in 1..Len(archive) :
          IF t[p].kind = "dir" THEN NeedsDir(archive[i], p) ELSE IsFile(archive[i], p)
    /\ \A p \in DOMAIN t :
          \/ \E i \in 1..Len(archive) : IsFile(archive[i], p)
          \/ t[p].data = IF p \in DOMAIN before THEN before[p].data ELSE << >>

\* What an entry does to a tree at most.
Orderly(t, u, e) ==
    /\ \A p \in DOMAIN t : /\ p \in DOMAIN u /\ u[p].kind = t[p].kind
                           /\ IsFile(e, p) \/ u[p].data = t[p].data
    /\ \A p \in DOMAIN u \ DOMAIN t :
          IF u[p].kind = "dir" THEN NeedsDir(e, p) /\ u[p].data = << >>
          ELSE IsFile(e, p)

LEMMA FiledKept ==
    ASSUME NEW n \in 1..Len(archive), NEW t, Filed(t), NEW u,
           Orderly(t, u, archive[n])
    PROVE  Filed(u)
<1>1. \A p \in DOMAIN before : p \in DOMAIN u /\ u[p].kind = before[p].kind
  BY DEF Filed, Orderly
<1>2. ASSUME NEW p \in DOMAIN u \ DOMAIN before
      PROVE  \E i \in 1..Len(archive) :
               IF u[p].kind = "dir" THEN NeedsDir(archive[i], p)
               ELSE IsFile(archive[i], p)
  <2>1. CASE p \in DOMAIN t
    BY <1>2, <2>1 DEF Filed, Orderly
  <2>2. CASE p \notin DOMAIN t
    BY <1>2, <2>2 DEF Orderly
  <2> QED
    BY <2>1, <2>2
<1>3. ASSUME NEW p \in DOMAIN u
      PROVE  \/ \E i \in 1..Len(archive) : IsFile(archive[i], p)
             \/ u[p].data = IF p \in DOMAIN before THEN before[p].data ELSE << >>
  <2>1. CASE p \in DOMAIN t
    BY <1>3, <2>1 DEF Filed, Orderly
  <2>2. CASE p \notin DOMAIN t
    <3>1. p \notin DOMAIN before
      BY <2>2 DEF Filed
    <3> QED
      BY <1>3, <2>2, <3>1 DEF Orderly
  <2> QED
    BY <2>1, <2>2
<1> QED
  BY <1>1, <1>2, <1>3 DEF Filed

LEMMA LaidKept ==
    ASSUME NEW t, NEW u, \A p \in DOMAIN t : p \in DOMAIN u /\ u[p].kind = t[p].kind,
           NEW e, Laid(t, e)
    PROVE  Laid(u, e)
BY DEF Laid, IsDirectory

\* A path that can be walked leads through directories.
LEMMA WalkedThrough ==
    ASSUME NEW t, IsTree(t), NEW path, IsSeq(path), Reached(t, path) # Nowhere,
           NEW n \in Nat, n < Len(path)
    PROVE  /\ Reached(t, SubSeq(path, 1, n)) = Normal(SubSeq(path, 1, n))
           /\ IsDirectory(t, Normal(SubSeq(path, 1, n)))
<1> DEFINE R(k) == Reached(t, SubSeq(path, 1, k))
           S == {k \in Nat : k <= Len(path) /\ R(k) # Nowhere =>
                   \A j \in Nat : j < k => IsDirectory(t, R(j))}
<1>1. 0 \in S
  OBVIOUS
<1>2. ASSUME NEW k \in Nat, k \in S PROVE k + 1 \in S
  <2> SUFFICES ASSUME k + 1 <= Len(path), R(k + 1) # Nowhere, NEW j \in Nat, j < k + 1
               PROVE  IsDirectory(t, R(j))
    OBVIOUS
  <2>1. k < Len(path) /\ k <= Len(path)
    BY LenIsNat
  <2>2. R(k + 1) = Lookup(t, R(k), path[k + 1])
    BY <2>1, WalkedPrefix
  <2>3. R(k) # Nowhere => \A i \in Nat : i < k => IsDirectory(t, R(i))
    BY <1>2, <2>1
  <2> HIDE DEF R
  <2>4. R(k) # Nowhere /\ IsDirectory(t, R(k))
    BY <2>2 DEF Lookup, IsDirectory
  <2>5. j < k \/ j = k
    OBVIOUS
  <2> QED
    BY <2>3, <2>4, <2>5
<1> HIDE DEF S
<1>3. Len(path) \in S
  BY <1>1, <1>2, Induction, LenIsNat
<1>4. R(Len(path)) # Nowhere /\ Len(path) \in Nat
  BY LenIsNat, WholeIsPrefix
<1>5. IsDirectory(t, R(n))
  BY <1>3, <1>4 DEF S
<1>6. n <= Len(path) /\ IsSeq(SubSeq(path, 1, n))
  <2>1. n <= Len(path)
    BY <1>4
  <2> QED
    BY <2>1, PrefixCells
<1>7. R(n) \in {Nowhere, Normal(SubSeq(path, 1, n))}
  BY <1>6, ReachedIsNormal
<1>8. Nowhere \notin DOMAIN t
  BY DEF IsTree
<1> QED
  BY <1>5, <1>7, <1>8 DEF IsDirectory

LEMMA LaidByPath ==
    ASSUME NEW t, IsTree(t), NEW e, IsSeq(OutPath(e)), Reached(t, OutPath(e)) # Nowhere,
           e.name.slash => IsDirectory(t, Place(e))
    PROVE  Laid(t, e)
<1> SUFFICES ASSUME NEW p, NeedsDir(e, p) PROVE IsDirectory(t, p)
  BY DEF Laid
<1>1. CASE e.name.slash /\ p = Place(e)
  BY <1>1
<1>2. CASE p \in Through(e)
  <2>1. PICK n \in 0..Len(OutPath(e)) - 1 : p = Normal(SubSeq(OutPath(e), 1, n))
    BY <1>2 DEF Through
  <2>2. n \in Nat /\ n < Len(OutPath(e))
    BY LenIsNat
  <2> QED
    BY <2>1, <2>2, WalkedThrough
<1> QED
  BY <1>1, <1>2 DEF NeedsDir

\* create_dir_all along the path of an entry.
LEMMA PathOrderly ==
    ASSUME NEW t, IsTree(t), NEW e, IsSeq(OutPath(e)),
           NEW m \in Nat, m <= Len(OutPath(e)), m < Len(OutPath(e)) \/ e.name.slash
    PROVE  Orderly(t, CreateDirAll(t, SubSeq(OutPath(e), 1, m)).tree, e)
<1> DEFINE path == OutPath(e)
           a == SubSeq(path, 1, m)
           u == CreateDirAll(t, a).tree
<1>1. IsSeq(a) /\ Len(a) = m /\ Len(path) \in Nat
  BY PrefixCells, LenIsNat
<1>2. Grown(t, u, a)
  BY <1>1, DirectoriesMade
<1>3. ASSUME NEW n \in 0..Len(a) PROVE NeedsDir(e, Normal(SubSeq(a, 1, n)))
  <2>1. n \in Nat /\ n <= m
    BY <1>1
  <2>2. SubSeq(a, 1, n) = SubSeq(path, 1, n)
    BY <2>1, PrefixOfPrefix
  <2>3. CASE n < Len(path)
    <3>1. n \in 0..Len(path) - 1
      BY <1>1, <2>1, <2>3
    <3> QED
      BY <2>2, <3>1 DEF NeedsDir, Through
  <2>4. CASE n = Len(path)
    <3>1. e.name.slash
      BY <1>1, <2>1, <2>4
    <3>2. SubSeq(path, 1, n) = path
      BY <2>4, WholeIsPrefix
    <3> QED
      BY <2>2, <3>1, <3>2 DEF NeedsDir, Place
  <2> QED
    BY <1>1, <2>1, <2>3, <2>4
<1> HIDE DEF a, u
<1>4. Orderly(t, u, e)
  BY <1>2, <1>3 DEF Grown, Orderly, NewDirectory
<1> QED
  BY <1>4 DEF u, a

LEMMA DirectoriesOrderly ==
    ASSUME NEW t, IsTree(t), NEW e, IsSeq(OutPath(e)), OutPath(e) # << >>, NEW x
    PROVE  Orderly(t, Directories(x, t, e).tree, e)
<1> DEFINE path == OutPath(e)
<1>1. Len(path) \in Nat /\ Len(path) - 1 \in Nat
  BY LenIsNat, EmptyIsSeq
<1>2. SubSeq(path, 1, Len(path)) = path /\ SubSeq(path, 1, Len(path) - 1) = Front(path)
  BY WholeIsPrefix, FrontCells
<1>3. e.name.slash => Orderly(t, CreateDirAll(t, path).tree, e)
  <2> DEFINE m == Len(path)
  <2>1. m \in Nat /\ m <= Len(path) /\ SubSeq(path, 1, m) = path
    BY <1>1, <1>2
  <2> HIDE DEF m
  <2>2. e.name.slash => Orderly(t, CreateDirAll(t, SubSeq(path, 1, m)).tree, e)
    BY <2>1, PathOrderly
  <2> QED
    BY <2>1, <2>2
<1>4. Orderly(t, CreateDirAll(t, Front(path)).tree, e)
  <2>1. Len(path) - 1 <= Len(path) /\ Len(path) - 1 < Len(path)
    BY <1>1
  <2> QED
    BY <1>1, <1>2, <2>1, PathOrderly
<1>5. Orderly(t, t, e)
  BY DEF Orderly
<1> QED
  BY <1>3, <1>4, <1>5 DEF Directories

\* The content of a file, or a new file.
LEMMA FileOrderly ==
    ASSUME NEW t, NEW u, NEW e, ~e.name.slash, Touched(t, u, e),
           \A p \in DOMAIN t : u[p].kind = t[p].kind,
           \A p \in DOMAIN u \ DOMAIN t : p = Place(e) /\ u[p].kind = "file"
    PROVE  Orderly(t, u, e)
BY DEF Touched, Orderly, IsFile

\* create_dir_all ends where the path leads.
LEMMA LastDirectoryReached ==
    ASSUME NEW t, IsTree(t), NEW path, IsSeq(path), path # << >>,
           CreateDirAll(t, path).ok
    PROVE  IsDir(CreateDirAll(t, path).tree, path)
<1>1. Len(path) \in Nat /\ Len(path) # 0
  BY LenIsNat, EmptyIsSeq
<1>2. PICK v : /\ v[0] = [tree |-> t, ok |-> TRUE]
               /\ CreateDirAll(t, path) = v[Len(path)]
               /\ \A k \in Nat : k < Len(path) =>
                    v[k + 1] = CreateDir(path, v[k], Indices(path)[k + 1])
  BY <1>1, MadeSteps
<1> DEFINE n == Len(path)
           k == n - 1
<1>3. k \in Nat /\ k < n /\ k + 1 = n /\ Indices(path)[n] = n
  BY <1>1 DEF Indices
<1>4. v[n] = CreateDir(path, v[k], n)
  <2> HIDE DEF k, n
  <2>1. v[k + 1] = CreateDir(path, v[k], Indices(path)[k + 1])
    BY <1>2, <1>3 DEF n
  <2> QED
    BY <1>3, <2>1
<1>5. SubSeq(path, 1, n) = path
  BY WholeIsPrefix
<1>6. IsTree(v[n].tree)
  <2>1. Grown(t, CreateDirAll(t, path).tree, path)
    BY DirectoriesMade
  <2> QED
    BY <1>2, <2>1 DEF Grown
<1> DEFINE d == v[k]
<1> HIDE DEF k, n, d
<1>7. v[n] = IF ~d.ok \/ IsDir(d.tree, path) THEN d
             ELSE IF Free(d.tree, path)
             THEN [tree |-> Plus(d.tree, Reached(d.tree, path), NewDirectory), ok |-> TRUE]
             ELSE [tree |-> d.tree, ok |-> FALSE]
  BY <1>4, <1>5 DEF CreateDir, d
<1>8. v[n].ok
  BY <1>2 DEF n
<1>9. CASE IsDir(d.tree, path)
  BY <1>2, <1>7, <1>9 DEF n
<1>10. CASE ~IsDir(d.tree, path)
  <2> DEFINE place == Reached(d.tree, path)
             u == Plus(d.tree, place, NewDirectory)
  <2>1. v[n].tree = u /\ Free(d.tree, path)
    BY <1>7, <1>8, <1>10
  <2>2. place # Nowhere /\ place \notin DOMAIN d.tree
    BY <2>1 DEF Free
  <2> HIDE DEF place
  <2>3. /\ u[place] = NewDirectory /\ place \in DOMAIN u
        /\ \A p \in DOMAIN d.tree : p \in DOMAIN u /\ u[p] = d.tree[p]
    BY <2>2 DEF Plus
  <2> HIDE DEF u
  <2>4. Reached(u, path) = Reached(d.tree, path)
    BY <2>2, <2>3, ReachedKept DEF place
  <2>5. IsDir(u, path)
    BY <2>3, <2>4 DEF IsDir, Exists, NewDirectory, place
  <2> QED
    BY <1>2, <2>1, <2>5 DEF n
<1> QED
  BY <1>9, <1>10

\* An extractor that has gone past an entry had nothing against it.
Whole(e) == e.name.slash \/ (e.sound /\ NamesFile(e))

Fine(x, e) == x \in e.opens /\ Enclosed(e.name) /\ Whole(e)

Passes(x, t, c) ==
    LET e == archive[c.entry]
    IN  /\ Filed(t)
        /\ \A i \in 1..Len(archive) : i < c.entry => Laid(t, archive[i]) /\ Fine(x, archive[i])
        /\ c.step # "open" => x \in e.opens
        /\ c.step = "create" => Exists(t, Front(OutPath(e)))
        /\ c.step = "mode" => /\ Reached(t, OutPath(e)) = Place(e)
                              /\ Laid(t, e) /\ Whole(e)
        /\ c.step = "copy" => NamesFile(e)

PassInv == \A x \in Extractors : Passes(x, tree[x], at[x])

LEMMA PassesFrame ==
    ASSUME ExtractInv, PassInv, NEW x \in Extractors, NEW u, NEW c,
           UNCHANGED <<archive, before>>, tree' = [tree EXCEPT ![x] = u],
           at' = [at EXCEPT ![x] = c], Passes(x, u, c)
    PROVE  PassInv'
<1>1. DOMAIN tree = Extractors /\ DOMAIN at = Extractors
  BY DEF ExtractInv, TypeOK
<1>2. \A y \in Extractors : Passes(y, tree'[y], at'[y])
  <2> TAKE y \in Extractors
  <2>1. CASE y = x
    <3>1. tree'[y] = u /\ at'[y] = c
      BY <1>1, <2>1
    <3> QED
      BY <2>1, <3>1
  <2>2. CASE y # x
    <3>1. tree'[y] = tree[y] /\ at'[y] = at[y]
      BY <1>1, <2>2
    <3> QED
      BY <3>1 DEF PassInv
  <2> QED
    BY <2>1, <2>2
<1>3. archive' = archive /\ before' = before
  OBVIOUS
<1>4. ASSUME NEW y \in Extractors PROVE Passes(y, tree[y], at[y])'
  <2>1. Filed(tree[y])'
    <3>1. Filed(tree'[y])
      BY <1>2 DEF Passes
    <3> QED
      BY <1>3, <3>1 DEF Filed
  <2> QED
    BY <1>2, <1>3, <2>1 DEF Passes
<1> QED
  BY <1>4 DEF PassInv

\* What an entry does to the tree does not disturb those gone past.
LEMMA OrderlyPasses ==
    ASSUME ExtractInv, PassInv, NEW x \in Extractors, at[x].entry <= Len(archive),
           NEW u, Orderly(tree[x], u, Entry(x))
    PROVE  /\ Filed(u)
           /\ \A i \in 1..Len(archive) : i < at[x].entry =>
                Laid(u, archive[i]) /\ Fine(x, archive[i])
<1>1. at[x].entry \in 1..Len(archive) /\ Entry(x) = archive[at[x].entry]
  BY UnderWay
<1>2. /\ Filed(tree[x])
      /\ \A i \in 1..Len(archive) : i < at[x].entry =>
           Laid(tree[x], archive[i]) /\ Fine(x, archive[i])
  BY DEF PassInv, Passes
<1>3. Filed(u)
  BY <1>1, <1>2, FiledKept
<1>4. \A p \in DOMAIN tree[x] : p \in DOMAIN u /\ u[p].kind = tree[x][p].kind
  BY DEF Orderly
<1> QED
  BY <1>2, <1>3, <1>4, LaidKept

LEMMA NothingOrderly == ASSUME NEW t, NEW e PROVE Orderly(t, t, e)
BY DEF Orderly

LEMMA StopsPassing ==
    ASSUME ExtractInv, PassInv, NEW x \in Extractors, UNCHANGED <<archive, before, at>>,
           NEW u, tree' = [tree EXCEPT ![x] = u],
           \/ u = tree[x]
           \/ /\ at[x].step = "directories" /\ at[x].entry <= Len(archive)
              /\ Orderly(tree[x], u, Entry(x))
    PROVE  PassInv'
<1>1. Passes(x, tree[x], at[x]) /\ at' = [at EXCEPT ![x] = at[x]]
  BY MovesOn DEF PassInv
<1>2. Passes(x, u, at[x])
  <2>1. CASE u = tree[x]
    BY <1>1, <2>1
  <2>2. CASE /\ at[x].step = "directories" /\ at[x].entry <= Len(archive)
             /\ Orderly(tree[x], u, Entry(x))
    BY <1>1, <2>2, OrderlyPasses DEF Passes
  <2> QED
    BY <2>1, <2>2
<1> QED
  BY <1>1, <1>2, PassesFrame

\* An extractor that goes on with an entry that is there.
LEMMA GoesPast ==
    ASSUME ExtractInv, PassInv, NEW x \in Extractors, UNCHANGED <<archive, before>>,
           at[x].step # "open", NEW u, tree' = [tree EXCEPT ![x] = u],
           Orderly(tree[x], u, Entry(x)), Reached(u, OutPath(Entry(x))) = Place(Entry(x)),
           Laid(u, Entry(x)), Whole(Entry(x)), AfterEntry(x) \/ NextEntry(x)
    PROVE  PassInv'
<1> DEFINE n == at[x].entry
<1>1. n <= Len(archive) /\ Enclosed(Entry(x).name)
  BY GoingOn
<1>2. n \in 1..Len(archive) /\ Len(archive) \in Nat /\ Entry(x) = archive[n]
  BY <1>1, UnderWay
<1>3. /\ Filed(u)
      /\ \A i \in 1..Len(archive) : i < n => Laid(u, archive[i]) /\ Fine(x, archive[i])
  BY <1>1, OrderlyPasses
<1>4. x \in Entry(x).opens
  BY <1>2 DEF PassInv, Passes
<1>5. CASE GoTo(x, "mode")
  <2> DEFINE c == [entry |-> n, step |-> "mode", copied |-> 0]
  <2>1. at' = [at EXCEPT ![x] = c]
    BY <1>5, MovesOn
  <2>2. Passes(x, u, c)
    BY <1>2, <1>3, <1>4 DEF Passes
  <2> HIDE DEF c
  <2> QED
    BY <2>1, <2>2, PassesFrame
<1>6. CASE NextEntry(x)
  <2> DEFINE c == [entry |-> n + 1, step |-> "open", copied |-> 0]
  <2>1. at' = [at EXCEPT ![x] = c]
    BY <1>6, MovesOn
  <2>2. \A i \in 1..Len(archive) : i < n + 1 => Laid(u, archive[i]) /\ Fine(x, archive[i])
    <3> SUFFICES ASSUME NEW i \in 1..Len(archive), i < n + 1
                 PROVE  Laid(u, archive[i]) /\ Fine(x, archive[i])
      OBVIOUS
    <3>1. CASE i = n
      BY <1>1, <1>2, <1>4, <3>1 DEF Fine
    <3>2. CASE i < n
      BY <1>3, <3>2
    <3> QED
      BY <1>2, <3>1, <3>2
  <2>3. Passes(x, u, c)
    BY <1>3, <2>2 DEF Passes
  <2> HIDE DEF c
  <2> QED
    BY <2>1, <2>3, PassesFrame
<1> QED
  BY <1>5, <1>6 DEF AfterEntry

LEMMA OpenEntryPasses ==
    ASSUME ExtractInv, PassInv, NEW x \in Extractors, OpenEntry(x) \/ Finish(x)
    PROVE  PassInv'
<1>1. /\ UNCHANGED <<archive, before>> /\ tree' = [tree EXCEPT ![x] = tree[x]]
      /\ \/ x \in Entry(x).opens /\ GoTo(x, "directories")
         \/ UNCHANGED at
  BY MovesOn DEF OpenEntry, Finish, AtStep, Fail
<1>2. CASE x \in Entry(x).opens /\ GoTo(x, "directories")
  <2> DEFINE c == [entry |-> at[x].entry, step |-> "directories", copied |-> 0]
  <2>1. at' = [at EXCEPT ![x] = c]
    BY <1>2, MovesOn
  <2>2. Passes(x, tree[x], c)
    BY <1>2 DEF PassInv, Passes, Entry
  <2> HIDE DEF c
  <2> QED
    BY <1>1, <2>1, <2>2, PassesFrame
<1> QED
  BY <1>1, <1>2, StopsPassing

\* The directory for a file is there once it was made.
LEMMA ParentIsThere ==
    ASSUME NEW t, IsTree(t), NEW e, IsSeq(OutPath(e)), OutPath(e) # << >>, NEW x,
           ~e.name.slash, Directories(x, t, e).ok
    PROVE  Exists(Directories(x, t, e).tree, Front(OutPath(e)))
<1> DEFINE f == Front(OutPath(e))
<1>1. IsSeq(f)
  BY FrontCells
<1>2. CASE Directories(x, t, e) = [tree |-> t, ok |-> TRUE] /\ Exists(t, f)
  BY <1>2
<1>3. CASE Directories(x, t, e) = CreateDirAll(t, f)
  <2>1. CASE f # << >>
    BY <1>1, <1>3, <2>1, LastDirectoryReached DEF IsDir
  <2>2. CASE f = << >>
    <3>1. Grown(t, CreateDirAll(t, f).tree, f)
      BY <1>1, DirectoriesMade
    <3> DEFINE u == CreateDirAll(t, f).tree
    <3>2. IsTree(u)
      BY <3>1 DEF Grown
    <3> HIDE DEF u
    <3>3. SubSeq(f, 1, 0) = f
      <4>1. Len(f) = 0
        BY <2>2, EmptyIsSeq
      <4> QED
        BY <1>1, <4>1, WholeIsPrefix
    <3>4. Reached(u, f) = << >>
      BY <1>1, <3>3, WalkedPrefix
    <3>5. Exists(u, f)
      BY <3>2, <3>4 DEF Exists, IsTree
    <3> QED
      BY <1>3, <3>5 DEF u
  <2> QED
    BY <2>1, <2>2
<1> QED
  BY <1>2, <1>3 DEF Directories

\* The directory of an entry, and those on its path.
LEMMA OwnDirectoryIsThere ==
    ASSUME NEW t, IsTree(t), NEW e, IsSeq(OutPath(e)), OutPath(e) # << >>, NEW x,
           e.name.slash, Directories(x, t, e).ok
    PROVE  LET u == Directories(x, t, e).tree
           IN  Reached(u, OutPath(e)) = Place(e) /\ Laid(u, e)
<1> DEFINE u == Directories(x, t, e).tree
<1>1. Directories(x, t, e) = CreateDirAll(t, OutPath(e))
  BY DEF Directories
<1>2. IsDir(u, OutPath(e))
  BY <1>1, LastDirectoryReached
<1>3. IsTree(u)
  BY <1>1, DirectoriesMade DEF Grown
<1> HIDE DEF u
<1>4. Reached(u, OutPath(e)) \in DOMAIN u /\ u[Reached(u, OutPath(e))].kind = "dir"
  BY <1>2 DEF IsDir, Exists
<1>5. Reached(u, OutPath(e)) = Place(e) /\ Reached(u, OutPath(e)) # Nowhere
  BY <1>3, <1>4, ReachedIsNormal DEF IsTree, Place
<1>6. Laid(u, e)
  BY <1>3, <1>4, <1>5, LaidByPath DEF IsDirectory
<1> QED
  BY <1>5, <1>6 DEF u

LEMMA MakeDirectoriesPasses ==
    ASSUME ExtractInv, PassInv, NEW x \in Extractors, MakeDirectories(x)
    PROVE  PassInv'
<1> DEFINE e == Entry(x)
           made == Directories(x, tree[x], e)
           u == made.tree
<1>1. /\ at[x].step = "directories" /\ UNCHANGED <<archive, before>>
      /\ tree' = [tree EXCEPT ![x] = u]
      /\ \/ Fail(x)
         \/ made.ok /\ e.name.slash /\ AfterEntry(x)
         \/ made.ok /\ ~e.name.slash /\ GoTo(x, "create")
  BY DEF MakeDirectories, AtStep
<1>2. /\ at[x].entry <= Len(archive) /\ IsTree(tree[x])
      /\ IsSeq(OutPath(e)) /\ OutPath(e) # << >>
  BY <1>1, GoingOn
<1>3. Orderly(tree[x], u, e)
  BY <1>2, DirectoriesOrderly
<1>4. made.ok /\ e.name.slash => Reached(u, OutPath(e)) = Place(e) /\ Laid(u, e)
  BY <1>2, OwnDirectoryIsThere
<1>5. made.ok /\ ~e.name.slash => Exists(u, Front(OutPath(e)))
  BY <1>2, ParentIsThere
<1> HIDE DEF u, made
<1>6. CASE Fail(x)
  <2>1. UNCHANGED at
    BY <1>6 DEF Fail
  <2> QED
    BY <1>1, <1>2, <1>3, <2>1, StopsPassing
<1>7. CASE made.ok /\ e.name.slash /\ AfterEntry(x)
  <2>1. Whole(e)
    BY <1>7 DEF Whole
  <2> QED
    BY <1>1, <1>3, <1>4, <1>7, <2>1, GoesPast
<1>8. CASE made.ok /\ ~e.name.slash /\ GoTo(x, "create")
  <2> DEFINE c == [entry |-> at[x].entry, step |-> "create", copied |-> 0]
  <2>1. at' = [at EXCEPT ![x] = c]
    BY <1>8, MovesOn
  <2>2. /\ Filed(u)
        /\ \A i \in 1..Len(archive) : i < at[x].entry =>
             Laid(u, archive[i]) /\ Fine(x, archive[i])
    BY <1>2, <1>3, OrderlyPasses
  <2>3. x \in e.opens
    BY <1>1 DEF PassInv, Passes, Entry
  <2>4. Passes(x, u, c)
    BY <1>5, <1>8, <2>2, <2>3 DEF Passes, Entry
  <2> HIDE DEF c
  <2> QED
    BY <1>1, <2>1, <2>4, PassesFrame
<1> QED
  BY <1>1, <1>6, <1>7, <1>8

LEMMA CreatedOrderly ==
    ASSUME NEW t, IsTree(t), NEW e, IsSeq(OutPath(e)), ~e.name.slash,
           CanCreate(t, OutPath(e))
    PROVE  Orderly(t, Created(t, OutPath(e)), e)
<1> DEFINE path == OutPath(e)
           u == Created(t, path)
<1>1. Careful(t, u, e) /\ u[Place(e)].kind = "file"
  BY FileTouched
<1>2. \A p \in DOMAIN u \ DOMAIN t : p = Place(e)
  <2>1. CASE Exists(t, path)
    BY <2>1 DEF Created
  <2>2. CASE ~Exists(t, path)
    <3>1. u = Plus(t, Reached(t, path), NewFile) /\ Free(t, path)
      BY <2>2 DEF Created, CanCreate
    <3>2. DOMAIN u = DOMAIN t \cup {Reached(t, path)} /\ Reached(t, path) # Nowhere
      BY <3>1 DEF Plus, Free
    <3>3. Reached(t, path) = Place(e)
      BY <3>2, ReachedIsNormal DEF Place
    <3> QED
      BY <3>2, <3>3
  <2> QED
    BY <2>1, <2>2
<1> HIDE DEF u
<1>3. /\ Touched(t, u, e) /\ \A p \in DOMAIN t : u[p].kind = t[p].kind
      /\ \A p \in DOMAIN u \ DOMAIN t : p = Place(e) /\ u[p].kind = "file"
  BY <1>1, <1>2 DEF Careful
<1>4. Orderly(t, u, e)
  BY <1>3, FileOrderly
<1> QED
  BY <1>4 DEF u

LEMMA CreateFilePasses ==
    ASSUME ExtractInv, DeliverInv, PassInv, NEW x \in Extractors, CreateFile(x)
    PROVE  PassInv'
<1> DEFINE e == Entry(x)
           t == tree[x]
           u == Created(t, OutPath(e))
<1>1. at[x].step = "create" /\ UNCHANGED <<archive, before>>
  BY DEF CreateFile, AtStep
<1>2. at[x].entry <= Len(archive) /\ IsTree(t) /\ IsSeq(OutPath(e))
  BY <1>1, GoingOn
<1>3. CASE NamesFile(e) /\ CanCreate(t, OutPath(e))
  <2> DEFINE c == [entry |-> at[x].entry, step |-> "copy", copied |-> 0]
  <2>1. tree' = [tree EXCEPT ![x] = u] /\ at' = [at EXCEPT ![x] = c]
    <3>1. DOMAIN tree = Extractors
      BY DEF ExtractInv
    <3>2. tree' = [tree EXCEPT ![x] = u] /\ GoTo(x, "copy")
      BY <1>3, <3>1 DEF CreateFile
    <3> QED
      BY <3>2, MovesOn
  <2>2. ~e.name.slash
    BY <1>1 DEF DeliverInv, Delivers, InHand, Entry
  <2>3. Orderly(t, u, e)
    BY <1>2, <1>3, <2>2, CreatedOrderly
  <2> HIDE DEF u
  <2>4. /\ Filed(u)
        /\ \A i \in 1..Len(archive) : i < at[x].entry =>
             Laid(u, archive[i]) /\ Fine(x, archive[i])
    BY <1>2, <2>3, OrderlyPasses
  <2>5. x \in e.opens
    BY <1>1 DEF PassInv, Passes, Entry
  <2>6. Passes(x, u, c)
    BY <1>3, <2>4, <2>5 DEF Passes, Entry
  <2> HIDE DEF c
  <2> QED
    BY <1>1, <2>1, <2>6, PassesFrame
<1>4. CASE ~(NamesFile(e) /\ CanCreate(t, OutPath(e)))
  <2>1. UNCHANGED at /\ tree' = [tree EXCEPT ![x] = t]
    BY <1>4, MovesOn DEF CreateFile, Fail
  <2> QED
    BY <1>1, <2>1, StopsPassing
<1> QED
  BY <1>3, <1>4

LEMMA CopyCellPasses ==
    ASSUME ExtractInv, DeliverInv, PassInv, NEW x \in Extractors, CopyCell(x)
    PROVE  PassInv'
<1> DEFINE e == Entry(x)
           t == tree[x]
           place == Reached(t, OutPath(e))
           n == at[x].copied
           d == Written(t[place].data, n, e.data[n + 1])
           u == [t EXCEPT ![place].data = d]
           c == [entry |-> at[x].entry, step |-> "copy", copied |-> n + 1]
<1>1. /\ at[x].step = "copy" /\ UNCHANGED <<archive, before>>
      /\ at' = [at EXCEPT ![x].copied = n + 1]
      /\ tree' = [tree EXCEPT ![x] = u]
  <2>1. DOMAIN tree = Extractors /\ DOMAIN at = Extractors
    BY DEF ExtractInv, TypeOK
  <2> QED
    BY <2>1 DEF CopyCell, AtStep
<1>2. at[x].entry <= Len(archive) /\ IsTree(t) /\ IsSeq(OutPath(e))
  BY <1>1, GoingOn
<1>3. /\ e = archive[at[x].entry]
      /\ at[x] = [entry |-> at[x].entry, step |-> "copy", copied |-> n]
  BY <1>1, <1>2, UnderWay
<1>4. at' = [at EXCEPT ![x] = c]
  <2>1. DOMAIN at = Extractors
    BY DEF ExtractInv, TypeOK
  <2>2. [at[x] EXCEPT !.copied = n + 1] = c
    BY <1>3
  <2> QED
    BY <1>1, <2>1, <2>2
<1>5. ~e.name.slash /\ Held(t, e) /\ place = Place(e)
  BY <1>1, <1>3 DEF DeliverInv, Delivers, InHand
<1>6. place \in DOMAIN t
  BY <1>5 DEF Held
<1> HIDE DEF d
<1>7. Careful(t, u, e)
  BY <1>2, <1>6, DataTouched
<1>8. DOMAIN u = DOMAIN t
  OBVIOUS
<1> HIDE DEF u
<1>9. Orderly(t, u, e)
  BY <1>5, <1>7, <1>8, FileOrderly DEF Careful
<1>10. /\ Filed(u)
       /\ \A i \in 1..Len(archive) : i < at[x].entry =>
            Laid(u, archive[i]) /\ Fine(x, archive[i])
  BY <1>2, <1>9, OrderlyPasses
<1>11. x \in e.opens /\ NamesFile(e)
  BY <1>1 DEF PassInv, Passes, Entry
<1>12. Passes(x, u, c)
  BY <1>10, <1>11 DEF Passes, Entry
<1> HIDE DEF c
<1> QED
  BY <1>1, <1>4, <1>12, PassesFrame

LEMMA CopyEndsPasses ==
    ASSUME ExtractInv, DeliverInv, PassInv, NEW x \in Extractors, CopyEnds(x)
    PROVE  PassInv'
<1> DEFINE e == Entry(x)
           t == tree[x]
<1>1. /\ at[x].step = "copy" /\ UNCHANGED <<archive, before>> /\ AfterEntry(x)
      /\ tree' = [tree EXCEPT ![x] = t] /\ e.sound
  BY MovesOn DEF CopyEnds, AtStep
<1>2. at[x].entry <= Len(archive) /\ IsTree(t) /\ IsSeq(OutPath(e))
  BY <1>1, GoingOn
<1>3. /\ ~e.name.slash /\ Held(t, e) /\ Reached(t, OutPath(e)) = Place(e)
      /\ Whole(e)
  BY <1>1 DEF DeliverInv, Delivers, InHand, Entry, PassInv, Passes, Whole
<1>4. Laid(t, e)
  <2>1. Reached(t, OutPath(e)) # Nowhere
    BY <1>2, <1>3 DEF Held, IsTree
  <2> QED
    BY <1>2, <1>3, <2>1, LaidByPath
<1>5. Orderly(t, t, e)
  BY NothingOrderly
<1> QED
  BY <1>1, <1>3, <1>4, <1>5, GoesPast

LEMMA SetPermissionsPasses ==
    ASSUME ExtractInv, DeliverInv, PassInv, NEW x \in Extractors, SetPermissions(x)
    PROVE  PassInv'
<1> DEFINE e == Entry(x)
           t == tree[x]
           n == at[x].entry
           place == Reached(t, OutPath(e))
           m == Mode(e) % 4096
           u == [t EXCEPT ![place].mode = m]
           c == [entry |-> n + 1, step |-> "open", copied |-> 0]
<1>1. at[x].step = "mode" /\ UNCHANGED <<archive, before>>
  BY DEF SetPermissions, AtStep
<1>2. n <= Len(archive) /\ IsTree(t) /\ IsSeq(OutPath(e)) /\ Enclosed(e.name)
  BY <1>1, GoingOn
<1>3. /\ n \in 1..Len(archive) /\ Len(archive) \in Nat /\ e = archive[n]
  BY <1>2, UnderWay
<1>4. place = Place(e) /\ Laid(t, e) /\ Whole(e) /\ x \in e.opens
  BY <1>1, <1>3 DEF PassInv, Passes
<1>5. \/ UNCHANGED tree /\ UNCHANGED at
      \/ UNCHANGED tree /\ NextEntry(x)
      \/ place \in DOMAIN t /\ tree' = [tree EXCEPT ![x] = u] /\ NextEntry(x)
  <2>1. DOMAIN tree = Extractors
    BY DEF ExtractInv
  <2> QED
    BY <2>1 DEF SetPermissions, Fail
<1>6. CASE UNCHANGED tree /\ UNCHANGED at
  <2>1. tree' = [tree EXCEPT ![x] = t]
    BY <1>6, MovesOn
  <2> QED
    BY <1>1, <1>6, <2>1, StopsPassing
<1>7. ASSUME NEW w, tree' = [tree EXCEPT ![x] = w], NextEntry(x),
             DOMAIN w = DOMAIN t,
             \A p \in DOMAIN t : w[p].kind = t[p].kind /\ w[p].data = t[p].data
      PROVE  PassInv'
  <2>1. Orderly(t, w, e)
    BY <1>7 DEF Orderly
  <2>2. Laid(w, e)
    BY <1>4, <1>7, LaidKept
  <2>3. /\ Filed(w)
        /\ \A i \in 1..Len(archive) : i < n => Laid(w, archive[i]) /\ Fine(x, archive[i])
    BY <1>2, <2>1, OrderlyPasses
  <2>4. at' = [at EXCEPT ![x] = c]
    BY <1>7, MovesOn
  <2>5. \A i \in 1..Len(archive) : i < n + 1 => Laid(w, archive[i]) /\ Fine(x, archive[i])
    <3> SUFFICES ASSUME NEW i \in 1..Len(archive), i < n + 1
                 PROVE  Laid(w, archive[i]) /\ Fine(x, archive[i])
      OBVIOUS
    <3>1. CASE i = n
      BY <1>2, <1>3, <1>4, <2>2, <3>1 DEF Fine
    <3>2. CASE i < n
      BY <2>3, <3>2
    <3> QED
      BY <1>3, <3>1, <3>2
  <2>6. Passes(x, w, c)
    BY <2>3, <2>5 DEF Passes
  <2> HIDE DEF c
  <2> QED
    BY <1>1, <1>7, <2>4, <2>6, PassesFrame
<1>8. CASE UNCHANGED tree /\ NextEntry(x)
  <2>1. tree' = [tree EXCEPT ![x] = t]
    BY <1>8, MovesOn
  <2> QED
    BY <1>7, <1>8, <2>1
<1>9. CASE place \in DOMAIN t /\ tree' = [tree EXCEPT ![x] = u] /\ NextEntry(x)
  <2>1. /\ DOMAIN u = DOMAIN t
        /\ \A p \in DOMAIN t : u[p].kind = t[p].kind /\ u[p].data = t[p].data
    <3> HIDE DEF m
    <3> QED
      BY <1>2, <1>9, NodeThere
  <2> HIDE DEF u
  <2> QED
    BY <1>7, <1>9, <2>1
<1> QED
  BY <1>5, <1>6, <1>8, <1>9

LEMMA FailurePasses ==
    ASSUME ExtractInv, DeliverInv, PassInv, NEW x \in Extractors,
           ReadFails(x) \/ SystemFails(x)
    PROVE  PassInv'
<1> DEFINE e == Entry(x)
           path == OutPath(e)
<1>1. UNCHANGED <<archive, before, at>> /\ at[x].step # "open"
  BY DEF ReadFails, SystemFails, AtStep, Fail
<1>2. /\ at[x].entry <= Len(archive) /\ IsTree(tree[x])
      /\ IsSeq(path) /\ Len(path) \in Nat
  BY <1>1, GoingOn
<1>3. CASE UNCHANGED tree
  <2>1. tree' = [tree EXCEPT ![x] = tree[x]]
    BY <1>3, MovesOn
  <2> QED
    BY <1>1, <2>1, StopsPassing
<1>4. CASE /\ at[x].step = "directories"
           /\ \E n \in 0..Len(path) - 1 :
                tree' = [tree EXCEPT ![x] = CreateDirAll(tree[x], SubSeq(path, 1, n)).tree]
  <2>1. PICK n \in 0..Len(path) - 1 :
           tree' = [tree EXCEPT ![x] = CreateDirAll(tree[x], SubSeq(path, 1, n)).tree]
    BY <1>4
  <2>2. n \in Nat /\ n <= Len(path) /\ n < Len(path)
    BY <1>2
  <2> DEFINE u == CreateDirAll(tree[x], SubSeq(path, 1, n)).tree
  <2>3. Orderly(tree[x], u, e)
    BY <1>2, <2>2, PathOrderly
  <2>4. tree' = [tree EXCEPT ![x] = u]
    BY <2>1
  <2> HIDE DEF u
  <2> QED
    BY <1>1, <1>2, <1>4, <2>3, <2>4, StopsPassing
<1>5. \/ UNCHANGED tree
      \/ /\ at[x].step = "directories"
         /\ \E n \in 0..Len(path) - 1 :
              tree' = [tree EXCEPT ![x] = CreateDirAll(tree[x], SubSeq(path, 1, n)).tree]
  <2>1. DOMAIN tree = Extractors
    BY DEF ExtractInv
  <2> QED
    BY <2>1 DEF ReadFails, SystemFails, AtStep
<1> QED
  BY <1>3, <1>4, <1>5

\* In every reachable state the trees differ from the first by directories that
\* entries need and by entries' files, and the next step's path can be walked.
THEOREM PassInvariance == Spec => []PassInv
<1>1. Init => PassInv
  <2> SUFFICES ASSUME Init, NEW x \in Extractors PROVE Passes(x, tree[x], at[x])
    BY DEF PassInv
  <2>1. tree[x] = before /\ at[x] = [entry |-> 1, step |-> "open", copied |-> 0]
    BY DEF Init
  <2>2. archive \in Archives /\ Len(archive) \in Nat
    BY ExtractAssumption, LenIsNat DEF Init
  <2>3. Filed(before)
    BY DEF Filed
  <2> QED
    BY <2>1, <2>2, <2>3 DEF Passes
<1>2. ExtractInv /\ DeliverInv /\ PassInv /\ [Next]_vars => PassInv'
  <2> SUFFICES ASSUME ExtractInv, DeliverInv, PassInv, [Next]_vars PROVE PassInv'
    OBVIOUS
  <2>1. CASE UNCHANGED vars
    <3>1. "archive" \in Extractors
      BY DEF Extractors
    <3>2. tree' = [tree EXCEPT !["archive"] = tree["archive"]]
      BY <2>1, <3>1, MovesOn DEF vars
    <3> QED
      BY <2>1, <3>1, <3>2, StopsPassing DEF vars
  <2>2. CASE Next
    BY <2>2, OpenEntryPasses, MakeDirectoriesPasses, CreateFilePasses,
       CopyCellPasses, CopyEndsPasses, SetPermissionsPasses, FailurePasses DEF Next
  <2> QED
    BY <2>1, <2>2
<1> QED
  BY <1>1, <1>2, ExtractInvariance, DeliveryInvariance, PTL DEF Spec

\* The entries fit one another and what was there before: every path can lead
\* where it does by name, and no place has to be both a file and a directory.
Fitting ==
    /\ \A i \in 1..Len(archive) : /\ \A x \in Extractors : Fine(x, archive[i])
                                  /\ Nowhere \notin Passed(archive[i])
    /\ \A i \in 1..Len(archive) : \A p \in DOMAIN before :
          /\ NeedsDir(archive[i], p) => before[p].kind = "dir"
          /\ IsFile(archive[i], p) => before[p].kind = "file"
    /\ \A i, k \in 1..Len(archive) : \A p :
          NeedsDir(archive[i], p) => ~IsFile(archive[k], p)

\* Then every place is what an entry needs it to be, if it is there.
LEMMA KindsFit ==
    ASSUME Fitting, NEW t, IsTree(t), Filed(t), NEW i \in 1..Len(archive), NEW p \in DOMAIN t
    PROVE  /\ NeedsDir(archive[i], p) => t[p].kind = "dir"
           /\ IsFile(archive[i], p) => t[p].kind = "file"
<1>1. CASE p \in DOMAIN before
  BY <1>1 DEF Filed, Fitting
<1>2. CASE p \notin DOMAIN before
  <2>1. PICK k \in 1..Len(archive) :
           IF t[p].kind = "dir" THEN NeedsDir(archive[k], p) ELSE IsFile(archive[k], p)
    BY <1>2 DEF Filed
  <2>2. t[p].kind \in {"dir", "file"}
    BY DEF IsTree, IsNode
  <2> QED
    BY <2>1, <2>2 DEF Fitting
<1> QED
  BY <1>1, <1>2

\* A path that leads through directories only, as far as they are there, and
\* into each of them something may be put.
Open(node) == Searchable(node) /\ Writable(node)

Clear(t, path) ==
    \A n \in 0..Len(path) :
        LET p == Normal(SubSeq(path, 1, n))
        IN  /\ p # Nowhere
            /\ p \in DOMAIN t => /\ t[p].kind = "dir"
                                 /\ n < Len(path) => Open(t[p])

LEMMA NewDirectoryIsOpen == Open(NewDirectory) /\ Writable(NewFile)
BY DEF Open, Searchable, Writable, NewDirectory, NewFile

LEMMA ClearKept ==
    ASSUME NEW t, NEW path, Clear(t, path), NEW u, Grown(t, u, path)
    PROVE  Clear(u, path)
<1> SUFFICES ASSUME NEW n \in 0..Len(path)
             PROVE  LET p == Normal(SubSeq(path, 1, n))
                    IN  /\ p # Nowhere
                        /\ p \in DOMAIN u => /\ u[p].kind = "dir"
                                             /\ n < Len(path) => Open(u[p])
  BY DEF Clear
<1> DEFINE p == Normal(SubSeq(path, 1, n))
<1>1. /\ p # Nowhere
      /\ p \in DOMAIN t => t[p].kind = "dir" /\ (n < Len(path) => Open(t[p]))
  BY DEF Clear
<1>2. p \in DOMAIN t => p \in DOMAIN u /\ u[p] = t[p]
  BY DEF Grown
<1>3. p \in DOMAIN u /\ p \notin DOMAIN t => u[p] = NewDirectory
  BY DEF Grown
<1>4. NewDirectory.kind = "dir"
  BY DEF NewDirectory
<1> HIDE DEF p
<1>5. /\ p # Nowhere
      /\ p \in DOMAIN u => u[p].kind = "dir" /\ (n < Len(path) => Open(u[p]))
  BY <1>1, <1>2, <1>3, <1>4, NewDirectoryIsOpen
<1> QED
  BY <1>5 DEF p

\* A component that leads to where nothing is leads down.
LEMMA NewPlaceIsBelow ==
    ASSUME NEW t, IsTree(t), NEW from \in DOMAIN t, IsSeq(from), NEW c,
           Walk(from, c) \notin DOMAIN t
    PROVE  Front(Walk(from, c)) = from
<1>1. Front(from) \in DOMAIN t \/ from = << >>
  BY DEF IsTree
<1>2. Walk(from, c) = Append(from, c)
  BY <1>1 DEF Walk
<1> QED
  BY <1>2, FrontOfAppend

\* One directory more.
LEMMA ClearStep ==
    ASSUME NEW t, IsTree(t), NEW path, IsSeq(path), Clear(t, path),
           NEW n \in Nat, n < Len(path), IsDir(t, SubSeq(path, 1, n))
    PROVE  LET made == CreateDir(path, [tree |-> t, ok |-> TRUE], n + 1)
           IN  /\ made.ok /\ Grown(t, made.tree, path)
               /\ IsDir(made.tree, SubSeq(path, 1, n + 1))
<1> DEFINE q == SubSeq(path, 1, n)
           r == SubSeq(path, 1, n + 1)
           from == Reached(t, q)
           to == Reached(t, r)
           made == CreateDir(path, [tree |-> t, ok |-> TRUE], n + 1)
<1>1. /\ Len(path) \in Nat /\ n <= Len(path) /\ n + 1 \in Nat /\ n + 1 <= Len(path)
      /\ n \in 0..Len(path) /\ n + 1 \in 0..Len(path)
  BY LenIsNat
<1>2. IsSeq(q) /\ IsSeq(r)
  BY <1>1, PrefixCells
<1>3. from \in DOMAIN t /\ t[from].kind = "dir" /\ from = Normal(q) /\ from # Nowhere
  <2>1. from \in DOMAIN t /\ t[from].kind = "dir"
    BY DEF IsDir, Exists
  <2>2. from # Nowhere
    BY <2>1 DEF IsTree
  <2> QED
    BY <1>2, <2>1, <2>2, ReachedIsNormal
<1>4. Open(t[from])
  BY <1>1, <1>3 DEF Clear
<1>5. to = Walk(from, path[n + 1])
  <2>1. to = Lookup(t, from, path[n + 1])
    BY WalkedPrefix
  <2> QED
    BY <1>3, <1>4, <2>1 DEF Lookup, Open
<1>6. to = Normal(r)
  <2>1. Normal(r) = Walk(Normal(q), path[n + 1])
    BY NormalisedPrefix
  <2> QED
    BY <1>3, <1>5, <2>1
<1>7. to # Nowhere /\ (to \in DOMAIN t => t[to].kind = "dir")
  BY <1>1, <1>6 DEF Clear
<1>8. Grown(t, made.tree, path)
  BY <1>1, DirectoryMade
<1>9. CASE to \in DOMAIN t
  <2>1. IsDir(t, r)
    BY <1>7, <1>9 DEF IsDir, Exists
  <2>2. made = [tree |-> t, ok |-> TRUE]
    BY <2>1 DEF CreateDir
  <2> QED
    BY <1>8, <2>1, <2>2
<1>10. CASE to \notin DOMAIN t
  <2>1. IsSeq(from)
    BY <1>2, <1>3, ReachedIsNormal
  <2>2. Front(to) = from
    BY <1>3, <1>5, <1>10, <2>1, NewPlaceIsBelow
  <2>4. Free(t, r)
    BY <1>4, <1>7, <1>10, <2>2 DEF Free, Open
  <2>5. ~IsDir(t, r)
    BY <1>10 DEF IsDir, Exists
  <2>6. made = [tree |-> Plus(t, to, NewDirectory), ok |-> TRUE]
    BY <2>4, <2>5 DEF CreateDir
  <2> DEFINE u == Plus(t, to, NewDirectory)
  <2>7. /\ \A p \in DOMAIN t : p \in DOMAIN u /\ u[p] = t[p]
        /\ to \in DOMAIN u /\ u[to] = NewDirectory
    BY <1>10 DEF Plus
  <2> HIDE DEF u, to
  <2>8. Reached(u, r) = to
    BY <1>2, <1>7, <2>7, ReachedKept DEF to
  <2>9. IsDir(u, r)
    BY <2>7, <2>8 DEF IsDir, Exists, NewDirectory
  <2>10. made.tree = u /\ made.ok
    BY <2>6 DEF u, to
  <2> QED
    BY <1>8, <2>9, <2>10
<1> QED
  BY <1>9, <1>10

\* create_dir_all makes the directories of such a path.
LEMMA ClearIsMade ==
    ASSUME NEW t, IsTree(t), NEW path, IsSeq(path), Clear(t, path)
    PROVE  CreateDirAll(t, path).ok
<1>1. Len(path) \in Nat
  BY LenIsNat
<1>2. PICK v : /\ v[0] = [tree |-> t, ok |-> TRUE]
               /\ CreateDirAll(t, path) = v[Len(path)]
               /\ \A k \in Nat : k < Len(path) =>
                    v[k + 1] = CreateDir(path, v[k], Indices(path)[k + 1])
  BY <1>1, MadeSteps
<1> DEFINE S == {k \in Nat : k <= Len(path) =>
                   /\ v[k] = [tree |-> v[k].tree, ok |-> TRUE]
                   /\ IsTree(v[k].tree) /\ Clear(v[k].tree, path)
                   /\ IsDir(v[k].tree, SubSeq(path, 1, k))}
<1>3. 0 \in S
  <2>1. IsDir(t, SubSeq(path, 1, 0))
    <3>1. Reached(t, SubSeq(path, 1, 0)) = << >>
      BY WalkedPrefix
    <3>2. << >> \in DOMAIN t
      BY DEF IsTree
    <3>3. Normal(SubSeq(path, 1, 0)) = << >>
      BY NormalisedPrefix
    <3>4. 0 \in 0..Len(path)
      BY <1>1
    <3>5. t[<< >>].kind = "dir"
      BY <3>2, <3>3, <3>4 DEF Clear
    <3> QED
      BY <3>1, <3>2, <3>5 DEF IsDir, Exists
  <2>2. v[0].tree = t /\ v[0] = [tree |-> v[0].tree, ok |-> TRUE]
    BY <1>2
  <2> QED
    BY <2>1, <2>2
<1>4. ASSUME NEW k \in Nat, k \in S PROVE k + 1 \in S
  <2> SUFFICES ASSUME k + 1 <= Len(path)
               PROVE  /\ v[k + 1] = [tree |-> v[k + 1].tree, ok |-> TRUE]
                      /\ IsTree(v[k + 1].tree) /\ Clear(v[k + 1].tree, path)
                      /\ IsDir(v[k + 1].tree, SubSeq(path, 1, k + 1))
    OBVIOUS
  <2>1. k < Len(path) /\ k <= Len(path)
    BY <1>1
  <2> DEFINE w == v[k].tree
             made == CreateDir(path, [tree |-> w, ok |-> TRUE], k + 1)
  <2>2. /\ v[k] = [tree |-> w, ok |-> TRUE] /\ IsTree(w) /\ Clear(w, path)
        /\ IsDir(w, SubSeq(path, 1, k))
    BY <1>4, <2>1
  <2>3. v[k + 1] = made
    <3>1. Indices(path)[k + 1] = k + 1
      BY <1>1, <2>1 DEF Indices
    <3> QED
      BY <1>2, <2>1, <2>2, <3>1
  <2> HIDE DEF w
  <2>4. made.ok /\ Grown(w, made.tree, path) /\ IsDir(made.tree, SubSeq(path, 1, k + 1))
    BY <2>1, <2>2, ClearStep
  <2>5. made = [tree |-> made.tree, ok |-> TRUE]
    <3>1. \E r, b : made = [tree |-> r, ok |-> b]
      BY DEF CreateDir
    <3> HIDE DEF made
    <3>2. PICK r, b : made = [tree |-> r, ok |-> b]
      BY <3>1
    <3>3. made.tree = r /\ made.ok = b
      BY <3>2
    <3>4. made = [tree |-> made.tree, ok |-> made.ok]
      BY <3>2, <3>3
    <3> QED
      BY <2>4, <3>4
  <2> HIDE DEF made
  <2>6. IsTree(made.tree) /\ Clear(made.tree, path)
    BY <2>2, <2>4, ClearKept DEF Grown
  <2> QED
    BY <2>3, <2>4, <2>5, <2>6
<1> HIDE DEF S
<1>5. Len(path) \in S
  BY <1>1, <1>3, <1>4, Induction
<1>6. v[Len(path)] = [tree |-> v[Len(path)].tree, ok |-> TRUE]
  BY <1>1, <1>5 DEF S
<1> QED
  BY <1>2, <1>6

LEMMA HighestOfSome ==
    ASSUME NEW n \in Nat, NEW s, s \subseteq 1..n, s # {}
    PROVE  Latest(s) \in s /\ \A k \in s : k <= Latest(s)
<1> DEFINE S == {m \in Nat : \A r : r \subseteq 1..m /\ r # {} =>
                               \E i \in r : \A k \in r : k <= i}
<1>1. 0 \in S
  OBVIOUS
<1>2. ASSUME NEW m \in Nat, m \in S PROVE m + 1 \in S
  <2> SUFFICES ASSUME NEW r, r \subseteq 1..m + 1, r # {}
               PROVE  \E i \in r : \A k \in r : k <= i
    OBVIOUS
  <2>1. CASE m + 1 \in r
    BY <2>1
  <2>2. CASE m + 1 \notin r
    <3>1. r \subseteq 1..m
      BY <2>2
    <3> QED
      BY <1>2, <3>1
  <2> QED
    BY <2>1, <2>2
<1> HIDE DEF S
<1>3. n \in S
  BY <1>1, <1>2, Induction
<1>4. \E i \in s : \A k \in s : k <= i
  BY <1>3 DEF S
<1> QED
  BY <1>4 DEF Latest

\* A node that is in the way of a process that owns the file system was given
\* its mode by the archive's extractor.
LEMMA ShutByEntry ==
    ASSUME NEW x, NEW t, IsTree(t), Filed(t), NEW n \in 1..Len(archive), Len(archive) \in Nat,
           ModesDue(x, t, n), Accessible, NEW p \in DOMAIN t,
           ~Writable(t[p]) \/ (t[p].kind = "dir" /\ ~Searchable(t[p]))
    PROVE  /\ x = "archive"
           /\ \E k \in 1..n - 1 : /\ Mode(archive[k]) # None /\ Place(archive[k]) = p
                                  /\ Mode(archive[k]) % 4096 = t[p].mode
<1> DEFINE s == Given(archive, x, n, p)
           k == Latest(s)
<1>1. t[p].mode = DueMode(archive, before, s, p, t[p].kind)
  BY DEF ModesDue
<1> HIDE DEF s
<1>2. s # {}
  <2> SUFFICES ASSUME s = {} PROVE FALSE
    OBVIOUS
  <2>1. CASE p \in DOMAIN before
    <3>1. t[p].mode = before[p].mode /\ t[p].kind = before[p].kind
      BY <1>1, <2>1 DEF DueMode, Filed
    <3> QED
      BY <2>1, <3>1 DEF Accessible, Writable, Searchable
  <2>2. CASE p \notin DOMAIN before
    <3>1. t[p].mode = IF t[p].kind = "dir" THEN NewDirectory.mode ELSE NewFile.mode
      BY <1>1, <2>2 DEF DueMode
    <3> QED
      BY <3>1, NewDirectoryIsOpen DEF Open, Writable, Searchable
  <2> QED
    BY <2>1, <2>2
<1>3. s \subseteq 1..Len(archive)
  BY DEF s, Given
<1>4. k \in s
  BY <1>2, <1>3, HighestOfSome
<1>5. t[p].mode = Mode(archive[k]) % 4096
  BY <1>1, <1>2 DEF DueMode
<1> HIDE DEF k
<1>6. /\ k \in 1..Len(archive) /\ k < n /\ x = "archive" /\ Mode(archive[k]) # None
      /\ Place(archive[k]) = p
  BY <1>4 DEF s, Given
<1>7. k \in 1..n - 1
  BY <1>6
<1> QED
  BY <1>5, <1>6, <1>7

\* What stops an entry: a directory on its way that nothing can be put into, or
\* its file, which cannot be written to.
Shut(t, e, p) ==
    \/ p \in Through(e) /\ ~Open(t[p])
    \/ IsFile(e, p) /\ ~Writable(t[p])

LEMMA ShutIsLockedOut ==
    ASSUME Fitting, Accessible, NEW x, NEW t, IsTree(t), Filed(t),
           NEW n \in 1..Len(archive), Len(archive) \in Nat, ModesDue(x, t, n),
           NEW p \in DOMAIN t, Shut(t, archive[n], p)
    PROVE  x = "archive" /\ LockedOut(n)
<1>1. p \in Through(archive[n]) => t[p].kind = "dir"
  BY KindsFit DEF NeedsDir
<1>2. ~Writable(t[p]) \/ (t[p].kind = "dir" /\ ~Searchable(t[p]))
  BY <1>1 DEF Shut, Open
<1>3. x = "archive" /\ \E k \in 1..n - 1 :
        /\ Mode(archive[k]) # None /\ Place(archive[k]) = p
        /\ Mode(archive[k]) % 4096 = t[p].mode
  BY <1>2, ShutByEntry
<1>4. PICK k \in 1..n - 1 : /\ Mode(archive[k]) # None /\ Place(archive[k]) = p
                            /\ Mode(archive[k]) % 4096 = t[p].mode
  BY <1>3
<1> DEFINE node == [mode |-> Mode(archive[k]) % 4096]
<1>5. k \in 1..Len(archive)
  OBVIOUS
<1>6. node.mode = t[p].mode
  BY <1>4
<1> HIDE DEF node
<1>7. Writable(node) = Writable(t[p]) /\ Searchable(node) = Searchable(t[p])
  BY <1>6 DEF Writable, Searchable
<1>8. CASE p \in Through(archive[n]) /\ ~Open(t[p])
  <2>1. archive[k].name.slash
    BY <1>4, <1>5, <1>8 DEF Fitting, NeedsDir, IsFile
  <2>2. ~Writable(node) \/ ~Searchable(node)
    BY <1>7, <1>8 DEF Open
  <2>3. Mode(archive[k]) # None /\ Place(archive[k]) \in Through(archive[n])
    BY <1>4, <1>8
  <2> QED
    BY <1>3, <2>1, <2>2, <2>3 DEF LockedOut, node
<1>9. CASE IsFile(archive[n], p) /\ ~Writable(t[p])
  <2>1. ~archive[k].name.slash
    <3>1. ~NeedsDir(archive[k], p)
      BY <1>5, <1>9 DEF Fitting
    <3> QED
      BY <1>4, <3>1 DEF NeedsDir
  <2>2. Place(archive[k]) = Place(archive[n]) /\ ~Writable(node)
    BY <1>4, <1>7, <1>9 DEF IsFile
  <2> QED
    BY <1>3, <1>4, <2>1, <2>2 DEF LockedOut, node
<1> QED
  BY <1>8, <1>9 DEF Shut

\* create_dir_all fails at a directory that is shut.
LEMMA PathStuck ==
    ASSUME Fitting, NEW t, IsTree(t), Filed(t), NEW i \in 1..Len(archive),
           IsSeq(OutPath(archive[i])), NEW m \in Nat, m <= Len(OutPath(archive[i])),
           m < Len(OutPath(archive[i])) \/ archive[i].name.slash,
           ~CreateDirAll(t, SubSeq(OutPath(archive[i]), 1, m)).ok
    PROVE  \E p \in DOMAIN t : Shut(t, archive[i], p)
<1> DEFINE e == archive[i]
           path == OutPath(e)
           a == SubSeq(path, 1, m)
<1>1. IsSeq(a) /\ Len(a) = m /\ Len(path) \in Nat
  BY PrefixCells, LenIsNat
<1>2. ~Clear(t, a)
  BY <1>1, ClearIsMade
<1>3. PICK n \in 0..Len(a) :
        LET p == Normal(SubSeq(a, 1, n))
        IN  \/ p = Nowhere
            \/ p \in DOMAIN t /\ (t[p].kind # "dir" \/ (n < Len(a) /\ ~Open(t[p])))
  BY <1>2 DEF Clear
<1> DEFINE p == Normal(SubSeq(path, 1, n))
<1>4. n \in Nat /\ n <= m /\ n \in 0..Len(path)
  BY <1>1
<1>5. SubSeq(a, 1, n) = SubSeq(path, 1, n)
  BY <1>4, PrefixOfPrefix
<1>6. \/ p = Nowhere
      \/ p \in DOMAIN t /\ (t[p].kind # "dir" \/ (n < m /\ ~Open(t[p])))
  BY <1>1, <1>3, <1>5
<1>7. p \in Passed(e)
  BY <1>4 DEF Passed
<1>8. n < Len(path) => p \in Through(e)
  <2> SUFFICES ASSUME n < Len(path) PROVE p \in Through(e)
    OBVIOUS
  <2>1. n \in 0..Len(path) - 1
    BY <1>1, <1>4
  <2> QED
    BY <2>1 DEF Through
<1>9. NeedsDir(e, p)
  <2>1. CASE n < Len(path)
    BY <1>8, <2>1 DEF NeedsDir
  <2>2. CASE n = Len(path)
    <3>1. e.name.slash
      BY <1>1, <1>4, <2>2
    <3>2. SubSeq(path, 1, n) = path
      BY <2>2, WholeIsPrefix
    <3> QED
      BY <3>1, <3>2 DEF NeedsDir, Place
  <2> QED
    BY <1>1, <1>4, <2>1, <2>2
<1> HIDE DEF p
<1>10. p # Nowhere
  BY <1>7 DEF Fitting
<1>11. p \in DOMAIN t => t[p].kind = "dir"
  BY <1>9, KindsFit
<1>12. p \in DOMAIN t /\ n < m /\ ~Open(t[p])
  BY <1>6, <1>10, <1>11
<1>13. p \in Through(e)
  BY <1>1, <1>8, <1>12
<1> QED
  BY <1>12, <1>13 DEF Shut

LEMMA DirectoriesStuck ==
    ASSUME Fitting, NEW t, IsTree(t), Filed(t), NEW i \in 1..Len(archive),
           IsSeq(OutPath(archive[i])), OutPath(archive[i]) # << >>, NEW x,
           ~Directories(x, t, archive[i]).ok
    PROVE  \E p \in DOMAIN t : Shut(t, archive[i], p)
<1> DEFINE path == OutPath(archive[i])
<1>1. Len(path) \in Nat /\ Len(path) - 1 \in Nat
  BY LenIsNat, EmptyIsSeq
<1>2. SubSeq(path, 1, Len(path)) = path /\ SubSeq(path, 1, Len(path) - 1) = Front(path)
  BY WholeIsPrefix, FrontCells
<1>3. CASE archive[i].name.slash
  <2> DEFINE m == Len(path)
  <2>1. m \in Nat /\ m <= Len(path) /\ SubSeq(path, 1, m) = path
    BY <1>1, <1>2
  <2>2. ~CreateDirAll(t, path).ok
    BY <1>3 DEF Directories
  <2> HIDE DEF m
  <2>3. ~CreateDirAll(t, SubSeq(path, 1, m)).ok
    BY <2>1, <2>2
  <2> QED
    BY <1>3, <2>1, <2>3, PathStuck
<1>4. CASE ~archive[i].name.slash
  <2>1. ~CreateDirAll(t, SubSeq(path, 1, Len(path) - 1)).ok
    BY <1>2, <1>4 DEF Directories
  <2>2. Len(path) - 1 <= Len(path) /\ Len(path) - 1 < Len(path)
    BY <1>1
  <2> QED
    BY <1>1, <2>1, <2>2, PathStuck
<1> QED
  BY <1>3, <1>4

\* A file cannot be created in a directory that is shut, or over a file that is.
LEMMA CreateStuck ==
    ASSUME Fitting, NEW t, IsTree(t), Filed(t), NEW i \in 1..Len(archive),
           IsSeq(OutPath(archive[i])), OutPath(archive[i]) # << >>,
           ~archive[i].name.slash, Exists(t, Front(OutPath(archive[i]))),
           ~CanCreate(t, OutPath(archive[i]))
    PROVE  \E p \in DOMAIN t : Shut(t, archive[i], p)
<1> DEFINE e == archive[i]
           path == OutPath(e)
           n == Len(path) - 1
           from == Reached(t, SubSeq(path, 1, n))
           c == path[Len(path)]
<1>1. Len(path) \in Nat /\ n \in Nat /\ n + 1 = Len(path) /\ n < Len(path) /\ n <= Len(path)
  BY LenIsNat, EmptyIsSeq
<1>2. /\ SubSeq(path, 1, n + 1) = path /\ SubSeq(path, 1, n) = Front(path)
      /\ IsSeq(SubSeq(path, 1, n))
  BY <1>1, WholeIsPrefix, FrontCells
<1>3. from \in DOMAIN t
  BY <1>2 DEF Exists
<1>4. from = Normal(SubSeq(path, 1, n)) /\ IsSeq(from)
  BY <1>2, <1>3, ReachedIsNormal DEF IsTree
<1>5. from \in Through(e)
  <2>1. n \in 0..Len(path) - 1
    BY <1>1
  <2> QED
    BY <1>4, <2>1 DEF Through
<1>6. t[from].kind = "dir" /\ from # Nowhere
  BY <1>3, <1>5, KindsFit DEF NeedsDir, IsTree
<1>7. CASE ~Open(t[from])
  BY <1>3, <1>5, <1>7 DEF Shut
<1>8. CASE Open(t[from])
  <2> DEFINE to == Reached(t, path)
  <2>1. to = Walk(from, c)
    <3>1. Reached(t, SubSeq(path, 1, n + 1)) = Lookup(t, from, path[n + 1])
      BY <1>1, WalkedPrefix
    <3>2. to = Lookup(t, from, c)
      BY <1>1, <1>2, <3>1
    <3> QED
      BY <1>3, <1>6, <1>8, <3>2 DEF Lookup, Open
  <2>2. to = Place(e)
    <3>1. Normal(SubSeq(path, 1, n + 1)) = Walk(Normal(SubSeq(path, 1, n)), path[n + 1])
      BY <1>1, NormalisedPrefix
    <3>2. Normal(path) = Walk(from, c)
      BY <1>1, <1>2, <1>4, <3>1
    <3> QED
      BY <2>1, <3>2 DEF Place
  <2>3. to # Nowhere
    <3>1. Place(e) \in Passed(e)
      <4>1. Len(path) \in 0..Len(path)
        BY <1>1
      <4>2. SubSeq(path, 1, Len(path)) = path
        BY WholeIsPrefix
      <4> QED
        BY <4>1, <4>2 DEF Passed, Place
    <3> QED
      BY <2>2, <3>1 DEF Fitting
  <2>4. CASE to \in DOMAIN t
    <3>1. IsFile(e, to)
      BY <2>2 DEF IsFile
    <3>2. t[to].kind = "file"
      BY <2>4, <3>1, KindsFit
    <3>3. ~Writable(t[to])
      BY <2>4, <3>2 DEF CanCreate, Exists
    <3> QED
      BY <2>4, <3>1, <3>3 DEF Shut
  <2>5. CASE to \notin DOMAIN t
    <3>1. Front(to) = from
      BY <1>3, <1>4, <2>1, <2>5, NewPlaceIsBelow
    <3>2. Free(t, path)
      BY <1>8, <2>3, <2>5, <3>1 DEF Free, Open
    <3> QED
      BY <3>2 DEF CanCreate
  <2> QED
    BY <2>4, <2>5
<1> QED
  BY <1>7, <1>8

\* How extraction ends: well after the last entry only, and badly, where the
\* entries fit and nothing else is in the way, only for the archive's extractor
\* at an entry that it has locked itself out of, and for a stream that has none.
Ends(x, r, n, f) ==
    /\ r = "ok" => n > Len(archive)
    /\ r = "error" /\ Fitting /\ Accessible /\ f = 0 =>
          \/ x = "archive" /\ LockedOut(n)
          \/ x = "stream" /\ archive = << >>

EndInv == \A x \in Extractors : Ends(x, result[x], at[x].entry, faults)

LEMMA EndsFrame ==
    ASSUME ExtractInv, EndInv, NEW x \in Extractors, UNCHANGED <<archive, before>>,
           NEW c, at' = [at EXCEPT ![x] = c], NEW r, result' = [result EXCEPT ![x] = r],
           faults' = 0 => faults = 0, Ends(x, r, c.entry, faults')
    PROVE  EndInv'
<1>1. DOMAIN at = Extractors /\ DOMAIN result = Extractors
  BY DEF ExtractInv, TypeOK
<1>2. \A y \in Extractors : Ends(y, result'[y], at'[y].entry, faults')
  <2> TAKE y \in Extractors
  <2>1. CASE y = x
    <3>1. result'[y] = r /\ at'[y] = c
      BY <1>1, <2>1
    <3> QED
      BY <2>1, <3>1
  <2>2. CASE y # x
    <3>1. result'[y] = result[y] /\ at'[y] = at[y]
      BY <1>1, <2>2
    <3>2. Ends(y, result[y], at[y].entry, faults)
      BY DEF EndInv
    <3> QED
      BY <3>1, <3>2 DEF Ends
  <2> QED
    BY <2>1, <2>2
<1>3. archive' = archive /\ before' = before
  OBVIOUS
<1>4. (Fitting' <=> Fitting) /\ (Accessible' <=> Accessible)
  BY <1>3 DEF Fitting, Accessible
<1>5. ASSUME NEW n PROVE LockedOut(n)' <=> LockedOut(n)
  BY <1>3 DEF LockedOut
<1>6. ASSUME NEW y \in Extractors PROVE Ends(y, result[y], at[y].entry, faults)'
  <2> DEFINE n == at'[y].entry
  <2>1. Ends(y, result'[y], n, faults')
    BY <1>2
  <2>2. LockedOut(at[y].entry)' <=> LockedOut(n)
    BY <1>3 DEF LockedOut
  <2> QED
    BY <1>3, <1>4, <2>1, <2>2 DEF Ends
<1> QED
  BY <1>6 DEF EndInv

LEMMA GoesOnRunning ==
    ASSUME ExtractInv, EndInv, NEW x \in Extractors, UNCHANGED <<archive, before, faults>>,
           result[x] = "running", UNCHANGED result,
           \/ \E step : GoTo(x, step)
           \/ NextEntry(x)
           \/ \E c : at' = [at EXCEPT ![x] = c]
    PROVE  EndInv'
<1>1. PICK c : at' = [at EXCEPT ![x] = c]
  BY MovesOn
<1>2. result' = [result EXCEPT ![x] = "running"]
  BY DEF ExtractInv, TypeOK
<1>3. Ends(x, "running", c.entry, faults')
  BY DEF Ends
<1> QED
  BY <1>1, <1>2, <1>3, EndsFrame

\* An extractor that fails at an entry of archives that fit is locked out.
LEMMA FailsLockedOut ==
    ASSUME ExtractInv, EndInv, NEW x \in Extractors, UNCHANGED <<archive, before>>, Fail(x),
           faults' = 0 => faults = 0,
           Fitting /\ Accessible /\ faults' = 0 => x = "archive" /\ LockedOut(at[x].entry)
    PROVE  EndInv'
<1>1. at' = [at EXCEPT ![x] = at[x]]
  BY MovesOn DEF Fail
<1>2. result' = [result EXCEPT ![x] = "error"]
  BY DEF Fail
<1>3. Ends(x, "error", at[x].entry, faults')
  BY DEF Ends
<1> QED
  BY <1>1, <1>2, <1>3, EndsFrame

LEMMA OpenEntryEnds ==
    ASSUME ExtractInv, EndInv, NEW x \in Extractors, OpenEntry(x) \/ Finish(x)
    PROVE  EndInv'
<1>1. /\ UNCHANGED <<archive, before, faults>> /\ result[x] = "running"
      /\ \/ GoTo(x, "directories")
         \/ /\ Fail(x) /\ at[x].entry <= Len(archive)
            /\ ~(x \in Entry(x).opens /\ Enclosed(Entry(x).name))
         \/ /\ UNCHANGED at /\ at[x].entry > Len(archive)
            /\ \E r : /\ result' = [result EXCEPT ![x] = r]
                      /\ r = "ok" \/ (r = "error" /\ x = "stream" /\ archive = << >>)
  BY DEF OpenEntry, Finish, AtStep
<1>2. CASE GoTo(x, "directories")
  <2>1. UNCHANGED result
    BY <1>2 DEF GoTo
  <2> QED
    BY <1>1, <1>2, <2>1, GoesOnRunning
<1>3. CASE /\ Fail(x) /\ at[x].entry <= Len(archive)
           /\ ~(x \in Entry(x).opens /\ Enclosed(Entry(x).name))
  <2>1. ~Fitting
    <3>1. at[x].entry \in 1..Len(archive) /\ Entry(x) = archive[at[x].entry]
      BY <1>3, UnderWay
    <3> QED
      BY <1>3, <3>1 DEF Fitting, Fine
  <2> QED
    BY <1>1, <1>3, <2>1, FailsLockedOut
<1>4. ASSUME UNCHANGED at, at[x].entry > Len(archive),
             NEW r, result' = [result EXCEPT ![x] = r],
             r = "ok" \/ (r = "error" /\ x = "stream" /\ archive = << >>)
      PROVE  EndInv'
  <2>1. at' = [at EXCEPT ![x] = at[x]]
    BY <1>4, MovesOn
  <2>2. Ends(x, r, at[x].entry, faults')
    BY <1>4 DEF Ends
  <2> QED
    BY <1>1, <1>4, <2>1, <2>2, EndsFrame
<1> QED
  BY <1>1, <1>2, <1>3, <1>4

LEMMA StuckIsLockedOut ==
    ASSUME ExtractInv, DeliverInv, PassInv, NEW x \in Extractors, at[x].entry <= Len(archive),
           Fitting => \E p \in DOMAIN tree[x] : Shut(tree[x], Entry(x), p)
    PROVE  Fitting /\ Accessible => x = "archive" /\ LockedOut(at[x].entry)
<1> SUFFICES ASSUME Fitting, Accessible PROVE x = "archive" /\ LockedOut(at[x].entry)
  OBVIOUS
<1> DEFINE t == tree[x]
           n == at[x].entry
<1>1. n \in 1..Len(archive) /\ Len(archive) \in Nat /\ Entry(x) = archive[n]
  BY UnderWay
<1>2. IsTree(t) /\ Filed(t) /\ ModesDue(x, t, n)
  BY DEF ExtractInv, TypeOK, PassInv, Passes, DeliverInv, Delivers
<1>3. PICK p \in DOMAIN t : Shut(t, archive[n], p)
  BY <1>1
<1> HIDE DEF t, n
<1>4. x = "archive" /\ LockedOut(n)
  BY <1>1, <1>2, <1>3, ShutIsLockedOut
<1> QED
  BY <1>4 DEF n

LEMMA MakeDirectoriesEnds ==
    ASSUME ExtractInv, DeliverInv, PassInv, EndInv, NEW x \in Extractors, MakeDirectories(x)
    PROVE  EndInv'
<1> DEFINE e == Entry(x)
           made == Directories(x, tree[x], e)
<1>1. /\ at[x].step = "directories" /\ result[x] = "running"
      /\ UNCHANGED <<archive, before, faults>>
      /\ \/ ~made.ok /\ Fail(x)
         \/ AfterEntry(x) \/ GoTo(x, "create")
  BY DEF MakeDirectories, AtStep
<1>2. /\ at[x].entry <= Len(archive) /\ IsTree(tree[x])
      /\ IsSeq(OutPath(e)) /\ OutPath(e) # << >>
  BY <1>1, GoingOn
<1>3. at[x].entry \in 1..Len(archive) /\ e = archive[at[x].entry]
  BY <1>2, UnderWay
<1>4. CASE ~made.ok /\ Fail(x)
  <2>1. Filed(tree[x])
    BY DEF PassInv, Passes
  <2>2. Fitting => \E p \in DOMAIN tree[x] : Shut(tree[x], e, p)
    BY <1>2, <1>3, <1>4, <2>1, DirectoriesStuck
  <2>3. Fitting /\ Accessible => x = "archive" /\ LockedOut(at[x].entry)
    BY <1>2, <2>2, StuckIsLockedOut
  <2> QED
    BY <1>1, <1>4, <2>3, FailsLockedOut
<1>5. CASE AfterEntry(x) \/ GoTo(x, "create")
  <2>1. UNCHANGED result /\ (GoTo(x, "mode") \/ NextEntry(x) \/ GoTo(x, "create"))
    BY <1>5 DEF AfterEntry, GoTo, NextEntry
  <2> QED
    BY <1>1, <2>1, GoesOnRunning
<1> QED
  BY <1>1, <1>4, <1>5

LEMMA CreateFileEnds ==
    ASSUME ExtractInv, DeliverInv, PassInv, EndInv, NEW x \in Extractors, CreateFile(x)
    PROVE  EndInv'
<1> DEFINE e == Entry(x)
           t == tree[x]
<1>1. /\ at[x].step = "create" /\ result[x] = "running"
      /\ UNCHANGED <<archive, before, faults>>
      /\ \/ ~(NamesFile(e) /\ CanCreate(t, OutPath(e))) /\ Fail(x)
         \/ GoTo(x, "copy")
  BY DEF CreateFile, AtStep
<1>2. /\ at[x].entry <= Len(archive) /\ IsTree(t)
      /\ IsSeq(OutPath(e)) /\ OutPath(e) # << >>
  BY <1>1, GoingOn
<1>3. at[x].entry \in 1..Len(archive) /\ e = archive[at[x].entry]
  BY <1>2, UnderWay
<1>4. CASE ~(NamesFile(e) /\ CanCreate(t, OutPath(e))) /\ Fail(x)
  <2>1. Filed(t) /\ Exists(t, Front(OutPath(e)))
    BY <1>1 DEF PassInv, Passes, Entry
  <2>2. ~e.name.slash
    BY <1>1 DEF DeliverInv, Delivers, InHand, Entry
  <2>3. Fitting => \E p \in DOMAIN t : Shut(t, e, p)
    <3>1. Fitting => NamesFile(e)
      BY <1>3, <2>2 DEF Fitting, Fine, Whole, Extractors
    <3> QED
      BY <1>2, <1>3, <1>4, <2>1, <2>2, <3>1, CreateStuck
  <2>4. Fitting /\ Accessible => x = "archive" /\ LockedOut(at[x].entry)
    BY <1>2, <2>3, StuckIsLockedOut
  <2> QED
    BY <1>1, <1>4, <2>4, FailsLockedOut
<1>5. CASE GoTo(x, "copy")
  <2>1. UNCHANGED result
    BY <1>5 DEF GoTo
  <2> QED
    BY <1>1, <1>5, <2>1, GoesOnRunning
<1> QED
  BY <1>1, <1>4, <1>5

LEMMA CopyingEnds ==
    ASSUME ExtractInv, DeliverInv, EndInv, NEW x \in Extractors, CopyCell(x) \/ CopyEnds(x)
    PROVE  EndInv'
<1>1. /\ result[x] = "running" /\ UNCHANGED <<archive, before, faults, result>>
      /\ \/ GoTo(x, "mode") \/ NextEntry(x)
         \/ at' = [at EXCEPT ![x].copied = at[x].copied + 1]
  <2>1. DOMAIN at = Extractors
    BY DEF ExtractInv, TypeOK
  <2> QED
    BY <2>1 DEF CopyCell, CopyEnds, AfterEntry, AtStep, GoTo, NextEntry
<1>2. CASE at' = [at EXCEPT ![x].copied = at[x].copied + 1]
  <2>1. at' = [at EXCEPT ![x] = [at[x] EXCEPT !.copied = at[x].copied + 1]]
    BY <1>2
  <2> QED
    BY <1>1, <2>1, GoesOnRunning
<1> QED
  BY <1>1, <1>2, GoesOnRunning

LEMMA SetPermissionsEnds ==
    ASSUME ExtractInv, DeliverInv, PassInv, EndInv, NEW x \in Extractors, SetPermissions(x)
    PROVE  EndInv'
<1>1. /\ at[x].step = "mode" /\ result[x] = "running"
      /\ UNCHANGED <<archive, before, faults>>
      /\ \/ NextEntry(x)
         \/ Reached(tree[x], OutPath(Entry(x))) \notin DOMAIN tree[x]
  BY DEF SetPermissions, AtStep
<1>2. Reached(tree[x], OutPath(Entry(x))) \in DOMAIN tree[x]
  BY <1>1 DEF PassInv, Passes, DeliverInv, Delivers, InHand, Held, Entry
<1>3. UNCHANGED result
  BY <1>1, <1>2 DEF NextEntry
<1> QED
  BY <1>1, <1>2, <1>3, GoesOnRunning

LEMMA FailureEnds ==
    ASSUME ExtractInv, DeliverInv, EndInv, NEW x \in Extractors,
           ReadFails(x) \/ SystemFails(x)
    PROVE  EndInv'
<1>1. UNCHANGED <<archive, before>> /\ Fail(x) /\ at[x].step # "open"
  BY DEF ReadFails, SystemFails, AtStep
<1>2. faults \in Nat
  BY ExtractAssumption DEF ExtractInv, TypeOK
<1>3. CASE ReadFails(x)
  <2>1. at[x].entry <= Len(archive)
    BY <1>1, GoingOn
  <2>2. at[x].entry \in 1..Len(archive) /\ Entry(x) = archive[at[x].entry]
    BY <2>1, UnderWay
  <2>3. ~Entry(x).name.slash /\ ~Entry(x).sound /\ UNCHANGED faults
    BY <1>3 DEF ReadFails, AtStep, DeliverInv, Delivers, InHand, Entry
  <2>4. ~Fitting
    BY <2>2, <2>3 DEF Fitting, Fine, Whole
  <2> QED
    BY <1>1, <2>3, <2>4, FailsLockedOut
<1>4. CASE SystemFails(x)
  <2>1. faults' = faults + 1
    BY <1>4 DEF SystemFails
  <2>2. faults' # 0
    BY <1>2, <2>1
  <2> QED
    BY <1>1, <2>2, FailsLockedOut
<1> QED
  BY <1>3, <1>4

\* An extractor ends well only after the last entry, and badly, where the
\* entries fit and nothing else fails, only locked out.
THEOREM EndInvariance == Spec => []EndInv
<1>1. Init => EndInv
  <2> SUFFICES ASSUME Init, NEW x \in Extractors
               PROVE  Ends(x, result[x], at[x].entry, faults)
    BY DEF EndInv
  <2>1. result[x] = "running"
    BY DEF Init
  <2> QED
    BY <2>1 DEF Ends
<1>2. ExtractInv /\ DeliverInv /\ PassInv /\ EndInv /\ [Next]_vars => EndInv'
  <2> SUFFICES ASSUME ExtractInv, DeliverInv, PassInv, EndInv, [Next]_vars PROVE EndInv'
    OBVIOUS
  <2>1. CASE UNCHANGED vars
    <3>1. "archive" \in Extractors
      BY DEF Extractors
    <3>2. /\ UNCHANGED <<archive, before>> /\ UNCHANGED faults
          /\ at' = [at EXCEPT !["archive"] = at["archive"]]
          /\ result' = [result EXCEPT !["archive"] = result["archive"]]
      BY <2>1, <3>1 DEF vars, ExtractInv, TypeOK
    <3>3. Ends("archive", result["archive"], at["archive"].entry, faults')
      BY <3>1, <3>2 DEF EndInv
    <3> QED
      BY <3>1, <3>2, <3>3, EndsFrame
  <2>2. CASE Next
    BY <2>2, OpenEntryEnds, MakeDirectoriesEnds, CreateFileEnds, CopyingEnds,
       SetPermissionsEnds, FailureEnds DEF Next
  <2> QED
    BY <2>1, <2>2
<1> QED
  BY <1>1, <1>2, ExtractInvariance, DeliveryInvariance, PassInvariance, PTL DEF Spec

\* A path without ".." and "/" leads down, and to a place.
LEMMA DownIsEnclosed ==
    ASSUME NEW c, IsSeq(c), \A i \in 1..Len(c) : c[i] # ".." /\ c[i] # "/"
    PROVE  Depth(c) # NoDepth
<1> DEFINE D(n) == Depth(SubSeq(c, 1, n))
           S == {n \in Nat : n <= Len(c) => D(n) \in Nat}
<1>1. Len(c) \in Nat
  BY LenIsNat
<1>2. 0 \in S
  BY DescendedPrefix
<1>3. ASSUME NEW n \in Nat, n \in S PROVE n + 1 \in S
  <2> SUFFICES ASSUME n + 1 <= Len(c) PROVE D(n + 1) \in Nat
    OBVIOUS
  <2>1. n < Len(c) /\ n + 1 \in 1..Len(c) /\ n <= Len(c)
    BY <1>1
  <2>2. D(n + 1) = Descend(D(n), c[n + 1])
    BY <2>1, DescendedPrefix
  <2>3. D(n) \in Nat
    BY <1>3, <2>1
  <2>4. c[n + 1] # ".." /\ c[n + 1] # "/"
    BY <2>1
  <2> HIDE DEF D
  <2> QED
    BY <2>2, <2>3, <2>4 DEF Descend, NoDepth
<1> HIDE DEF S
<1>4. Len(c) \in S
  BY <1>1, <1>2, <1>3, Induction
<1>5. SubSeq(c, 1, Len(c)) = c
  BY WholeIsPrefix
<1>6. Depth(c) \in Nat
  <2> HIDE DEF D
  <2>1. D(Len(c)) \in Nat
    BY <1>1, <1>4 DEF S
  <2> QED
    BY <1>5, <2>1 DEF D
<1> QED
  BY <1>6 DEF NoDepth

LEMMA PlacesOfNames ==
    ASSUME NEW path, IsSeq(path), \A i \in 1..Len(path) : path[i] # "/",
           NEW m \in Nat, m <= Len(path)
    PROVE  Normal(SubSeq(path, 1, m)) # Nowhere
<1> DEFINE P(n) == Normal(SubSeq(path, 1, n))
           S == {n \in Nat : n <= Len(path) =>
                   IsSeq(P(n)) /\ \A i \in 1..Len(P(n)) : P(n)[i] # "/"}
<1>1. Len(path) \in Nat
  BY LenIsNat
<1>2. 0 \in S
  <2>1. P(0) = << >>
    BY NormalisedPrefix
  <2>2. IsSeq(<< >>) /\ Len(<< >>) = 0
    BY EmptyIsSeq
  <2> HIDE DEF P
  <2> QED
    BY <2>1, <2>2
<1>3. ASSUME NEW n \in Nat, n \in S PROVE n + 1 \in S
  <2> SUFFICES ASSUME n + 1 <= Len(path)
               PROVE  IsSeq(P(n + 1)) /\ \A i \in 1..Len(P(n + 1)) : P(n + 1)[i] # "/"
    OBVIOUS
  <2>1. n < Len(path) /\ n + 1 \in 1..Len(path) /\ n <= Len(path)
    BY <1>1
  <2>2. P(n + 1) = Walk(P(n), path[n + 1])
    BY <2>1, NormalisedPrefix
  <2> DEFINE p == P(n)
             q == P(n + 1)
             c == path[n + 1]
  <2>3. IsSeq(p) /\ (\A i \in 1..Len(p) : p[i] # "/") /\ c # "/"
    BY <1>3, <2>1
  <2>4. q = Walk(p, c)
    BY <2>2
  <2> HIDE DEF p, q, c
  <2>5. IsSeq(q)
    BY <2>3, <2>4, WalkIsSeq
  <2>6. ASSUME NEW i \in 1..Len(q) PROVE q[i] # "/"
    <3>1. CASE q = p
      BY <2>3, <2>6, <3>1
    <3>2. CASE q = Front(p) /\ p # << >>
      <4>1. Len(p) \in Nat /\ Len(q) = Len(p) - 1 /\ q[i] = p[i] /\ i \in 1..Len(p)
        <5>1. Len(p) \in Nat
          BY <2>3, LenIsNat
        <5>2. Len(q) = Len(p) - 1 /\ \A k \in 1..Len(p) - 1 : q[k] = p[k]
          BY <2>3, <3>2, FrontCells
        <5> QED
          BY <2>6, <5>1, <5>2
      <4> QED
        BY <2>3, <4>1
    <3>3. CASE q = Append(p, c)
      <4>1. /\ Len(p) \in Nat /\ Len(q) = Len(p) + 1
            /\ q[Len(p) + 1] = c /\ \A k \in 1..Len(p) : q[k] = p[k]
        BY <2>3, <3>3, LenIsNat, AppendCells
      <4> QED
        BY <2>3, <2>6, <4>1
    <3> QED
      BY <2>4, <3>1, <3>2, <3>3 DEF Walk
  <2> QED
    BY <2>5, <2>6 DEF q
<1> HIDE DEF S
<1>4. m \in S
  BY <1>2, <1>3, Induction
<1>5. Nowhere[1] = "/" /\ Len(Nowhere) = 1
  BY DEF Nowhere
<1> QED
  BY <1>4, <1>5 DEF S

LEMMA PlainIsFitting ==
    ASSUME TypeOK, Plain
    PROVE  Fitting
<1>1. archive \in Archives /\ IsSeq(Directory)
  BY ExtractAssumption DEF TypeOK
<1>2. ASSUME NEW i \in 1..Len(archive)
      PROVE  /\ \A x \in Extractors : Fine(x, archive[i])
             /\ Nowhere \notin Passed(archive[i])
  <2> DEFINE e == archive[i]
             c == e.name.components
             path == OutPath(e)
  <2>1. IsSeq(c)
    BY <1>1, ExtractAssumption
  <2>2. /\ IsSeq(path) /\ Len(path) = Len(Directory) + Len(c)
        /\ Len(c) \in Nat /\ Len(Directory) \in Nat
        /\ \A j \in 1..Len(Directory) + Len(c) :
             path[j] = IF j <= Len(Directory) THEN Directory[j] ELSE c[j - Len(Directory)]
    BY <1>1, <2>1, ConcatIsSeq, ConcatCells, LenIsNat DEF OutPath
  <2>3. DOMAIN path = 1..Len(path) /\ DOMAIN c = 1..Len(c)
    BY <2>1, <2>2 DEF IsSeq
  <2>4. ".." \notin ToSet(c) /\ ToSet(path) \cap {"/", "NUL"} = {}
    BY DEF Plain
  <2>5. \A j \in 1..Len(path) : path[j] # "/" /\ path[j] # "NUL"
    BY <2>3, <2>4 DEF ToSet
  <2>6. \A j \in 1..Len(c) : c[j] # ".." /\ c[j] # "/" /\ c[j] # "NUL"
    <3> SUFFICES ASSUME NEW j \in 1..Len(c)
                 PROVE  c[j] # ".." /\ c[j] # "/" /\ c[j] # "NUL"
      OBVIOUS
    <3>1. c[j] # ".."
      BY <2>3, <2>4 DEF ToSet
    <3>2. path[Len(Directory) + j] = c[j] /\ Len(Directory) + j \in 1..Len(path)
      BY <2>2
    <3> QED
      BY <2>5, <3>1, <3>2
  <2>7. "NUL" \notin ToSet(c)
    BY <2>3, <2>6 DEF ToSet
  <2>8. Depth(c) # NoDepth
    BY <2>1, <2>6, DownIsEnclosed
  <2>9. e.opens = Extractors /\ Whole(e)
    BY DEF Plain, Whole
  <2>10. \A x \in Extractors : Fine(x, e)
    BY <2>7, <2>8, <2>9 DEF Fine, Enclosed
  <2>11. ASSUME NEW n \in 0..Len(path) PROVE Normal(SubSeq(path, 1, n)) # Nowhere
    <3>1. n \in Nat /\ n <= Len(path)
      BY <2>2
    <3>2. \A j \in 1..Len(path) : path[j] # "/"
      BY <2>5
    <3> HIDE DEF path
    <3> QED
      BY <2>2, <3>1, <3>2, PlacesOfNames
  <2>12. Nowhere \notin Passed(e)
    BY <2>11 DEF Passed
  <2> QED
    BY <2>10, <2>12
<1>3. ASSUME NEW i \in 1..Len(archive), NEW p,
             NeedsDir(archive[i], p) \/ IsFile(archive[i], p)
      PROVE  p \in Passed(archive[i])
  <2> DEFINE path == OutPath(archive[i])
  <2>1. IsSeq(archive[i].name.components)
    BY <1>1, ExtractAssumption
  <2>2. IsSeq(path) /\ Len(path) \in Nat
    BY <1>1, <2>1, ConcatIsSeq, LenIsNat DEF OutPath
  <2>3. CASE p = Place(archive[i])
    <3>1. SubSeq(path, 1, Len(path)) = path /\ Len(path) \in 0..Len(path)
      BY <2>2, WholeIsPrefix
    <3> QED
      BY <2>3, <3>1 DEF Passed, Place
  <2>4. CASE p \in Through(archive[i])
    <3>1. PICK n \in 0..Len(path) - 1 : p = Normal(SubSeq(path, 1, n))
      BY <2>4 DEF Through
    <3>2. n \in 0..Len(path)
      BY <2>2
    <3> QED
      BY <3>1, <3>2 DEF Passed
  <2> QED
    BY <1>3, <2>3, <2>4 DEF NeedsDir, IsFile
<1>4. ASSUME NEW i \in 1..Len(archive), NEW k \in 1..Len(archive), NEW p,
             NeedsDir(archive[i], p)
      PROVE  ~IsFile(archive[k], p)
  <2>1. p \in Passed(archive[i])
    BY <1>3, <1>4
  <2> QED
    BY <1>4, <2>1 DEF Plain
<1>5. ASSUME NEW i \in 1..Len(archive), NEW p \in DOMAIN before
      PROVE  /\ NeedsDir(archive[i], p) => before[p].kind = "dir"
             /\ IsFile(archive[i], p) => before[p].kind = "file"
  <2>1. NeedsDir(archive[i], p) \/ IsFile(archive[i], p) =>
          IF NeedsDir(archive[i], p) THEN before[p].kind = "dir" ELSE before[p].kind = "file"
    BY <1>3 DEF Plain
  <2>2. ~(NeedsDir(archive[i], p) /\ IsFile(archive[i], p))
    BY <1>4
  <2> QED
    BY <2>1, <2>2
<1> QED
  BY <1>2, <1>4, <1>5 DEF Fitting

\* Entries that ask for nothing unusual are extracted by the stream's extractor,
\* if there are any, over whatever files are there; and by the archive's unless
\* it has locked itself out by permissions it set (read.rs 448-479,
\* read/stream.rs 60-82).
THEOREM PlainArchivesAreExtracted == Spec => []PlainArchivesExtract
<1>1. ExtractInv /\ EndInv => PlainArchivesExtract
  <2> SUFFICES ASSUME ExtractInv, EndInv, Plain, Accessible, faults = 0
               PROVE  /\ archive # << >> => result["stream"] # "error"
                      /\ result["archive"] = "error" => LockedOut(at["archive"].entry)
    BY DEF PlainArchivesExtract
  <2>1. Fitting
    BY PlainIsFitting DEF ExtractInv
  <2>2. "stream" \in Extractors /\ "archive" \in Extractors /\ "stream" # "archive"
    BY DEF Extractors
  <2> QED
    BY <2>1, <2>2 DEF EndInv, Ends
<1> QED
  BY <1>1, ExtractInvariance, EndInvariance, PTL

\* What the archive's extractor has got through fits.
LEMMA ExtractedIsFitting ==
    ASSUME ExtractInv, DeliverInv, PassInv, EndInv, result["archive"] = "ok",
           \A i \in 1..Len(archive) : archive[i].opens = Extractors
    PROVE  Fitting
<1> DEFINE t == tree["archive"]
           n == at["archive"].entry
<1>1. "archive" \in Extractors
  BY DEF Extractors
<1>2. n > Len(archive) /\ n \in Nat /\ Len(archive) \in Nat
  <2>1. n > Len(archive)
    BY <1>1 DEF EndInv, Ends
  <2>2. archive \in Archives /\ n \in 1..Len(archive) + 1
    BY <1>1 DEF ExtractInv, TypeOK
  <2>3. Len(archive) \in Nat
    BY <2>2, ExtractAssumption, LenIsNat
  <2> QED
    BY <2>1, <2>2, <2>3
<1>3. IsTree(t) /\ Passes("archive", t, at["archive"]) /\ Past(t, n)
  BY <1>1 DEF ExtractInv, TypeOK, PassInv, DeliverInv, Delivers
<1>4. ASSUME NEW i \in 1..Len(archive)
      PROVE  Laid(t, archive[i]) /\ Fine("archive", archive[i]) /\ Held(t, archive[i])
  <2>1. i < n
    BY <1>2
  <2> QED
    BY <1>3, <2>1 DEF Passes, Past
<1>5. Filed(t)
  BY <1>3 DEF Passes
<1> HIDE DEF t, n
<1>6. ASSUME NEW i \in 1..Len(archive), NEW p
      PROVE  /\ NeedsDir(archive[i], p) => p \in DOMAIN t /\ t[p].kind = "dir"
             /\ IsFile(archive[i], p) => p \in DOMAIN t /\ t[p].kind = "file"
  BY <1>4 DEF Laid, IsDirectory, IsFile, Held
<1>7. ASSUME NEW i \in 1..Len(archive)
      PROVE  /\ \A x \in Extractors : Fine(x, archive[i])
             /\ Nowhere \notin Passed(archive[i])
  <2> DEFINE e == archive[i]
             path == OutPath(e)
  <2>1. \A x \in Extractors : Fine(x, e)
    BY <1>4 DEF Fine
  <2>2. IsSeq(path) /\ Len(path) \in Nat
    <3>1. archive \in Archives /\ IsSeq(Directory)
      BY ExtractAssumption DEF ExtractInv, TypeOK
    <3>2. IsSeq(e.name.components)
      BY <3>1, ExtractAssumption
    <3> QED
      BY <3>1, <3>2, ConcatIsSeq, LenIsNat DEF OutPath
  <2>3. ASSUME NEW m \in 0..Len(path) PROVE Normal(SubSeq(path, 1, m)) \in DOMAIN t
    <3>1. CASE m = Len(path)
      <4>1. Normal(SubSeq(path, 1, m)) = Place(e)
        BY <2>2, <3>1, WholeIsPrefix DEF Place
      <4> QED
        BY <1>4, <4>1 DEF Held
    <3>2. CASE m # Len(path)
      <4>1. m \in 0..Len(path) - 1
        BY <2>2, <3>2
      <4>2. NeedsDir(e, Normal(SubSeq(path, 1, m)))
        BY <4>1 DEF NeedsDir, Through
      <4> QED
        BY <1>6, <4>2
    <3> QED
      BY <3>1, <3>2
  <2>4. Nowhere \notin DOMAIN t
    BY <1>3 DEF IsTree, t
  <2>5. Nowhere \notin Passed(e)
    BY <2>3, <2>4 DEF Passed
  <2> QED
    BY <2>1, <2>5
<1>8. ASSUME NEW i \in 1..Len(archive), NEW p \in DOMAIN before
      PROVE  /\ NeedsDir(archive[i], p) => before[p].kind = "dir"
             /\ IsFile(archive[i], p) => before[p].kind = "file"
  <2>1. t[p].kind = before[p].kind
    BY <1>5 DEF Filed
  <2> QED
    BY <1>6, <2>1
<1>9. ASSUME NEW i \in 1..Len(archive), NEW k \in 1..Len(archive), NEW p,
             NeedsDir(archive[i], p)
      PROVE  ~IsFile(archive[k], p)
  BY <1>6, <1>9
<1> QED
  BY <1>7, <1>8, <1>9 DEF Fitting

\* Two extractors that have got through have the same nodes, but for modes.
LEMMA SameExtracted ==
    ASSUME NEW t, IsTree(t), Filed(t), NEW u, IsTree(u), Filed(u), Len(archive) \in Nat,
           NEW n, \A i \in 1..Len(archive) : i < n,
           \A i \in 1..Len(archive) : Laid(t, archive[i]) /\ Laid(u, archive[i]),
           Past(t, n), Past(u, n)
    PROVE  /\ DOMAIN t = DOMAIN u
           /\ \A p \in DOMAIN t : t[p].kind = u[p].kind /\ t[p].data = u[p].data
<1>1. ASSUME NEW i \in 1..Len(archive), NEW p
      PROVE  /\ NeedsDir(archive[i], p) => IsDirectory(t, p) /\ IsDirectory(u, p)
             /\ IsFile(archive[i], p) =>
                  /\ p \in DOMAIN t /\ t[p].kind = "file"
                  /\ p \in DOMAIN u /\ u[p].kind = "file"
  <2>1. Held(t, archive[i]) /\ Held(u, archive[i])
    BY DEF Past
  <2> QED
    BY <2>1 DEF Laid, IsFile, Held
<1>2. ASSUME NEW v, NEW w, Filed(v), Filed(w), IsTree(v),
             \A i \in 1..Len(archive) : \A p :
               /\ NeedsDir(archive[i], p) => IsDirectory(v, p) /\ IsDirectory(w, p)
               /\ IsFile(archive[i], p) =>
                    /\ p \in DOMAIN v /\ v[p].kind = "file"
                    /\ p \in DOMAIN w /\ w[p].kind = "file",
             NEW p \in DOMAIN v
      PROVE  p \in DOMAIN w /\ v[p].kind = w[p].kind
  <2>1. CASE p \in DOMAIN before
    BY <1>2, <2>1 DEF Filed
  <2>2. CASE p \notin DOMAIN before
    <3>1. PICK i \in 1..Len(archive) :
             IF v[p].kind = "dir" THEN NeedsDir(archive[i], p) ELSE IsFile(archive[i], p)
      BY <1>2, <2>2 DEF Filed
    <3> QED
      BY <1>2, <3>1 DEF IsDirectory
  <2> QED
    BY <2>1, <2>2
<1>3. \A p \in DOMAIN t : p \in DOMAIN u /\ t[p].kind = u[p].kind
  BY <1>1, <1>2
<1>4. \A p \in DOMAIN u : p \in DOMAIN t
  BY <1>1, <1>2
<1>5. ASSUME NEW p \in DOMAIN t PROVE t[p].data = u[p].data
  <2>1. CASE \E i \in 1..Len(archive) : IsFile(archive[i], p)
    <3> DEFINE s == { i \in 1..Len(archive) : Place(archive[i]) = p }
               i == Latest(s)
    <3>1. s \subseteq 1..Len(archive) /\ s # {}
      BY <2>1 DEF IsFile
    <3>2. i \in s /\ \A k \in s : k <= i
      BY <3>1, HighestOfSome
    <3> HIDE DEF i
    <3>3. i \in 1..Len(archive) /\ Place(archive[i]) = p
      BY <3>2
    <3>4. t[p].kind = "file"
      BY <1>1, <2>1
    <3>5. ~archive[i].name.slash
      <4>1. archive[i].name.slash => NeedsDir(archive[i], p)
        BY <3>3 DEF NeedsDir
      <4> QED
        BY <1>1, <3>3, <3>4, <4>1 DEF IsDirectory
    <3>6. LastOfIts(i, UpTo(n))
      BY <3>2, <3>3 DEF LastOfIts, UpTo
    <3> QED
      BY <3>3, <3>5, <3>6 DEF Past
  <2>2. CASE ~\E i \in 1..Len(archive) : IsFile(archive[i], p)
    BY <1>3, <2>2 DEF Filed
  <2> QED
    BY <2>1, <2>2
<1> QED
  BY <1>3, <1>4, <1>5

\* Where nothing is in the way, what the archive's extractor gets through the
\* stream's does too, if there are entries and it opens them, and to the same
\* files: they differ only in modes (read.rs 448-479, read/stream.rs 60-82).
THEOREM ExtractorsDoAgree == Spec => []ExtractorsAgree
<1>1. ExtractInv /\ DeliverInv /\ PassInv /\ EndInv => ExtractorsAgree
  <2> SUFFICES ASSUME ExtractInv, DeliverInv, PassInv, EndInv,
                      Accessible, faults = 0, result["archive"] = "ok",
                      archive # << >>,
                      \A i \in 1..Len(archive) : archive[i].opens = Extractors
               PROVE  /\ result["stream"] # "error"
                      /\ result["stream"] = "ok" =>
                           LET a == tree["archive"]
                               s == tree["stream"]
                           IN  /\ DOMAIN a = DOMAIN s
                               /\ \A p \in DOMAIN a :
                                    [a[p] EXCEPT !.mode = 0] = [s[p] EXCEPT !.mode = 0]
    BY DEF ExtractorsAgree
  <2>1. Fitting
    BY ExtractedIsFitting
  <2>2. "stream" \in Extractors /\ "archive" \in Extractors /\ "stream" # "archive"
    BY DEF Extractors
  <2>3. result["stream"] # "error"
    BY <2>1, <2>2 DEF EndInv, Ends
  <2>4. ASSUME result["stream"] = "ok"
        PROVE  LET a == tree["archive"]
                   s == tree["stream"]
               IN  /\ DOMAIN a = DOMAIN s
                   /\ \A p \in DOMAIN a :
                        [a[p] EXCEPT !.mode = 0] = [s[p] EXCEPT !.mode = 0]
    <3> DEFINE n == Len(archive) + 1
    <3>1. archive \in Archives /\ Len(archive) \in Nat
      BY ExtractAssumption, LenIsNat DEF ExtractInv, TypeOK
    <3>2. ASSUME NEW x \in Extractors PROVE at[x].entry = n
      <4>1. at[x].entry > Len(archive)
        BY <2>4 DEF EndInv, Ends, Extractors
      <4>2. at[x].entry \in 1..Len(archive) + 1
        BY DEF ExtractInv, TypeOK
      <4> QED
        BY <3>1, <4>1, <4>2
    <3>3. ASSUME NEW x \in Extractors
          PROVE  /\ IsTree(tree[x]) /\ Filed(tree[x]) /\ Past(tree[x], n)
                 /\ \A i \in 1..Len(archive) : Laid(tree[x], archive[i])
      <4>1. IsTree(tree[x]) /\ Passes(x, tree[x], at[x]) /\ Past(tree[x], n)
        BY <3>2 DEF ExtractInv, TypeOK, PassInv, DeliverInv, Delivers
      <4>2. \A i \in 1..Len(archive) : i < at[x].entry
        BY <3>1, <3>2
      <4> QED
        BY <4>1, <4>2 DEF Passes
    <3> DEFINE a == tree["archive"]
               s == tree["stream"]
    <3>4. IsTree(a) /\ IsTree(s) /\ Filed(a) /\ Filed(s) /\ Past(a, n) /\ Past(s, n)
          /\ \A i \in 1..Len(archive) : Laid(a, archive[i]) /\ Laid(s, archive[i])
      BY <2>2, <3>3
    <3>5. \A i \in 1..Len(archive) : i < n
      BY <3>1
    <3> HIDE DEF a, s, n
    <3>6. /\ DOMAIN a = DOMAIN s
          /\ \A p \in DOMAIN a : a[p].kind = s[p].kind /\ a[p].data = s[p].data
      BY <3>1, <3>4, <3>5, SameExtracted
    <3>7. ASSUME NEW p \in DOMAIN a
          PROVE  [a[p] EXCEPT !.mode = 0] = [s[p] EXCEPT !.mode = 0]
      <4> DEFINE b == a[p]
                 r == s[p]
      <4>1. /\ b = [kind |-> b.kind, data |-> b.data, mode |-> b.mode]
            /\ r = [kind |-> r.kind, data |-> r.data, mode |-> r.mode]
        BY <3>4, <3>6 DEF IsTree, IsNode
      <4>2. b.kind = r.kind /\ b.data = r.data
        BY <3>6
      <4> HIDE DEF b, r
      <4>3. /\ [b EXCEPT !.mode = 0] = [kind |-> b.kind, data |-> b.data, mode |-> 0]
            /\ [r EXCEPT !.mode = 0] = [kind |-> r.kind, data |-> r.data, mode |-> 0]
        BY <4>1
      <4>4. [b EXCEPT !.mode = 0] = [r EXCEPT !.mode = 0]
        BY <4>2, <4>3
      <4> QED
        BY <4>4 DEF b, r
    <3> QED
      BY <3>6, <3>7 DEF a, s
  <2> QED
    BY <2>3, <2>4
<1> QED
  BY <1>1, ExtractInvariance, DeliveryInvariance, PassInvariance, EndInvariance, PTL
=============================================================================

------------------------- MODULE ArchiveReader_proofs ------------------------
(***************************************************************************)
(* What a caller of ZipArchive may rely on, for every archive, every way   *)
(* of cutting up the reads, and every failure of the sources.              *)
(***************************************************************************)
EXTENDS ArchiveReader, AesCtr_proofs

-----------------------------------------------------------------------------
(***************************************************************************)
(* Vectors that begin alike, regions of a disk, and the least of a set.    *)
(***************************************************************************)
Begins(s, t) ==
    /\ IsSeq(s) /\ IsSeq(t) /\ Len(s) <= Len(t)
    /\ \A j \in 1..Len(s) : s[j] = t[j]

\* Nothing is the beginning of everything.
LEMMA EmptyBegins ==
    ASSUME NEW t, IsSeq(t)
    PROVE  Begins(<< >>, t)
BY EmptyIsSeq, LenIsNat DEF Begins

\* The beginning of a beginning.
LEMMA BeginsOn ==
    ASSUME NEW s, NEW t, Begins(s, t), NEW u, Begins(t, u)
    PROVE  Begins(s, u)
<1>1. /\ IsSeq(s) /\ IsSeq(t) /\ IsSeq(u)
      /\ Len(s) <= Len(t) /\ Len(t) <= Len(u)
      /\ \A j \in 1..Len(s) : s[j] = t[j]
      /\ \A j \in 1..Len(t) : t[j] = u[j]
  BY DEF Begins
<1>2. Len(s) \in Nat /\ Len(t) \in Nat /\ Len(u) \in Nat
  BY <1>1, LenIsNat
<1>3. Len(s) <= Len(u) /\ \A j \in 1..Len(s) : s[j] = u[j]
  BY <1>1, <1>2
<1> QED
  BY <1>1, <1>3 DEF Begins

LEMMA BeginsIsPrefix ==
    ASSUME NEW s, NEW t, Begins(s, t)
    PROVE  IsPrefix(s, t) /\ (Len(s) = Len(t) => s = t)
<1> DEFINE n == Len(s)
           a == SubSeq(s, 1, n)
           b == SubSeq(t, 1, n)
<1>1. /\ IsSeq(s) /\ IsSeq(t) /\ n <= Len(t)
      /\ \A j \in 1..n : s[j] = t[j]
  BY DEF Begins
<1>2. n \in Nat /\ n <= n
  BY <1>1, LenIsNat
<1>3. /\ IsSeq(a) /\ Len(a) = n /\ \A i \in 1..n : a[i] = s[i]
      /\ IsSeq(b) /\ Len(b) = n /\ \A i \in 1..n : b[i] = t[i]
  BY <1>1, <1>2, PrefixCells
<1> HIDE DEF a, b
<1>4. a = b
  BY <1>1, <1>3, SameCells
<1>5. Len(s) = Len(t) => s = t
  BY <1>1, SameCells
<1> QED
  BY <1>1, <1>4, <1>5 DEF IsPrefix, a, b

\* What goes on as the whole does, is still its beginning.
LEMMA BeginsExtend ==
    ASSUME NEW s, NEW t, Begins(s, t), NEW out, IsSeq(out),
           Len(s) + Len(out) <= Len(t),
           \A j \in 1..Len(out) : out[j] = t[Len(s) + j]
    PROVE  /\ Begins(s \o out, t) /\ Len(s \o out) = Len(s) + Len(out)
<1> DEFINE m == Len(s)
           k == Len(out)
           so == s \o out
<1>1. IsSeq(s) /\ IsSeq(t) /\ IsSeq(so) /\ Len(so) = m + k
  BY ConcatIsSeq DEF Begins
<1>2. m \in Nat /\ k \in Nat
  BY <1>1, LenIsNat
<1>3. \A j \in 1..m + k : so[j] = IF j <= m THEN s[j] ELSE out[j - m]
  BY <1>1, ConcatCells
<1>4. \A j \in 1..m : s[j] = t[j]
  BY DEF Begins
<1> HIDE DEF so
<1>5. ASSUME NEW j \in 1..m + k PROVE so[j] = t[j]
  <2>1. CASE j <= m
    BY <1>2, <1>3, <1>4, <2>1
  <2>2. CASE ~(j <= m)
    <3>1. j - m \in 1..k /\ m + (j - m) = j
      BY <1>2, <2>2
    <3> DEFINE i == j - m
    <3>2. out[i] = t[m + i]
      BY <3>1
    <3> QED
      BY <1>3, <2>2, <3>1, <3>2
  <2> QED
    BY <2>1, <2>2
<1>6. Len(so) <= Len(t)
  BY <1>1
<1> QED
  BY <1>1, <1>5, <1>6 DEF Begins, so

LEMMA MinOfTwo ==
    ASSUME NEW a \in Int, NEW b \in Int
    PROVE  Min({a, b}) = IF a <= b THEN a ELSE b
BY DEF Min

LEMMA MaxOfTwo ==
    ASSUME NEW a \in Int, NEW b \in Int
    PROVE  Max({a, b}) = IF a >= b THEN a ELSE b
BY DEF Max

LEMMA MinOfThree ==
    ASSUME NEW a \in Int, NEW b \in Int, NEW c \in Int
    PROVE  /\ Min({a, b, c}) \in {a, b, c}
           /\ Min({a, b, c}) <= a /\ Min({a, b, c}) <= b /\ Min({a, b, c}) <= c
<1>1. \E m \in {a, b, c} : m <= a /\ m <= b /\ m <= c
  OBVIOUS
<1> QED
  BY <1>1 DEF Min

\* A region of the disk holds its cells in their order, as far as there are any.
LEMMA RegionCells ==
    ASSUME NEW d, IsSeq(d), NEW p \in Nat, NEW n \in Nat
    PROVE  /\ IsSeq(Region(d, p, n)) /\ Len(Region(d, p, n)) \in 0..n
           /\ p + n <= Len(d) => Len(Region(d, p, n)) = n
           /\ p + n > Len(d) /\ p <= Len(d) => Len(Region(d, p, n)) = Len(d) - p
           /\ Len(d) <= p => Len(Region(d, p, n)) = 0
           /\ \A i \in 1..Len(Region(d, p, n)) :
                Region(d, p, n)[i] = d[p + i] /\ p + i \in 1..Len(d)
<1> DEFINE e == Min({p + n, Len(d)})
           r == SubSeq(d, p + 1, e)
<1>1. Len(d) \in Nat
  BY LenIsNat
<1>2. /\ e \in Nat /\ e <= Len(d) /\ e <= p + n
      /\ e = IF p + n <= Len(d) THEN p + n ELSE Len(d)
  BY <1>1, MinOfTwo
<1> HIDE DEF e
<1>3. /\ IsSeq(r) /\ Len(r) = IF p + 1 <= e THEN e - p ELSE 0
      /\ \A i \in 1..Len(r) : r[i] = d[p + i] /\ p + i \in 1..Len(d)
  <2>1. e \in Nat /\ e <= Len(d)
    BY <1>2
  <2> QED
    BY <2>1, SubSeqCells, Zenon
<1>4. Region(d, p, n) = r
  BY DEF Region, e
<1> HIDE DEF r
<1>5. /\ Len(r) \in 0..n
      /\ p + n <= Len(d) => Len(r) = n
      /\ p + n > Len(d) /\ p <= Len(d) => Len(r) = Len(d) - p
      /\ Len(d) <= p => Len(r) = 0
  BY <1>1, <1>2, <1>3
<1> QED
  BY <1>3, <1>4, <1>5

-----------------------------------------------------------------------------
(***************************************************************************)
(* An entry's data, as a function of the archive and the entry.            *)
(***************************************************************************)
\* find_content's data_start, the data there, and what that decrypts to, of an
\* archive d and an entry f: ContentStart, Content and Clear without state.
Start(d, f) ==
    f.header_start + HEADER_LEN + At(d, f.header_start + EXTRA_LEN_OFFSET)[2]

Data(d, f) == Region(d, Start(d, f), f.compressed_size)

ClearOf(f, raw) ==
    LET aes == SubSeq(raw, 3, Min({Len(raw), 2 + DataLength(f)}))
    IN  IF ~f.encrypted THEN raw
        ELSE IF f.aes = "none"
          THEN [j \in 1..Len(raw) - 1 |->
                  IF \A k \in 2..j + 1 : raw[k][1] = "enc"
                  THEN raw[j + 1][2] ELSE Garbage]
          ELSE [j \in 1..Len(aes) |->
                  IF aes[j][1] = "sealed" /\ aes[j][2] = KeyAt(j)
                  THEN aes[j][3] ELSE Garbage]

-----------------------------------------------------------------------------
(***************************************************************************)
(* The invariant.                                                          *)
(***************************************************************************)
\* What the cipher has passed on: to the checksum, or to the decoder.
Got(f, z) == IF f.method = "stored" THEN z.hasher ELSE z.fed

\* The source, or the cipher, has no more to give.
Dry(d, z) == z.limit = 0 \/ Len(d) <= z.pos

Exhausted(d, z) == Dry(d, z) \/ (z.crypto = "aes" /\ z.remaining = 0)

\* The fields of a ZipFile and of the readers below it.
IsFile(z) ==
    /\ z = [index |-> z.index, crypto |-> z.crypto, password |-> z.password,
            stage |-> z.stage, pos |-> z.pos, limit |-> z.limit,
            synced |-> z.synced, ks |-> z.ks, remaining |-> z.remaining,
            mac |-> z.mac, fed |-> z.fed, eof |-> z.eof, hasher |-> z.hasher,
            raw |-> z.raw, seen |-> z.seen, failed |-> z.failed]
    /\ z.crypto \in {"plain", "zipcrypto", "aes"}
    /\ z.password \in Passwords \cup {"none"}
    /\ z.stage \in {"fresh", "decoding", "raw"}
    /\ z.pos \in Nat /\ z.limit \in Nat /\ z.remaining \in Nat
    /\ z.synced \in BOOLEAN /\ z.eof \in BOOLEAN /\ z.failed \in BOOLEAN
    /\ KeyStreamOK(z.ks)
    /\ IsSeq(z.mac) /\ IsSeq(z.fed) /\ IsSeq(z.hasher) /\ IsSeq(z.raw)
    /\ z.seen \in {"nothing", "data", "end", "error"}

\* The header was found, and what was read and what may still be read make up
\* the entry's data.
Located(d, f, z) ==
    /\ FindContent(d, f).ok
    /\ Start(d, f) <= z.pos
    /\ z.pos + z.limit = Start(d, f) + f.compressed_size

\* make_crypto_reader's choice, and the refusal of methods that cannot be read.
KindOK(f, z) ==
    /\ z.password = "none" <=> z.crypto = "plain"
    /\ z.stage # "raw" => f.method # "unsupported"
    /\ z.crypto = "plain" /\ z.stage # "raw" => ~f.encrypted
    /\ z.crypto = "zipcrypto" => f.encrypted /\ f.aes = "none"
    /\ z.crypto = "aes" => f.encrypted /\ f.aes # "none"

\* Nothing was read through a file without a reader.
FreshOK(z) ==
    z.stage = "fresh" =>
        /\ z.raw = << >> /\ z.fed = << >> /\ z.hasher = << >> /\ ~z.eof
        /\ z.seen = "nothing"

\* What a raw reader passed on, and that it has no more when it says so.
RawOK(d, f, z) ==
    z.stage = "raw" =>
        /\ z.hasher = << >>
        /\ z.password = "none" =>
             Begins(z.raw, Data(d, f)) /\ z.pos = Start(d, f) + Len(z.raw)
        /\ z.seen = "end" => Dry(d, z)

\* ZipCrypto's keys fit the data behind c cells of it: they do until some of it
\* is not encrypted data.
Fits(raw, c) == \A k \in 2..c + 1 : raw[k][1] = "enc"

\* What each cipher passed on, g, is the beginning of what the data decrypts
\* to, and the source is behind it.
PlainOK(d, f, z, g) ==
    z.crypto = "plain" => Begins(g, Data(d, f)) /\ z.pos = Start(d, f) + Len(g)

ZipCryptoOK(d, f, z, g) ==
    LET raw == Data(d, f) IN
    z.crypto = "zipcrypto" /\ z.password = "right" /\ ~z.failed =>
        /\ raw # << >>
        /\ Begins(g, ClearOf(f, raw)) /\ z.pos = Start(d, f) + 1 + Len(g)
        /\ z.synced => Fits(raw, Len(g))
        /\ ~z.synced => ~Fits(raw, Len(g)) \/ Dry(d, z)

\* With AES, the last data may be lost to a failure; otherwise the end of the
\* data has been found authentic.
AesOK(d, f, z, g) ==
    LET raw == Data(d, f) IN
    z.crypto = "aes" =>
        /\ z.password = "right" => Begins(g, ClearOf(f, raw))
        /\ z.remaining > 0 =>
             /\ Len(g) = Len(z.mac) /\ Used(z.ks) = Len(z.mac)
             /\ z.pos = Start(d, f) + 2 + Len(z.mac)
             /\ Len(z.mac) + z.remaining = DataLength(f)
             /\ 2 + Len(z.mac) <= Len(raw)
             /\ \A j \in 1..Len(z.mac) : z.mac[j] = raw[j + 2]
        /\ z.remaining = 0 /\ DataLength(f) > 0 /\ ~z.failed =>
             z.password = "right" /\ g = ClearOf(f, raw)

InputOK(d, f, s, z, g) ==
    /\ PlainOK(d, f, z, g) /\ AesOK(d, f, z, g)
    /\ ~s => ZipCryptoOK(d, f, z, g)

\* What was passed on is what the decoder makes of the beginning of its input.
DecoderOK(d, f, z) ==
    f.method # "stored" /\ z.stage # "raw" =>
        /\ \A j \in 1..Len(z.fed) : IsData(z.fed[j])
        /\ Begins(z.hasher, Decoded(f, z.fed))
        /\ z.eof => Exhausted(d, z)

\* A caller was told of the end behind the check of all it was given.
EndOK(d, f, z) ==
    z.stage = "decoding" /\ z.seen = "end" =>
        /\ ~(z.crypto = "aes" /\ f.aes = "ae2") => z.hasher = f.crc32
        /\ f.method # "stored" =>
             /\ Len(z.hasher) = Len(Decoded(f, z.fed))
             /\ Exhausted(d, z) \/ DecoderEnd(f, z.fed) # 0

\* An open file z, of entry f of archive d, with short reads or without.
Lent(d, f, s, z) ==
    /\ Located(d, f, z) /\ KindOK(f, z) /\ FreshOK(z) /\ RawOK(d, f, z)
    /\ z.stage # "raw" => InputOK(d, f, s, z, Got(f, z))
    /\ DecoderOK(d, f, z) /\ EndOK(d, f, z)

\* The directory is that of the archive.
SharedOK ==
    /\ disk \in Disks /\ short_reads \in BOOLEAN
    /\ OpenArchive(disk).ok
    /\ files = Directory(disk) /\ AesRecordsValid(files)

\* data_start is 0 or where find_content finds the data, whoever stored it.
DataStartOK ==
    /\ data_start \in [DOMAIN files -> Nat]
    /\ \A i \in DOMAIN files : data_start[i] # 0 =>
         FindContent(disk, files[i]).ok /\ data_start[i] = Start(disk, files[i])

FilesOK ==
    /\ DOMAIN file = Clones
    /\ \A c \in Clones :
         /\ IsFile(file[c])
         /\ IsOpen(c) =>
              /\ file[c].index \in DOMAIN files /\ data_start[file[c].index] # 0
              /\ Lent(disk, Entry(file[c]), short_reads, file[c])

ResultsOK ==
    /\ faults \in 0..MaxFaults
    /\ DOMAIN result = Clones
    /\ \A c \in Clones :
         result[c] \in {"none", "ok", "err", "invalid_password", "panic"}

ReaderInv == SharedOK /\ DataStartOK /\ FilesOK /\ ResultsOK

-----------------------------------------------------------------------------
(***************************************************************************)
(* The archive and its directory.                                          *)
(***************************************************************************)
LEMMA SharedFacts ==
    ASSUME SharedOK
    PROVE  /\ IsSeq(disk) /\ Len(disk) \in Nat
           /\ \A p \in 1..Len(disk) : IsCell(disk[p])
           /\ IsSeq(files) /\ DOMAIN files = 1..Len(files) /\ 0 \notin DOMAIN files
           /\ \A i \in DOMAIN files : IsHeader(files[i])
<1>1. /\ IsSeq(disk) /\ \A p \in 1..Len(disk) : IsCell(disk[p])
      /\ IsSeq(files) /\ \A i \in 1..Len(files) : IsHeader(files[i])
  BY DisksAssumption DEF SharedOK
<1>2. Len(disk) \in Nat /\ Len(files) \in Nat
  BY <1>1, LenIsNat
<1>3. DOMAIN files = 1..Len(files)
  BY <1>1, LenProperties DEF IsSeq
<1> QED
  BY <1>1, <1>2, <1>3

\* Where a header was found, data_start is a place behind the beginning of the
\* archive, and the data is what a reader finds there.
LEMMA FoundContent ==
    ASSUME SharedOK, NEW f, IsHeader(f), FindContent(disk, f).ok
    PROVE  /\ Start(disk, f) \in Nat \ {0}
           /\ FindContent(disk, f).data = Data(disk, f)
<1> DEFINE p == f.header_start + EXTRA_LEN_OFFSET
           cell == At(disk, p)
<1>1. /\ FindContent(disk, f) = [ok |-> TRUE, data |-> Data(disk, f)]
      /\ cell[1] = "extralen"
  BY DEF FindContent, NoContent, Data, Start
<1>2. p \in Nat /\ Len(disk) \in Nat
  BY SharedFacts DEF IsHeader, EXTRA_LEN_OFFSET
<1>3. cell[2] \in Nat
  <2>1. CASE p < Len(disk)
    <3>1. cell = disk[p + 1] /\ p + 1 \in 1..Len(disk)
      BY <1>2, <2>1 DEF At
    <3> HIDE DEF cell
    <3>2. IsCell(cell)
      BY <3>1, SharedFacts
    <3> QED
      BY <1>1, <3>2 DEF IsCell
  <2>2. CASE ~(p < Len(disk))
    <3>1. cell = <<"hole">>
      BY <1>2, <2>2 DEF At
    <3> HIDE DEF cell
    <3>2. cell[1] = "hole"
      BY <3>1
    <3> QED
      BY <1>1, <3>2
  <2> QED
    BY <2>1, <2>2
<1>4. Start(disk, f) = f.header_start + HEADER_LEN + cell[2]
  BY DEF Start
<1> HIDE DEF cell
<1>5. Start(disk, f) \in Nat \ {0}
  BY <1>3, <1>4 DEF IsHeader, HEADER_LEN
<1> QED
  BY <1>1, <1>5

LEMMA StatelessIsState ==
    /\ \A f : ContentStart(f) = Start(disk, f)
    /\ \A i : Content(i) = Data(disk, files[i])
    /\ \A i : Clear(i) = ClearOf(files[i], Data(disk, files[i]))
<1>1. \A f : ContentStart(f) = Start(disk, f)
  BY DEF ContentStart, Start
<1>2. \A i : Content(i) = Data(disk, files[i])
  BY <1>1 DEF Content, Data
<1>3. \A i : Clear(i) = ClearOf(files[i], Content(i))
  BY DEF Clear, ClearOf
<1> QED
  BY <1>1, <1>2, <1>3

\* The data of an entry: the cells between its start and the end of the entry
\* or of the archive.
LEMMA DataCells ==
    ASSUME SharedOK, NEW f, IsHeader(f), FindContent(disk, f).ok
    PROVE  LET raw == Data(disk, f) IN
           /\ IsSeq(raw) /\ Len(raw) \in 0..f.compressed_size
           /\ \A i \in 1..Len(raw) :
                /\ raw[i] = disk[Start(disk, f) + i] /\ IsCell(raw[i])
                /\ Start(disk, f) + i <= Len(disk)
           /\ \A n \in 1..f.compressed_size :
                Start(disk, f) + n <= Len(disk) => n <= Len(raw)
<1> DEFINE p == Start(disk, f)
           n == f.compressed_size
           raw == Data(disk, f)
<1>1. p \in Nat /\ n \in Nat /\ IsSeq(disk) /\ Len(disk) \in Nat
  BY FoundContent, SharedFacts DEF IsHeader
<1>2. raw = Region(disk, p, n)
  BY DEF Data
<1> HIDE DEF p, n, raw
<1>3. /\ IsSeq(raw) /\ Len(raw) \in 0..n
      /\ p + n <= Len(disk) => Len(raw) = n
      /\ p + n > Len(disk) /\ p <= Len(disk) => Len(raw) = Len(disk) - p
      /\ \A i \in 1..Len(raw) : raw[i] = disk[p + i] /\ p + i \in 1..Len(disk)
  BY <1>1, <1>2, RegionCells
<1>4. \A i \in 1..Len(raw) : IsCell(raw[i])
  BY <1>3, SharedFacts
<1>5. \A m \in 1..n : p + m <= Len(disk) => m <= Len(raw)
  BY <1>1, <1>3
<1> QED
  BY <1>3, <1>4, <1>5 DEF p, n, raw

-----------------------------------------------------------------------------
(***************************************************************************)
(* The source.                                                             *)
(***************************************************************************)
\* A read delivers no more than there is and nothing only if there is nothing
\* or nothing was asked for; and all that was asked for if it can, when reads
\* are not short.
LEMMA DeliveredBounds ==
    ASSUME IsSeq(disk), NEW z, z.pos \in Nat, z.limit \in Nat, NEW n \in Nat,
           NEW k \in Delivered(z, n)
    PROVE  /\ k \in 0..n /\ k <= z.limit /\ (k > 0 => z.pos + k <= Len(disk))
           /\ k = 0 => n = 0 \/ Dry(disk, z)
           /\ Dry(disk, z) => k = 0
           /\ ~short_reads /\ k < n => z.limit = k \/ Len(disk) <= z.pos + k
<1> DEFINE l == z.limit
           p == z.pos
           m == Len(disk)
           rest == Max({0, m - p})
           a == Available(z, n)
<1>1. l \in Nat /\ p \in Nat /\ m \in Nat
  BY LenIsNat
<1>2. rest = IF 0 >= m - p THEN 0 ELSE m - p
  <2> HIDE DEF m, p
  <2> QED
    BY <1>1, MaxOfTwo
<1>3. a = Min({n, l, rest})
  BY DEF Available
<1>4. Dry(disk, z) <=> l = 0 \/ m <= p
  BY DEF Dry
<1>5. k \in IF short_reads THEN Min({1, a})..a ELSE {a}
  BY DEF Delivered
<1> HIDE DEF l, p, m, rest, a
<1>6. rest \in Nat /\ (rest = 0 <=> m <= p) /\ (rest > 0 => rest = m - p)
  BY <1>1, <1>2
<1>7. a \in {n, l, rest} /\ a <= n /\ a <= l /\ a <= rest /\ a \in Nat
  <2>1. n \in Int /\ l \in Int /\ rest \in Int
    BY <1>1, <1>6
  <2>2. a \in {n, l, rest} /\ a <= n /\ a <= l /\ a <= rest
    BY <1>3, <2>1, MinOfThree
  <2> QED
    BY <1>1, <1>6, <2>2
<1>8. Min({1, a}) = IF 1 <= a THEN 1 ELSE a
  BY <1>7, MinOfTwo
<1>9. k \in Nat /\ k <= a /\ (k = 0 => a = 0) /\ (~short_reads => k = a)
  BY <1>5, <1>7, <1>8
<1>10. k \in 0..n /\ k <= l /\ (k > 0 => p + k <= m)
  BY <1>1, <1>6, <1>7, <1>9
<1>11. /\ k = 0 => n = 0 \/ l = 0 \/ m <= p
       /\ l = 0 \/ m <= p => k = 0
       /\ ~short_reads /\ k < n => l = k \/ m <= p + k
  BY <1>1, <1>6, <1>7, <1>9
<1> QED
  BY <1>4, <1>10, <1>11 DEF l, p, m

-----------------------------------------------------------------------------
(***************************************************************************)
(* The fields of a file that the steps of a read change, and those that    *)
(* they do not.                                                            *)
(***************************************************************************)
\* The fields above the cipher, and those below.
SameReader(y, z) ==
    /\ y.index = z.index /\ y.crypto = z.crypto /\ y.password = z.password
    /\ y.stage = z.stage /\ y.fed = z.fed /\ y.eof = z.eof
    /\ y.hasher = z.hasher /\ y.raw = z.raw /\ y.seen = z.seen
    /\ y.failed = z.failed

SameInput(y, z) ==
    /\ y.crypto = z.crypto /\ y.password = z.password
    /\ y.pos = z.pos /\ y.limit = z.limit /\ y.synced = z.synced
    /\ y.ks = z.ks /\ y.remaining = z.remaining /\ y.mac = z.mac

LEMMA TakenFields ==
    ASSUME NEW z, IsFile(z), NEW k \in Nat, k <= z.limit
    PROVE  /\ IsFile(Taken(z, k)) /\ SameReader(Taken(z, k), z)
           /\ Taken(z, k).pos = z.pos + k /\ Taken(z, k).limit = z.limit - k
           /\ Taken(z, k).synced = z.synced /\ Taken(z, k).ks = z.ks
           /\ Taken(z, k).remaining = z.remaining /\ Taken(z, k).mac = z.mac
<1> DEFINE y == Taken(z, k)
<1>1. y = [z EXCEPT !.pos = z.pos + k, !.limit = z.limit - k]
  BY DEF Taken
<1>2. y = [index |-> z.index, crypto |-> z.crypto, password |-> z.password,
            stage |-> z.stage, pos |-> z.pos + k, limit |-> z.limit - k,
            synced |-> z.synced, ks |-> z.ks, remaining |-> z.remaining,
            mac |-> z.mac, fed |-> z.fed, eof |-> z.eof, hasher |-> z.hasher,
            raw |-> z.raw, seen |-> z.seen, failed |-> z.failed]
  BY <1>1 DEF IsFile
<1> HIDE DEF y
<1>3. z.pos + k \in Nat /\ z.limit - k \in Nat
  BY DEF IsFile
<1> QED
  BY <1>2, <1>3 DEF IsFile, SameReader, y

-----------------------------------------------------------------------------
(***************************************************************************)
(* Reads of the source, by any cipher.                                     *)
(***************************************************************************)
Reading(f, z) ==
    SharedOK /\ IsHeader(f) /\ IsFile(z) /\ Located(disk, f, z)

LEMMA Positions ==
    ASSUME NEW f, NEW z, Reading(f, z)
    PROVE  /\ Start(disk, f) \in Nat /\ z.pos - Start(disk, f) \in Nat
           /\ z.pos \in Nat /\ z.limit \in Nat
           /\ IsSeq(disk) /\ Len(disk) \in Nat
           /\ Dry(disk, z) => Len(Data(disk, f)) <= z.pos - Start(disk, f)
<1> DEFINE p == Start(disk, f)
           raw == Data(disk, f)
           n == Len(raw)
<1>1. p \in Nat /\ IsSeq(disk) /\ Len(disk) \in Nat
  BY FoundContent, SharedFacts DEF Reading, Located
<1>2. z.pos \in Nat /\ z.limit \in Nat /\ p <= z.pos
  BY DEF Reading, Located, IsFile
<1>3. /\ n \in 0..f.compressed_size
      /\ n > 0 => p + n <= Len(disk)
  <2>1. /\ n \in 0..f.compressed_size
        /\ \A i \in 1..n : p + i <= Len(disk)
    BY DataCells DEF Reading, Located
  <2> HIDE DEF n, p
  <2> QED
    BY <2>1
<1>4. z.pos + z.limit = p + f.compressed_size /\ f.compressed_size \in Nat
  BY DEF Reading, Located, IsHeader
<1> HIDE DEF n, p
<1>5. Dry(disk, z) => n <= z.pos - p
  BY <1>1, <1>2, <1>3, <1>4 DEF Dry
<1> QED
  BY <1>1, <1>2, <1>5 DEF n, p

\* A file that is k cells further on.
LEMMA MovedOn ==
    ASSUME NEW f, NEW z, Reading(f, z), NEW k \in Nat, k <= z.limit,
           NEW y, y.pos = z.pos + k, y.limit = z.limit - k
    PROVE  /\ Located(disk, f, y)
           /\ Dry(disk, z) => Dry(disk, y)
           /\ z.limit = k \/ Len(disk) <= z.pos + k => Dry(disk, y)
<1> DEFINE p == Start(disk, f)
<1>1. /\ z.pos \in Nat /\ z.limit \in Nat /\ Len(disk) \in Nat /\ p \in Nat
  BY Positions
<1>2. Dry(disk, z) => Dry(disk, y)
  BY <1>1 DEF Dry
<1>3. z.limit = k \/ Len(disk) <= z.pos + k => Dry(disk, y)
  BY <1>1 DEF Dry
<1>4. /\ FindContent(disk, f).ok /\ p <= z.pos
      /\ z.pos + z.limit = p + f.compressed_size
  BY DEF Reading, Located
<1> HIDE DEF p
<1>5. p <= y.pos /\ y.pos + y.limit = p + f.compressed_size
  BY <1>1, <1>4
<1> QED
  BY <1>2, <1>3, <1>4, <1>5 DEF Located, p

\* The cells a read delivers are the next ones of the entry's data.
LEMMA NextCells ==
    ASSUME NEW f, NEW z, Reading(f, z), NEW n \in Nat, NEW k \in Delivered(z, n)
    PROVE  LET cells == Region(disk, z.pos, k)
               at    == z.pos - Start(disk, f)
               raw   == Data(disk, f)
           IN  /\ IsSeq(cells) /\ Len(cells) = k
               /\ k > 0 => at + k <= Len(raw)
               /\ \A j \in 1..k : cells[j] = raw[at + j] /\ IsCell(cells[j])
<1> DEFINE cells == Region(disk, z.pos, k)
           p     == Start(disk, f)
           at    == z.pos - p
           raw   == Data(disk, f)
           size  == f.compressed_size
<1>1. /\ p \in Nat /\ at \in Nat /\ z.pos \in Nat /\ z.limit \in Nat
      /\ IsSeq(disk) /\ Len(disk) \in Nat
  BY Positions
<1>2. k \in 0..n /\ k <= z.limit /\ (k > 0 => z.pos + k <= Len(disk))
  BY <1>1, DeliveredBounds
<1>3. /\ IsSeq(cells) /\ Len(cells) = k
      /\ \A j \in 1..k : cells[j] = disk[z.pos + j]
  <2>1. k \in Nat
    BY <1>2
  <2>2. /\ IsSeq(cells) /\ Len(cells) \in 0..k
        /\ z.pos + k <= Len(disk) => Len(cells) = k
        /\ \A i \in 1..Len(cells) : cells[i] = disk[z.pos + i]
    <3> HIDE DEF cells
    <3>1. /\ IsSeq(Region(disk, z.pos, k)) /\ Len(Region(disk, z.pos, k)) \in 0..k
          /\ z.pos + k <= Len(disk) => Len(Region(disk, z.pos, k)) = k
          /\ \A i \in 1..Len(Region(disk, z.pos, k)) :
                Region(disk, z.pos, k)[i] = disk[z.pos + i]
      <4> DEFINE start == z.pos
      <4>1. start \in Nat /\ k \in Nat /\ IsSeq(disk)
        BY <1>1, <2>1
      <4> HIDE DEF start
      <4>2. /\ IsSeq(Region(disk, start, k)) /\ Len(Region(disk, start, k)) \in 0..k
            /\ start + k <= Len(disk) => Len(Region(disk, start, k)) = k
            /\ \A i \in 1..Len(Region(disk, start, k)) :
                  Region(disk, start, k)[i] = disk[start + i]
        BY <4>1, RegionCells
      <4> QED
        BY <4>2 DEF start
    <3> QED
      BY <3>1 DEF cells
  <2> HIDE DEF cells
  <2>3. Len(cells) = k
    BY <1>2, <2>2
  <2> QED
    BY <2>2, <2>3
<1>4. /\ \A i \in 1..Len(raw) : raw[i] = disk[p + i] /\ IsCell(raw[i])
      /\ \A m \in 1..f.compressed_size : p + m <= Len(disk) => m <= Len(raw)
      /\ Len(raw) \in Nat /\ f.compressed_size \in Nat
  BY DataCells DEF Reading, Located, IsHeader
<1>5. z.pos + z.limit = p + f.compressed_size
  BY DEF Reading, Located
<1>a. /\ k \in Nat /\ at \in Nat /\ p \in Nat /\ size \in Nat
      /\ p + at = z.pos /\ at + k <= size
  <2> DEFINE q == z.pos
             l == z.limit
  <2>1. q \in Nat /\ l \in Nat /\ p \in Nat /\ q - p \in Nat /\ size \in Nat
    BY <1>1, <1>4
  <2>2. k \in Nat /\ k <= l /\ q + l = p + size
    BY <1>2, <1>5
  <2> HIDE DEF q, l, p, size
  <2>3. p + (q - p) = q /\ (q - p) + k <= size
    BY <2>1, <2>2
  <2> QED
    BY <2>1, <2>2, <2>3 DEF q
<1>b. \A m \in 1..size : p + m <= Len(disk) => m <= Len(raw)
  BY <1>4
<1>c. k > 0 => p + at + k <= Len(disk)
  BY <1>1, <1>2, <1>a
<1> HIDE DEF cells, raw, p, at, size
<1>6. k > 0 => at + k <= Len(raw)
  <2> SUFFICES ASSUME k > 0 PROVE at + k <= Len(raw)
    OBVIOUS
  <2> DEFINE m == at + k
  <2>1. m \in 1..size /\ p + m <= Len(disk)
    BY <1>a, <1>c
  <2> HIDE DEF m
  <2>2. m <= Len(raw)
    BY <1>b, <2>1
  <2> QED
    BY <2>2 DEF m
<1>7. ASSUME NEW j \in 1..k PROVE cells[j] = raw[at + j] /\ IsCell(cells[j])
  <2> DEFINE i == at + j
  <2>1. i \in 1..Len(raw) /\ p + i = z.pos + j
    BY <1>4, <1>6, <1>a
  <2> HIDE DEF i
  <2>2. raw[i] = disk[p + i] /\ IsCell(raw[i])
    BY <1>4, <2>1
  <2>3. cells[j] = raw[i]
    BY <1>3, <2>1, <2>2
  <2> QED
    BY <2>2, <2>3 DEF i
<1> QED
  BY <1>3, <1>6, <1>7 DEF cells, raw, p, at

-----------------------------------------------------------------------------
(***************************************************************************)
(* One read through a cipher that has passed on g: whatever its outcome,   *)
(* what it has passed on then is the beginning of what the data decrypts   *)
(* to.  `out' is empty at the end of the data only, and for good.          *)
(***************************************************************************)
Delivers(f, z, g, n, o) ==
    /\ IsFile(o.z) /\ SameReader(o.z, z) /\ Located(disk, f, o.z)
    /\ o.ok \in BOOLEAN /\ IsSeq(o.out)
    /\ \A j \in 1..Len(o.out) : IsData(o.out[j])
    /\ o.ok => InputOK(disk, f, short_reads, o.z, g \o o.out)
    /\ ~o.ok => InputOK(disk, f, short_reads, Failed(o.z), g)
    /\ o.ok /\ o.out = << >> => n = 0 \/ Exhausted(disk, z)
    /\ Exhausted(disk, z) => Exhausted(disk, o.z) /\ o.ok /\ o.out = << >>

LEMMA EmptyIffNoLength ==
    ASSUME NEW s, IsSeq(s)
    PROVE  s = << >> <=> Len(s) = 0
BY EmptySeq DEF IsSeq

\* A read of the source alone goes on with the data of the entry.
ReadsOn(f, z, n, o) ==
    /\ IsFile(o.z) /\ SameReader(o.z, z) /\ Located(disk, f, o.z)
    /\ o.ok = TRUE /\ IsSeq(o.out)
    /\ \A j \in 1..Len(o.out) : IsData(o.out[j])
    /\ Dry(disk, z) => Dry(disk, o.z) /\ o.out = << >>
    /\ o.out = << >> => n = 0 \/ Dry(disk, z)
    /\ \A g : Begins(g, Data(disk, f)) /\ z.pos = Start(disk, f) + Len(g) =>
         /\ Begins(g \o o.out, Data(disk, f))
         /\ o.z.pos = Start(disk, f) + Len(g \o o.out)

LEMMA PlainReadOn ==
    ASSUME NEW f, NEW z, Reading(f, z), NEW n \in Nat, NEW o \in PlainRead(z, n)
    PROVE  ReadsOn(f, z, n, o)
<1>1. PICK k \in Delivered(z, n) : o = Outcome(Taken(z, k), Region(disk, z.pos, k), TRUE)
  BY DEF PlainRead
<1> DEFINE y   == Taken(z, k)
           raw == Data(disk, f)
           p   == Start(disk, f)
           out == Region(disk, z.pos, k)
<1>2. /\ k \in Nat /\ k <= z.limit /\ (k = 0 => n = 0 \/ Dry(disk, z))
      /\ Dry(disk, z) => k = 0
  <2>1. IsSeq(disk) /\ z.pos \in Nat /\ z.limit \in Nat
    BY Positions
  <2>2. /\ k \in 0..n /\ k <= z.limit /\ (k = 0 => n = 0 \/ Dry(disk, z))
        /\ Dry(disk, z) => k = 0
    BY <2>1, DeliveredBounds
  <2> QED
    BY <2>2
<1>3. o.z = y /\ o.out = out /\ o.ok = TRUE
  BY <1>1 DEF Outcome
<1>4. /\ IsFile(y) /\ SameReader(y, z)
      /\ y.pos = z.pos + k /\ y.limit = z.limit - k
  BY <1>2, TakenFields DEF Reading
<1>5. Located(disk, f, y) /\ (Dry(disk, z) => Dry(disk, y))
  BY <1>2, <1>4, MovedOn
<1>6. /\ IsSeq(out) /\ Len(out) = k
      /\ k > 0 => z.pos - p + k <= Len(raw)
      /\ \A j \in 1..k : out[j] = raw[z.pos - p + j] /\ IsCell(out[j])
  BY NextCells
<1>7. p \in Nat /\ Len(raw) \in Nat
  BY Positions, LenIsNat, DataCells DEF Reading, Located
<1> HIDE DEF y, raw, p, out
<1>8. ASSUME NEW g, Begins(g, raw), z.pos = p + Len(g)
      PROVE  Begins(g \o out, raw) /\ y.pos = p + Len(g \o out)
  <2>1. Len(g) \in Nat /\ Len(g) <= Len(raw)
    BY <1>8, LenIsNat DEF Begins
  <2>2. z.pos - p = Len(g)
    BY <1>7, <1>8, <2>1
  <2>3. Len(g) + Len(out) <= Len(raw)
    BY <1>2, <1>6, <1>7, <2>1, <2>2
  <2>4. \A j \in 1..Len(out) : out[j] = raw[Len(g) + j]
    BY <1>6, <2>2
  <2>5. IsSeq(out) /\ Begins(g, raw)
    BY <1>6, <1>8
  <2>6. Begins(g \o out, raw) /\ Len(g \o out) = Len(g) + Len(out)
    BY <2>3, <2>4, <2>5, BeginsExtend
  <2>7. y.pos = p + Len(g \o out)
    BY <1>2, <1>4, <1>6, <1>7, <1>8, <2>1, <2>6
  <2> QED
    BY <2>6, <2>7
<1>9. \A j \in 1..Len(out) : IsData(out[j])
  BY <1>6 DEF IsCell
<1>10. out = << >> <=> k = 0
  BY <1>6, EmptyIffNoLength
<1>11. \A g : Begins(g, raw) /\ z.pos = p + Len(g) =>
         Begins(g \o out, raw) /\ y.pos = p + Len(g \o out)
  BY <1>8
<1> QED
  BY <1>2, <1>3, <1>4, <1>5, <1>6, <1>9, <1>10, <1>11, Zenon DEF raw, p, ReadsOn

LEMMA PlainReadDelivers ==
    ASSUME NEW f, NEW z, Reading(f, z), z.crypto = "plain",
           NEW g, PlainOK(disk, f, z, g), NEW n \in Nat, NEW o \in PlainRead(z, n)
    PROVE  Delivers(f, z, g, n, o)
<1> DEFINE raw == Data(disk, f)
           p   == Start(disk, f)
           go  == g \o o.out
<1>1. /\ IsFile(o.z) /\ SameReader(o.z, z) /\ Located(disk, f, o.z)
      /\ o.ok = TRUE /\ IsSeq(o.out)
      /\ \A j \in 1..Len(o.out) : IsData(o.out[j])
      /\ Dry(disk, z) => Dry(disk, o.z) /\ o.out = << >>
      /\ o.out = << >> => n = 0 \/ Dry(disk, z)
  BY PlainReadOn DEF ReadsOn
<1>2. Begins(go, raw) /\ o.z.pos = p + Len(go)
  <2>1. Begins(g, raw) /\ z.pos = p + Len(g)
    BY DEF PlainOK
  <2> QED
    BY <2>1, PlainReadOn DEF ReadsOn
<1> HIDE DEF raw, p, go
<1>3. InputOK(disk, f, short_reads, o.z, go)
  <2>1. o.z.crypto = "plain"
    BY <1>1 DEF SameReader
  <2>2. PlainOK(disk, f, o.z, go)
    BY <1>2 DEF PlainOK, raw, p
  <2>3. AesOK(disk, f, o.z, go) /\ ZipCryptoOK(disk, f, o.z, go)
    BY <2>1 DEF AesOK, ZipCryptoOK
  <2> QED
    BY <2>2, <2>3 DEF InputOK
<1>4. Exhausted(disk, z) <=> Dry(disk, z)
  BY DEF Exhausted
<1>5. Dry(disk, o.z) => Exhausted(disk, o.z)
  BY DEF Exhausted
<1> QED
  BY <1>1, <1>3, <1>4, <1>5, Zenon DEF Delivers, go

-----------------------------------------------------------------------------
(***************************************************************************)
(* ZipCrypto.                                                              *)
(***************************************************************************)
\* What the data behind a ZipCrypto header decrypts to.
LEMMA ZipCryptoClear ==
    ASSUME NEW f, f.encrypted, f.aes = "none", NEW raw, IsSeq(raw), raw # << >>
    PROVE  /\ IsSeq(ClearOf(f, raw)) /\ Len(ClearOf(f, raw)) = Len(raw) - 1
           /\ \A j \in 1..Len(raw) - 1 : ClearOf(f, raw)[j] =
                IF \A k \in 2..j + 1 : raw[k][1] = "enc"
                THEN raw[j + 1][2] ELSE Garbage
<1> DEFINE n == Len(raw) - 1
           v == [j \in 1..n |->
                   IF \A k \in 2..j + 1 : raw[k][1] = "enc"
                   THEN raw[j + 1][2] ELSE Garbage]
<1>1. ClearOf(f, raw) = v
  BY DEF ClearOf
<1>2. n \in Nat
  BY LenIsNat
<1>3. v = [i \in 1..n |-> v[i]]
  OBVIOUS
<1>4. \A j \in 1..n : v[j] =
        IF \A k \in 2..j + 1 : raw[k][1] = "enc" THEN raw[j + 1][2] ELSE Garbage
  OBVIOUS
<1> HIDE DEF v, n
<1>5. IsSeq(v) /\ Len(v) = n
  BY <1>2, <1>3, FunctionIsSeq
<1> QED
  BY <1>1, <1>4, <1>5 DEF n

\* A read of m cells with the right password, c cells behind the header.
ZipCryptoReads(f, raw, z, c, m, cells) ==
    /\ f.encrypted /\ f.aes = "none" /\ IsSeq(raw) /\ raw # << >>
    /\ z.password = "right" /\ z.synced \in BOOLEAN
    /\ c \in Nat /\ m \in Nat /\ Len(cells) = m
    /\ m > 0 => c + 1 + m <= Len(raw)
    /\ \A j \in 1..m : cells[j] = raw[c + 1 + j] /\ IsCell(cells[j])
    /\ z.synced => Fits(raw, c)
    /\ ~z.synced => ~Fits(raw, c) \/ m = 0

\* What such a read decrypts, and what becomes of the keys.
ZipCryptoClears(f, raw, z, c, m, out) ==
    /\ \A j \in 1..m : out[j] = ClearOf(f, raw)[c + j]
    /\ z.synced /\ (\A j \in 1..m : out[j] # Garbage) => Fits(raw, c + m)
    /\ (\E j \in 1..m : out[j] = Garbage) => ~Fits(raw, c + m)
    /\ ~Fits(raw, c) => ~Fits(raw, c + m)

LEMMA ZipCryptoCells ==
    ASSUME NEW f, NEW raw, NEW z, NEW c, NEW m, NEW cells,
           ZipCryptoReads(f, raw, z, c, m, cells)
    PROVE  ZipCryptoClears(f, raw, z, c, m, ZipCryptoDecrypted(z, cells))
<1> USE DEF ZipCryptoReads
<1> DEFINE out   == ZipCryptoDecrypted(z, cells)
           clear == ClearOf(f, raw)
           n     == Len(raw)
<1>1. \A j \in 1..m : out[j] = IF z.synced /\ \A i \in 1..j : cells[i][1] = "enc"
                               THEN cells[j][2] ELSE Garbage
  BY DEF ZipCryptoDecrypted
<1>2. \A j \in 1..n - 1 : clear[j] = IF Fits(raw, j) THEN raw[j + 1][2] ELSE Garbage
  BY ZipCryptoClear DEF Fits
<1>3. n \in Nat
  BY LenIsNat
<1> HIDE DEF out, clear, n
<1>4. ~Fits(raw, c) => \A j \in 1..m : ~Fits(raw, c + j)
  <2> SUFFICES ASSUME ~Fits(raw, c), NEW j \in 1..m PROVE ~Fits(raw, c + j)
    OBVIOUS
  <2>1. PICK k \in 2..c + 1 : raw[k][1] # "enc"
    BY DEF Fits
  <2>2. k \in 2..(c + j) + 1
    OBVIOUS
  <2> QED
    BY <2>1, <2>2 DEF Fits
<1>5. Fits(raw, c) => \A j \in 1..m :
        Fits(raw, c + j) <=> \A i \in 1..j : cells[i][1] = "enc"
  <2> SUFFICES ASSUME Fits(raw, c), NEW j \in 1..m
               PROVE  Fits(raw, c + j) <=> \A i \in 1..j : cells[i][1] = "enc"
    OBVIOUS
  <2>1. ASSUME Fits(raw, c + j), NEW i \in 1..j PROVE cells[i][1] = "enc"
    <3>1. c + 1 + i \in 2..(c + j) + 1 /\ i \in 1..m
      OBVIOUS
    <3>2. raw[c + 1 + i][1] = "enc"
      BY <2>1, <3>1 DEF Fits
    <3> QED
      BY <3>1, <3>2
  <2>2. ASSUME \A i \in 1..j : cells[i][1] = "enc", NEW k \in 2..(c + j) + 1
        PROVE  raw[k][1] = "enc"
    <3>1. CASE k \in 2..c + 1
      BY <3>1 DEF Fits
    <3>2. CASE k \notin 2..c + 1
      <4> DEFINE i == k - (c + 1)
      <4>1. i \in 1..j /\ i \in 1..m /\ c + 1 + i = k
        BY <3>2
      <4> HIDE DEF i
      <4>2. cells[i][1] = "enc" /\ cells[i] = raw[k]
        BY <2>2, <4>1
      <4> QED
        BY <4>2
    <3> QED
      BY <3>1, <3>2
  <2> QED
    BY <2>1, <2>2 DEF Fits
<1>6. ASSUME NEW j \in 1..m PROVE out[j] = clear[c + j]
  <2>1. c + j \in 1..n - 1 /\ (c + j) + 1 = c + 1 + j
    BY <1>3 DEF n
  <2>2. clear[c + j] = IF Fits(raw, c + j) THEN raw[c + 1 + j][2] ELSE Garbage
    BY <1>2, <2>1
  <2>3. CASE z.synced
    <3>1. Fits(raw, c + j) <=> \A i \in 1..j : cells[i][1] = "enc"
      BY <1>5, <2>3
    <3>2. cells[j] = raw[c + 1 + j]
      OBVIOUS
    <3>3. out[j] = IF \A i \in 1..j : cells[i][1] = "enc"
                   THEN cells[j][2] ELSE Garbage
      BY <1>1, <2>3
    <3>4. CASE Fits(raw, c + j)
      BY <2>2, <3>1, <3>2, <3>3, <3>4
    <3>5. CASE ~Fits(raw, c + j)
      BY <2>2, <3>1, <3>3, <3>5
    <3> QED
      BY <3>4, <3>5
  <2>4. CASE ~z.synced
    <3>1. out[j] = Garbage
      BY <1>1, <2>4
    <3>2. m # 0 /\ ~Fits(raw, c)
      BY <2>4
    <3>3. ~Fits(raw, c + j)
      BY <1>4, <3>2
    <3> QED
      BY <2>2, <3>1, <3>3
  <2> QED
    BY <2>3, <2>4
<1>7. ASSUME z.synced, \A j \in 1..m : out[j] # Garbage PROVE Fits(raw, c + m)
  <2>1. CASE m = 0
    BY <1>7, <2>1
  <2>2. CASE m # 0
    <3>1. m \in 1..m
      BY <2>2
    <3>2. out[m] # Garbage
      BY <1>7, <3>1
    <3>3. \A i \in 1..m : cells[i][1] = "enc"
      BY <1>1, <3>1, <3>2
    <3> QED
      BY <1>5, <1>7, <3>1, <3>3
  <2> QED
    BY <2>1, <2>2
<1>8. ASSUME NEW j \in 1..m, out[j] = Garbage PROVE ~Fits(raw, c + m)
  <2>1. ~Fits(raw, c + j)
    <3>1. CASE ~z.synced
      <4>1. m # 0 /\ ~Fits(raw, c)
        BY <3>1
      <4> QED
        BY <1>4, <4>1
    <3>2. CASE z.synced
      <4>1. cells[j][1] = "enc" => cells[j][2] # Garbage
        BY DEF IsCell, Garbage
      <4>2. ~\A i \in 1..j : cells[i][1] = "enc"
        <5> SUFFICES ASSUME \A i \in 1..j : cells[i][1] = "enc" PROVE FALSE
          OBVIOUS
        <5>1. cells[j][1] = "enc"
          OBVIOUS
        <5>2. out[j] = cells[j][2]
          BY <1>1, <3>2
        <5> QED
          BY <1>8, <4>1, <5>1, <5>2
      <4> QED
        BY <1>5, <3>2, <4>2
    <3> QED
      BY <3>1, <3>2
  <2>2. PICK k \in 2..(c + j) + 1 : raw[k][1] # "enc"
    BY <2>1 DEF Fits
  <2>3. k \in 2..(c + m) + 1
    OBVIOUS
  <2> QED
    BY <2>2, <2>3 DEF Fits
<1>9. ASSUME ~Fits(raw, c) PROVE ~Fits(raw, c + m)
  <2>1. PICK k \in 2..c + 1 : raw[k][1] # "enc"
    BY <1>9 DEF Fits
  <2>2. k \in 2..(c + m) + 1
    OBVIOUS
  <2> QED
    BY <2>1, <2>2 DEF Fits
<1> QED
  BY <1>6, <1>7, <1>8, <1>9 DEF out, clear, ZipCryptoClears

LEMMA ZipCryptoReadFields ==
    ASSUME NEW z, IsFile(z), NEW k \in Nat, k <= z.limit, NEW b \in BOOLEAN
    PROVE  LET y == [Taken(z, k) EXCEPT !.synced = b] IN
           /\ IsFile(y) /\ SameReader(y, z)
           /\ y.pos = z.pos + k /\ y.limit = z.limit - k /\ y.synced = b
<1> DEFINE x == Taken(z, k)
           y == [x EXCEPT !.synced = b]
<1>1. /\ IsFile(x) /\ SameReader(x, z)
      /\ x.pos = z.pos + k /\ x.limit = z.limit - k
  BY TakenFields
<1> HIDE DEF x
<1>2. y = [index |-> x.index, crypto |-> x.crypto, password |-> x.password,
            stage |-> x.stage, pos |-> x.pos, limit |-> x.limit,
            synced |-> b, ks |-> x.ks, remaining |-> x.remaining,
            mac |-> x.mac, fed |-> x.fed, eof |-> x.eof, hasher |-> x.hasher,
            raw |-> x.raw, seen |-> x.seen, failed |-> x.failed]
  BY <1>1 DEF IsFile
<1> HIDE DEF y
<1>3. IsFile(y)
  BY <1>1, <1>2 DEF IsFile
<1>4. SameReader(y, z) /\ y.pos = x.pos /\ y.limit = x.limit /\ y.synced = b
  BY <1>1, <1>2 DEF SameReader
<1> QED
  BY <1>1, <1>3, <1>4 DEF y, x

LEMMA ZipCryptoReadDelivers ==
    ASSUME NEW f, NEW z, Reading(f, z), z.crypto = "zipcrypto",
           f.encrypted, f.aes = "none",
           NEW g, IsSeq(g), ~short_reads => ZipCryptoOK(disk, f, z, g),
           NEW n \in Nat, NEW o \in ZipCryptoRead(z, n)
    PROVE  Delivers(f, z, g, n, o)
<1> DEFINE Cells(k) == Region(disk, z.pos, k)
           Out(k)   == ZipCryptoDecrypted(z, Cells(k))
           Sync(k)  == KeysInStep(z, k, n) /\ \A i \in 1..k : Out(k)[i] # Garbage
<1>1. PICK k \in Delivered(z, n) :
        o = Outcome([Taken(z, k) EXCEPT !.synced = Sync(k)], Out(k), TRUE)
  BY DEF ZipCryptoRead
<1> DEFINE raw   == Data(disk, f)
           p     == Start(disk, f)
           cells == Cells(k)
           out   == Out(k)
           b     == Sync(k)
           y     == [Taken(z, k) EXCEPT !.synced = b]
           at    == z.pos - p
           clear == ClearOf(f, raw)
<1>2. /\ k \in Nat /\ k <= n /\ k <= z.limit /\ (k = 0 => n = 0 \/ Dry(disk, z))
      /\ Dry(disk, z) => k = 0
      /\ ~short_reads /\ k < n => z.limit = k \/ Len(disk) <= z.pos + k
  <2>1. IsSeq(disk) /\ z.pos \in Nat /\ z.limit \in Nat
    BY Positions
  <2>2. /\ k \in 0..n /\ k <= z.limit /\ (k = 0 => n = 0 \/ Dry(disk, z))
        /\ Dry(disk, z) => k = 0
        /\ ~short_reads /\ k < n => z.limit = k \/ Len(disk) <= z.pos + k
    BY <2>1, DeliveredBounds
  <2> QED
    BY <2>2
<1>3. o.z = y /\ o.out = out /\ o.ok = TRUE
  BY <1>1 DEF Outcome
<1>4. b \in BOOLEAN /\ (b <=> z.synced /\ k = n /\ \A i \in 1..k : out[i] # Garbage)
  BY DEF KeysInStep, Reading, IsFile
<1>5. IsSeq(out) /\ Len(out) = k
  <2>1. Len(cells) = k
    BY NextCells
  <2>2. out = [i \in 1..k |-> out[i]]
    BY <2>1 DEF ZipCryptoDecrypted
  <2> HIDE DEF out
  <2> QED
    BY <1>2, <2>2, FunctionIsSeq
<1>6. /\ Len(cells) = k /\ (k > 0 => at + k <= Len(raw))
      /\ \A j \in 1..k : cells[j] = raw[at + j] /\ IsCell(cells[j])
  BY NextCells
<1>7. \A j \in 1..k : IsData(out[j])
  <2>1. \A j \in 1..k : out[j] = Garbage \/ (out[j] = cells[j][2] /\ cells[j][1] = "enc")
    BY <1>6 DEF ZipCryptoDecrypted
  <2>2. IsData(Garbage)
    BY DEF IsData, Garbage
  <2> HIDE DEF out, cells
  <2> QED
    BY <1>6, <2>1, <2>2 DEF IsCell
<1> HIDE DEF b
<1>8. /\ IsFile(y) /\ SameReader(y, z)
      /\ y.pos = z.pos + k /\ y.limit = z.limit - k /\ y.synced = b
  <2>1. IsFile(z) /\ k \in Nat /\ k <= z.limit /\ b \in BOOLEAN
    BY <1>2, <1>4 DEF Reading
  <2> QED
    BY <2>1, ZipCryptoReadFields
<1> HIDE DEF y
<1>9. /\ Located(disk, f, y) /\ (Dry(disk, z) => Dry(disk, y))
      /\ z.limit = k \/ Len(disk) <= z.pos + k => Dry(disk, y)
  BY <1>2, <1>8, MovedOn
<1>10. ~short_reads => ZipCryptoOK(disk, f, y, g \o out)
  <2> DEFINE c == Len(g)
             go == g \o out
  <2> SUFFICES ASSUME ~short_reads, z.password = "right", ~z.failed
               PROVE  /\ raw # << >>
                      /\ Begins(go, clear) /\ y.pos = p + 1 + Len(go)
                      /\ y.synced => Fits(raw, Len(go))
                      /\ ~y.synced => ~Fits(raw, Len(go)) \/ Dry(disk, y)
    BY <1>8 DEF ZipCryptoOK, SameReader
  <2>1. /\ raw # << >> /\ Begins(g, clear) /\ z.pos = p + 1 + c
        /\ z.synced => Fits(raw, c)
        /\ ~z.synced => ~Fits(raw, c) \/ Dry(disk, z)
    BY DEF ZipCryptoOK
  <2>2. /\ c \in Nat /\ p \in Nat /\ IsSeq(raw) /\ Len(raw) \in Nat
        /\ z.synced \in BOOLEAN
    BY Positions, LenIsNat, DataCells DEF Reading, Located, IsFile
  <2> HIDE DEF c, p, raw, clear, cells, out
  <2>3. at = c + 1
    BY <2>1, <2>2
  <2>4. /\ k > 0 => c + 1 + k <= Len(raw)
        /\ \A j \in 1..k : cells[j] = raw[c + 1 + j] /\ IsCell(cells[j])
    BY <1>6, <2>3
  <2>5. ~z.synced => ~Fits(raw, c) \/ k = 0
    BY <1>2, <2>1
  <2>6. /\ \A j \in 1..k : out[j] = clear[c + j]
        /\ z.synced /\ (\A j \in 1..k : out[j] # Garbage) => Fits(raw, c + k)
        /\ (\E j \in 1..k : out[j] = Garbage) => ~Fits(raw, c + k)
        /\ ~Fits(raw, c) => ~Fits(raw, c + k)
    <3>1. k \in Nat /\ Len(cells) = k
      BY <1>2, <1>6
    <3>2. ZipCryptoReads(f, raw, z, c, k, cells)
      BY <2>1, <2>2, <2>4, <2>5, <3>1 DEF ZipCryptoReads
    <3>3. ZipCryptoClears(f, raw, z, c, k, ZipCryptoDecrypted(z, cells))
      BY <3>2, ZipCryptoCells
    <3>4. out = ZipCryptoDecrypted(z, cells)
      BY DEF out, cells
    <3>5. clear = ClearOf(f, raw)
      BY DEF clear
    <3> QED
      BY <3>3, <3>4, <3>5 DEF ZipCryptoClears
  <2>7. /\ Begins(go, clear) /\ Len(go) = c + k
    <3>1. Len(clear) = Len(raw) - 1
      BY <2>1, <2>2, ZipCryptoClear DEF clear
    <3>2. c <= Len(clear)
      BY <2>1 DEF Begins, c
    <3>3. c + Len(out) <= Len(clear)
      BY <1>2, <1>5, <2>2, <2>4, <3>1, <3>2
    <3>4. \A j \in 1..Len(out) : out[j] = clear[c + j]
      BY <1>5, <2>6
    <3>5. Begins(go, clear) /\ Len(go) = c + Len(out)
      <4> HIDE DEF go
      <4>1. IsSeq(g) /\ IsSeq(out) /\ Begins(g, clear)
        BY <1>5, <2>1 DEF out
      <4>2. Len(g) = c
        BY DEF c
      <4>3. Begins(g \o out, clear) /\ Len(g \o out) = Len(g) + Len(out)
        <5>1. /\ Len(g) + Len(out) <= Len(clear)
              /\ \A j \in 1..Len(out) : out[j] = clear[Len(g) + j]
          BY <3>3, <3>4, <4>2
        <5> HIDE DEF out
        <5> QED
          BY <4>1, <5>1, BeginsExtend
      <4> QED
        BY <4>2, <4>3 DEF go
    <3> QED
      BY <1>5, <3>5
  <2> HIDE DEF go
  <2>8. y.pos = p + 1 + Len(go)
    BY <1>2, <1>8, <2>1, <2>2, <2>7
  <2>9. y.synced => Fits(raw, Len(go))
    BY <1>4, <1>8, <2>6, <2>7
  <2>10. ASSUME ~y.synced PROVE ~Fits(raw, Len(go)) \/ Dry(disk, y)
    <3>1. CASE ~z.synced
      BY <1>9, <2>1, <2>6, <2>7, <3>1
    <3>2. CASE z.synced /\ k # n
      <4>1. k < n
        BY <1>2, <3>2
      <4> QED
        BY <1>2, <1>9, <4>1
    <3>3. CASE z.synced /\ k = n
      <4>1. \E i \in 1..k : out[i] = Garbage
        BY <1>4, <1>8, <2>10, <3>3
      <4> QED
        BY <2>6, <2>7, <4>1
    <3> QED
      BY <3>1, <3>2, <3>3
  <2> QED
    BY <2>1, <2>7, <2>8, <2>9, <2>10
<1>11. InputOK(disk, f, short_reads, y, g \o out)
  <2>1. y.crypto = "zipcrypto"
    BY <1>8 DEF SameReader
  <2>2. PlainOK(disk, f, y, g \o out) /\ AesOK(disk, f, y, g \o out)
    BY <2>1 DEF AesOK, PlainOK
  <2> QED
    BY <1>10, <2>2 DEF InputOK
<1>12. out = << >> <=> k = 0
  BY <1>5, EmptyIffNoLength
<1>13. (Exhausted(disk, z) <=> Dry(disk, z)) /\ (Dry(disk, y) => Exhausted(disk, y))
  BY DEF Exhausted
<1>14. \A j \in 1..Len(out) : IsData(out[j])
  BY <1>5, <1>7
<1> HIDE DEF out, b
<1> QED
  BY <1>2, <1>3, <1>5, <1>8, <1>9, <1>11, <1>12, <1>13, <1>14, Zenon DEF Delivers

-----------------------------------------------------------------------------
(***************************************************************************)
(* AES.                                                                    *)
(***************************************************************************)
LEMMA DataLengthIsNat ==
    ASSUME NEW f, IsHeader(f) PROVE DataLength(f) \in Nat
<1>1. f.compressed_size - AES_OVERHEAD \in Int /\ U64_MODULUS \in Nat \ {0}
  BY ReaderAssumption
     DEF IsHeader, AES_OVERHEAD, SALT_LENGTH, PWD_VERIFY_LENGTH, AUTH_CODE_LENGTH
<1> DEFINE x == f.compressed_size - AES_OVERHEAD
<1> HIDE DEF x
<1>2. x % U64_MODULUS \in Nat
  BY <1>1 DEF x
<1> QED
  BY <1>2 DEF DataLength, x

\* What the data between AES's header and its code decrypts to.
LEMMA AesClear ==
    ASSUME NEW f, f.encrypted, f.aes # "none", DataLength(f) \in Nat,
           NEW raw, IsSeq(raw), 2 <= Len(raw)
    PROVE  LET clear == ClearOf(f, raw) IN
           /\ IsSeq(clear) /\ Len(clear) <= DataLength(f)
           /\ 2 + Len(clear) <= Len(raw)
           /\ \A m \in Nat :
                2 + m <= Len(raw) /\ m <= DataLength(f) => m <= Len(clear)
           /\ \A j \in 1..Len(clear) : clear[j] =
                IF raw[j + 2][1] = "sealed" /\ raw[j + 2][2] = KeyAt(j)
                THEN raw[j + 2][3] ELSE Garbage
<1> DEFINE T   == {raw[i] : i \in DOMAIN raw}
           e   == Min({Len(raw), 2 + DataLength(f)})
           aes == SubSeq(raw, 3, e)
           n   == Len(aes)
           v   == [j \in 1..n |->
                     IF aes[j][1] = "sealed" /\ aes[j][2] = KeyAt(j)
                     THEN aes[j][3] ELSE Garbage]
<1>1. ClearOf(f, raw) = v
  BY DEF ClearOf
<1>2. raw \in Seq(T) /\ Len(raw) \in Nat
  BY LenIsNat DEF IsSeq
<1>3. \A i \in 1..Len(raw) : raw[i] \in T
  BY <1>2, LenProperties
<1> HIDE DEF T
<1>4. e = IF Len(raw) <= 2 + DataLength(f) THEN Len(raw) ELSE 2 + DataLength(f)
  <2>1. 2 + DataLength(f) \in Int /\ Len(raw) \in Int
    BY <1>2
  <2> QED
    BY <2>1, MinOfTwo
<1>5. e \in Nat /\ 2 <= e /\ e <= Len(raw) /\ e <= 2 + DataLength(f)
  BY <1>2, <1>4
<1> HIDE DEF e
<1>6. n = e - 2 /\ \A j \in 1..e - 2 : aes[j] = raw[j + 2]
  <2>1. 3 \in Int /\ e \in Int /\ \A i \in 3..e : raw[i] \in T
    BY <1>3, <1>5
  <2>2. /\ Len(aes) = IF 3 <= e THEN e - 3 + 1 ELSE 0
        /\ \A i \in 1..e - 3 + 1 : aes[i] = raw[3 + i - 1]
    BY <1>2, <2>1, SubSeqProperties
  <2> HIDE DEF aes
  <2>3. \A j \in 1..e - 2 : j \in 1..e - 3 + 1 /\ 3 + j - 1 = j + 2
    BY <1>5
  <2>4. Len(aes) = e - 2
    BY <1>5, <2>2
  <2>5. ASSUME NEW j \in 1..e - 2 PROVE aes[j] = raw[j + 2]
    BY <2>2, <2>3
  <2> QED
    BY <2>4, <2>5
<1>7. v = [i \in 1..n |-> v[i]]
  OBVIOUS
<1>8. \A j \in 1..n : v[j] = IF aes[j][1] = "sealed" /\ aes[j][2] = KeyAt(j)
                             THEN aes[j][3] ELSE Garbage
  OBVIOUS
<1> HIDE DEF aes, n, v
<1>9. n \in Nat
  BY <1>5, <1>6
<1>10. IsSeq(v) /\ Len(v) = n
  BY <1>7, <1>9, FunctionIsSeq
<1>11. ASSUME NEW j \in 1..n
       PROVE  v[j] = IF raw[j + 2][1] = "sealed" /\ raw[j + 2][2] = KeyAt(j)
                     THEN raw[j + 2][3] ELSE Garbage
  <2>1. aes[j] = raw[j + 2]
    BY <1>6
  <2> QED
    BY <1>8, <2>1
<1>12. /\ n <= DataLength(f) /\ 2 + n <= Len(raw)
       /\ \A m \in Nat : 2 + m <= Len(raw) /\ m <= DataLength(f) => m <= n
  BY <1>2, <1>4, <1>5, <1>6
<1> QED
  BY <1>1, <1>10, <1>11, <1>12

\* A read of k cells behind m of them.
AesReads(f, raw, z, m, k, cells) ==
    /\ f.encrypted /\ f.aes # "none" /\ IsSeq(raw) /\ DataLength(f) \in Nat
    /\ KeyStreamOK(z.ks) /\ Used(z.ks) = m
    /\ m \in Nat /\ k \in Nat /\ Len(cells) = k
    /\ 2 + m + k <= Len(raw) /\ m + k <= DataLength(f)
    /\ \A j \in 1..k : cells[j] = raw[2 + m + j] /\ IsCell(cells[j])

\* What such a read decrypts.
AesClears(f, raw, z, m, k, out) ==
    /\ IsSeq(out) /\ Len(out) = k /\ \A j \in 1..k : IsData(out[j])
    /\ m + k <= Len(ClearOf(f, raw))
    /\ z.password = "right" => \A j \in 1..k : out[j] = ClearOf(f, raw)[m + j]

LEMMA AesCells ==
    ASSUME NEW f, NEW raw, NEW z, NEW m, NEW k, NEW cells,
           AesReads(f, raw, z, m, k, cells)
    PROVE  AesClears(f, raw, z, m, k, AesDecrypted(z, cells))
<1> USE DEF AesReads
<1> DEFINE key   == CryptInPlace(z.ks, k).used
           out   == AesDecrypted(z, cells)
           clear == ClearOf(f, raw)
           n     == Len(clear)
<1>1. \A i \in 1..k : key[i] = KeyAt(m + i)
  BY CryptInPlaceInStep
<1>2. out = [i \in 1..k |->
        IF z.password = "right" /\ cells[i][1] = "sealed" /\ cells[i][2] = key[i]
        THEN cells[i][3] ELSE Garbage]
  BY DEF AesDecrypted, KeyStream
<1>3. Len(raw) \in Nat
  BY LenIsNat
<1>4. /\ IsSeq(clear)
      /\ \A i \in Nat : 2 + i <= Len(raw) /\ i <= DataLength(f) => i <= n
      /\ \A j \in 1..n : clear[j] =
           IF raw[j + 2][1] = "sealed" /\ raw[j + 2][2] = KeyAt(j)
           THEN raw[j + 2][3] ELSE Garbage
  <2>1. 2 <= Len(raw)
    BY <1>3
  <2> QED
    BY <2>1, AesClear
<1>5. n \in Nat
  BY <1>4, LenIsNat
<1> HIDE DEF key, out, clear, n
<1>6. m + k <= n
  <2> DEFINE i == m + k
  <2>1. i \in Nat /\ 2 + i <= Len(raw) /\ i <= DataLength(f)
    BY <1>3
  <2> HIDE DEF i
  <2>2. i <= n
    BY <1>4, <2>1
  <2> QED
    BY <2>2 DEF i
<1>7. out = [i \in 1..k |-> out[i]]
  BY <1>2
<1>8. IsSeq(out) /\ Len(out) = k
  BY <1>7, FunctionIsSeq
<1>9. ASSUME NEW j \in 1..k
      PROVE  /\ IsData(out[j])
             /\ z.password = "right" => out[j] = clear[m + j]
  <2>1. out[j] = IF z.password = "right" /\ cells[j][1] = "sealed"
                    /\ cells[j][2] = KeyAt(m + j)
                 THEN cells[j][3] ELSE Garbage
    BY <1>1, <1>2
  <2>2. IsData(Garbage)
    BY DEF IsData, Garbage
  <2>3. cells[j][1] = "sealed" => IsData(cells[j][3])
    BY DEF IsCell
  <2>4. IsData(out[j])
    BY <2>1, <2>2, <2>3
  <2> DEFINE i == m + j
  <2>5. i \in 1..n /\ i + 2 = 2 + m + j
    BY <1>5, <1>6
  <2>6. clear[i] = IF raw[i + 2][1] = "sealed" /\ raw[i + 2][2] = KeyAt(i)
                   THEN raw[i + 2][3] ELSE Garbage
    <3> HIDE DEF i
    <3> QED
      BY <1>4, <2>5
  <2>7. cells[j] = raw[i + 2]
    BY <2>5
  <2> QED
    BY <2>1, <2>4, <2>6, <2>7
<1>10. /\ \A j \in 1..k : IsData(out[j])
       /\ z.password = "right" => \A j \in 1..k : out[j] = clear[m + j]
  BY <1>9
<1> QED
  BY <1>6, <1>8, <1>10 DEF AesClears, out, clear, n

\* A reader behind a read that gave k cells.
AesReadOn(z, k) ==
    LET cells == Region(disk, z.pos, k)
    IN  [Taken(z, k) EXCEPT !.remaining = @ - k, !.mac = @ \o cells,
                            !.ks = CryptInPlace(KeyStream(z), k).ks]

LEMMA AesReadFields ==
    ASSUME NEW z, IsFile(z), NEW k \in Nat, k <= z.limit, k <= z.remaining,
           IsSeq(Region(disk, z.pos, k))
    PROVE  LET y == AesReadOn(z, k) IN
           /\ IsFile(y) /\ SameReader(y, z)
           /\ y.pos = z.pos + k /\ y.limit = z.limit - k
           /\ y.remaining = z.remaining - k
           /\ y.mac = z.mac \o Region(disk, z.pos, k)
           /\ Used(y.ks) = Used(z.ks) + k
<1> DEFINE x     == Taken(z, k)
           cells == Region(disk, z.pos, k)
           ks    == CryptInPlace(z.ks, k).ks
           y     == AesReadOn(z, k)
           r     == z.remaining - k
           mac   == z.mac \o cells
<1>1. /\ IsFile(x) /\ SameReader(x, z)
      /\ x.pos = z.pos + k /\ x.limit = z.limit - k
      /\ x.remaining = z.remaining /\ x.mac = z.mac
  BY TakenFields
<1>2. y = [x EXCEPT !.remaining = x.remaining - k, !.mac = x.mac \o cells, !.ks = ks]
  BY DEF AesReadOn, KeyStream
<1>3. KeyStreamOK(ks) /\ Used(ks) = Used(z.ks) + k
  BY CryptInPlaceInStep DEF IsFile
<1>4. r \in Nat /\ IsSeq(mac)
  BY ConcatIsSeq DEF IsFile
<1>5. x.remaining - k = r /\ x.mac \o cells = mac
  BY <1>1
<1> HIDE DEF x, y, ks, r, mac, cells
<1>6. y = [index |-> x.index, crypto |-> x.crypto, password |-> x.password,
            stage |-> x.stage, pos |-> x.pos, limit |-> x.limit,
            synced |-> x.synced, ks |-> ks, remaining |-> r,
            mac |-> mac, fed |-> x.fed, eof |-> x.eof, hasher |-> x.hasher,
            raw |-> x.raw, seen |-> x.seen, failed |-> x.failed]
  BY <1>1, <1>2, <1>5 DEF IsFile
<1>7. IsFile(y)
  BY <1>1, <1>3, <1>4, <1>6 DEF IsFile
<1>8. SameReader(y, z) /\ y.pos = x.pos /\ y.limit = x.limit
      /\ y.remaining = r /\ y.mac = mac /\ y.ks = ks
  BY <1>1, <1>6 DEF SameReader
<1> QED
  BY <1>1, <1>3, <1>7, <1>8 DEF y, x, r, mac, cells

\* The reader behind the authentication code, if there is one.
LEMMA AfterAuthCodeFields ==
    ASSUME NEW z, IsFile(z), IsSeq(disk)
    PROVE  LET y == AfterAuthCode(z) IN
           /\ IsFile(y) /\ SameReader(y, z)
           /\ y.remaining = z.remaining /\ y.mac = z.mac
           /\ \E k \in Nat : k <= z.limit /\ y.pos = z.pos + k /\ y.limit = z.limit - k
<1> DEFINE rest == Max({0, Len(disk) - z.pos})
           k    == Available(z, AUTH_CODE_LENGTH)
<1>1. z.limit \in Nat /\ z.pos \in Nat /\ Len(disk) \in Nat
  BY LenIsNat DEF IsFile
<1>2. rest \in Nat
  <2>1. Len(disk) - z.pos \in Int /\ 0 \in Int
    BY <1>1
  <2>2. rest = IF 0 >= Len(disk) - z.pos THEN 0 ELSE Len(disk) - z.pos
    BY <2>1, MaxOfTwo
  <2> HIDE DEF rest
  <2> QED
    BY <1>1, <2>2
<1>3. k = Min({1, z.limit, rest})
  BY DEF Available, AUTH_CODE_LENGTH
<1> HIDE DEF rest, k
<1>4. k \in Nat /\ k <= z.limit
  <2>1. 1 \in Int /\ z.limit \in Int /\ rest \in Int
    BY <1>1, <1>2
  <2>2. k \in {1, z.limit, rest} /\ k <= z.limit
    BY <1>3, <2>1, MinOfThree
  <2> QED
    BY <1>1, <1>2, <2>2
<1>5. AfterAuthCode(z) = Taken(z, k)
  BY DEF AfterAuthCode, k
<1> QED
  BY <1>4, <1>5, TakenFields

LEMMA AesReadDelivers ==
    ASSUME NEW f, NEW z, Reading(f, z), z.crypto = "aes",
           f.encrypted, f.aes # "none",
           NEW g, IsSeq(g), AesOK(disk, f, z, g),
           NEW n \in Nat, NEW o \in AesRead(z, n)
    PROVE  Delivers(f, z, g, n, o)
<1> DEFINE raw   == Data(disk, f)
           p     == Start(disk, f)
           clear == ClearOf(f, raw)
           dl    == DataLength(f)
<1>1. IsFile(z) /\ Located(disk, f, z) /\ dl \in Nat
  BY DataLengthIsNat DEF Reading
<1>2. CASE z.remaining = 0
  <2>1. o = Outcome(z, << >>, TRUE)
    BY <1>2 DEF AesRead
  <2>2. o.z = z /\ o.out = << >> /\ o.ok = TRUE
    BY <2>1 DEF Outcome
  <2>3. g \o << >> = g
    BY ConcatNothing
  <2>4. Exhausted(disk, z)
    BY <1>2 DEF Exhausted
  <2>5. InputOK(disk, f, short_reads, z, g)
    BY DEF InputOK, PlainOK, ZipCryptoOK
  <2>6. SameReader(z, z) /\ IsSeq(<< >>) /\ Len(<< >>) = 0
    BY EmptyIsSeq DEF SameReader
  <2>7. \A j \in 1..Len(<< >>) : IsData(<< >>[j])
    BY <2>6
  <2> QED
    BY <1>1, <2>2, <2>3, <2>4, <2>5, <2>6, <2>7 DEF Delivers
<1>3. CASE z.remaining # 0
  <2> DEFINE Cells(k) == Region(disk, z.pos, k)
             Read(k)  == AesReadOn(z, k)
             Out(k)   == AesDecrypted(z, Cells(k))
             want     == BytesToRead(z, n)
             m        == Len(z.mac)
  <2>1. PICK k \in Delivered(z, want) :
          o = IF Read(k).remaining > 0 THEN Outcome(Read(k), Out(k), TRUE)
              ELSE IF AuthCodeMatches(Read(k))
                THEN Outcome(AfterAuthCode(Read(k)), Out(k), TRUE)
                ELSE Outcome(AfterAuthCode(Read(k)), << >>, FALSE)
    BY <1>3 DEF AesRead, AesReadOn
  <2> DEFINE cells == Cells(k)
             y     == Read(k)
             out   == Out(k)
             go    == g \o out
  <2>2. /\ z.remaining \in Nat /\ z.pos \in Nat /\ z.limit \in Nat
        /\ IsSeq(z.mac) /\ m \in Nat /\ KeyStreamOK(z.ks)
        /\ IsSeq(raw) /\ Len(raw) \in Nat /\ p \in Nat /\ Len(g) \in Nat
    BY <1>1, Positions, DataCells, LenIsNat DEF IsFile, Reading, Located
  <2>3. /\ want \in Nat /\ want <= z.remaining /\ want <= n
        /\ want = 0 => n = 0
    <3>1. want = IF z.remaining <= n THEN z.remaining ELSE n
      <4>1. z.remaining \in Int /\ n \in Int
        BY <2>2
      <4> QED
        BY <4>1, MinOfTwo DEF BytesToRead
    <3> HIDE DEF want
    <3> QED
      BY <1>3, <2>2, <3>1
  <2> HIDE DEF want
  <2>4. /\ k \in Nat /\ k <= want /\ k <= z.limit
        /\ k = 0 => want = 0 \/ Dry(disk, z)
        /\ Dry(disk, z) => k = 0
    <3>1. IsSeq(disk)
      BY Positions
    <3>2. /\ k \in 0..want /\ k <= z.limit
          /\ k = 0 => want = 0 \/ Dry(disk, z)
          /\ Dry(disk, z) => k = 0
      BY <2>2, <2>3, <3>1, DeliveredBounds
    <3> QED
      BY <2>3, <3>2
  <2>5. /\ z.password = "right" => Begins(g, clear)
        /\ Len(g) = m /\ Used(z.ks) = m /\ z.pos = p + 2 + m
        /\ m + z.remaining = dl /\ 2 + m <= Len(raw)
        /\ \A j \in 1..m : z.mac[j] = raw[j + 2]
    BY <1>3, <2>2 DEF AesOK
  <2>6. /\ IsSeq(cells) /\ Len(cells) = k
        /\ k > 0 => z.pos - p + k <= Len(raw)
        /\ \A j \in 1..k : cells[j] = raw[z.pos - p + j] /\ IsCell(cells[j])
    BY <2>3, NextCells
  <2> HIDE DEF raw, p, clear, dl, m, cells
  <2>7. z.pos - p = 2 + m
    BY <2>2, <2>5
  <2>8. /\ 2 + m + k <= Len(raw) /\ m + k <= dl
        /\ \A j \in 1..k : cells[j] = raw[2 + m + j] /\ IsCell(cells[j])
    <3>1. k <= z.remaining /\ m + z.remaining = dl
      BY <2>2, <2>3, <2>4, <2>5
    <3>2. m + k <= dl
      BY <1>1, <2>2, <2>4, <3>1
    <3>3. 2 + m + k <= Len(raw)
      <4>1. CASE k = 0
        BY <2>2, <2>5, <4>1
      <4>2. CASE k # 0
        BY <2>2, <2>4, <2>6, <2>7, <4>2
      <4> QED
        BY <4>1, <4>2
    <3>4. \A j \in 1..k : cells[j] = raw[2 + m + j] /\ IsCell(cells[j])
      BY <2>6, <2>7
    <3> QED
      BY <3>2, <3>3, <3>4
  <2>9. AesClears(f, raw, z, m, k, out)
    <3>1. AesReads(f, raw, z, m, k, cells)
      BY <1>1, <2>2, <2>4, <2>5, <2>6, <2>8 DEF AesReads, dl
    <3>2. AesClears(f, raw, z, m, k, AesDecrypted(z, cells))
      BY <3>1, AesCells
    <3> QED
      BY <3>2 DEF cells
  <2>10. /\ IsSeq(out) /\ Len(out) = k /\ \A j \in 1..k : IsData(out[j])
         /\ m + k <= Len(clear)
         /\ z.password = "right" => \A j \in 1..k : out[j] = clear[m + j]
    BY <2>9, SMTT(30) DEF AesClears, clear
  <2>11. /\ IsFile(y) /\ SameReader(y, z)
         /\ y.pos = z.pos + k /\ y.limit = z.limit - k
         /\ y.remaining = z.remaining - k
         /\ y.mac = z.mac \o cells
         /\ Used(y.ks) = Used(z.ks) + k
    <3>1. k <= z.remaining /\ IsSeq(Region(disk, z.pos, k))
      BY <2>2, <2>3, <2>4, <2>6 DEF cells
    <3> QED
      BY <1>1, <2>4, <3>1, AesReadFields DEF cells
  <2> HIDE DEF y, out
  <2>12. Located(disk, f, y) /\ (Dry(disk, z) => Dry(disk, y))
    BY <2>4, <2>11, MovedOn
  <2>13. z.password = "right" => Begins(go, clear)
    <3> SUFFICES ASSUME z.password = "right" PROVE Begins(go, clear)
      OBVIOUS
    <3>1. Begins(g, clear) /\ Len(g) + Len(out) <= Len(clear)
      BY <2>5, <2>10
    <3>2. \A j \in 1..Len(out) : out[j] = clear[Len(g) + j]
      BY <2>5, <2>10
    <3> QED
      BY <2>10, <3>1, <3>2, BeginsExtend
  <2>14. IsSeq(go) /\ Len(go) = m + k
    <3>1. IsSeq(g) /\ IsSeq(out)
      BY <2>10
    <3>2. IsSeq(g \o out) /\ Len(g \o out) = Len(g) + Len(out)
      BY <3>1, ConcatIsSeq
    <3> QED
      BY <2>5, <2>10, <3>2
  <2> HIDE DEF go
  <2>15. out = << >> => n = 0 \/ Exhausted(disk, z)
    <3>1. out = << >> => k = 0
      BY <2>10, EmptyIffNoLength
    <3> QED
      BY <2>3, <2>4, <3>1 DEF Exhausted
  <2>16. Exhausted(disk, z) => Dry(disk, y) /\ out = << >> /\ y.remaining > 0
    <3> SUFFICES ASSUME Exhausted(disk, z)
                 PROVE  Dry(disk, y) /\ out = << >> /\ y.remaining > 0
      OBVIOUS
    <3>1. Dry(disk, z)
      BY <1>3 DEF Exhausted
    <3>2. k = 0
      BY <2>4, <3>1
    <3>3. out = << >>
      BY <2>10, <3>2, EmptyIffNoLength
    <3>4. y.remaining > 0
      BY <1>3, <2>2, <2>11, <3>2
    <3> QED
      BY <2>12, <3>1, <3>3, <3>4
  <2>17. CASE y.remaining > 0
    <3>1. o.z = y /\ o.out = out /\ o.ok = TRUE
      BY <2>1, <2>17 DEF Outcome, y, out, cells
    <3>2. AesOK(disk, f, y, go)
      <4>1. /\ Len(go) = Len(y.mac) /\ Used(y.ks) = Len(y.mac)
            /\ Len(y.mac) = m + k
        <5>1. Len(z.mac) = m /\ IsSeq(z.mac) /\ IsSeq(cells)
          BY <2>2, <2>6 DEF m
        <5>2. Len(y.mac) = Len(z.mac) + Len(cells)
          BY <2>11, <5>1, ConcatIsSeq
        <5>3. Len(y.mac) = m + k
          BY <2>6, <5>1, <5>2
        <5> QED
          BY <2>5, <2>11, <2>14, <5>3
      <4>2. /\ y.pos = p + 2 + Len(y.mac) /\ Len(y.mac) + y.remaining = dl
            /\ 2 + Len(y.mac) <= Len(raw)
        <5>1. /\ Len(y.mac) = m + k /\ y.pos = z.pos + k
              /\ y.remaining = z.remaining - k
          BY <2>11, <4>1
        <5>2. /\ z.pos = p + 2 + m /\ m + z.remaining = dl
              /\ 2 + m + k <= Len(raw)
          BY <2>5, <2>8
        <5>3. /\ m \in Nat /\ k \in Nat /\ p \in Nat /\ z.pos \in Nat
              /\ z.remaining \in Nat
          BY <2>2, <2>4
        <5> QED
          BY <5>1, <5>2, <5>3
      <4>3. \A j \in 1..m + k : y.mac[j] = raw[j + 2]
        <5>1. IsSeq(z.mac) /\ IsSeq(cells) /\ Len(z.mac) = m /\ Len(cells) = k
          BY <2>2, <2>6 DEF m
        <5>2. \A j \in 1..m + k :
                y.mac[j] = IF j <= m THEN z.mac[j] ELSE cells[j - m]
          <6>1. \A j \in 1..Len(z.mac) + Len(cells) : (z.mac \o cells)[j] =
                  IF j <= Len(z.mac) THEN z.mac[j] ELSE cells[j - Len(z.mac)]
            BY <5>1, ConcatCells
          <6>2. y.mac = z.mac \o cells /\ Len(z.mac) = m /\ Len(cells) = k
            BY <2>11, <5>1
          <6> QED
            BY <6>1, <6>2
        <5> SUFFICES ASSUME NEW j \in 1..m + k PROVE y.mac[j] = raw[j + 2]
          OBVIOUS
        <5>3. CASE j <= m
          BY <2>2, <2>4, <2>5, <5>2, <5>3
        <5>4. CASE ~(j <= m)
          <6> DEFINE i == j - m
          <6>1. i \in 1..k /\ 2 + m + i = j + 2
            BY <2>2, <2>4, <5>4
          <6>2. y.mac[j] = cells[i]
            BY <5>2, <5>4
          <6> HIDE DEF i
          <6>3. cells[i] = raw[2 + m + i]
            BY <2>8, <6>1
          <6> QED
            BY <6>1, <6>2, <6>3
        <5> QED
          BY <5>3, <5>4
      <4> QED
        BY <2>11, <2>13, <2>17, <4>1, <4>2, <4>3
        DEF AesOK, SameReader, raw, p, clear, dl
    <3>3. InputOK(disk, f, short_reads, y, go)
      BY <2>11, <3>2 DEF InputOK, PlainOK, ZipCryptoOK, SameReader
    <3>4. Dry(disk, y) => Exhausted(disk, y)
      BY DEF Exhausted
    <3>5. \A j \in 1..Len(out) : IsData(out[j])
      BY <2>10
    <3> QED
      BY <2>10, <2>11, <2>12, <2>15, <2>16, <3>1, <3>3, <3>4, <3>5, Zenon
      DEF Delivers, go
  <2>18. CASE ~(y.remaining > 0)
    <3> DEFINE w == AfterAuthCode(y)
    <3>1. y.remaining = 0 /\ k = z.remaining
      BY <2>2, <2>3, <2>4, <2>11, <2>18
    <3>2. /\ IsFile(w) /\ SameReader(w, y) /\ w.remaining = 0
          /\ \E l \in Nat : l <= y.limit /\ w.pos = y.pos + l /\ w.limit = y.limit - l
      BY <2>11, <3>1, Positions, AfterAuthCodeFields
    <3> HIDE DEF w
    <3>3. Located(disk, f, w)
      <4>1. Reading(f, y)
        BY <2>11, <2>12 DEF Reading
      <4> QED
        BY <3>2, <4>1, MovedOn
    <3>4. SameReader(w, z)
      BY <2>11, <3>2 DEF SameReader
    <3>5. ~Exhausted(disk, z)
      BY <2>16, <2>18
    <3>6. CASE AuthCodeMatches(y)
      <4>1. o.z = w /\ o.out = out /\ o.ok = TRUE
        BY <2>1, <2>18, <3>6 DEF Outcome, y, out, cells, w
      <4>2. y.password = "right"
        BY <3>6 DEF AuthCodeMatches
      <4>3. w.password = "right" /\ z.password = "right"
        BY <2>11, <3>2, <4>2 DEF SameReader
      <4>4. go = clear
        <5>1. Begins(go, clear)
          BY <2>13, <4>3
        <5>2. Len(clear) <= dl /\ Len(clear) \in Nat
          <6>1. 2 <= Len(raw)
            BY <2>2, <2>4, <2>8
          <6>2. IsSeq(clear) /\ Len(clear) <= dl
            BY <1>1, <2>2, <6>1, AesClear DEF clear, dl
          <6> QED
            BY <6>2, LenIsNat
        <5>3. Len(go) = dl
          BY <2>5, <2>14, <3>1
        <5>4. Len(go) = Len(clear)
          BY <1>1, <5>1, <5>2, <5>3 DEF Begins
        <5> QED
          BY <5>1, <5>4, BeginsIsPrefix
      <4>5. AesOK(disk, f, w, go)
        BY <2>13, <3>2, <4>3, <4>4 DEF AesOK, raw, clear
      <4>6. InputOK(disk, f, short_reads, w, go)
        BY <3>4, <4>5 DEF InputOK, PlainOK, ZipCryptoOK, SameReader
      <4>7. \A j \in 1..Len(out) : IsData(out[j])
        BY <2>10
      <4> QED
        BY <2>10, <2>15, <3>2, <3>3, <3>4, <3>5, <4>1, <4>6, <4>7, Zenon
        DEF Delivers, go
    <3>7. CASE ~AuthCodeMatches(y)
      <4>1. o.z = w /\ o.out = << >> /\ o.ok = FALSE
        BY <2>1, <2>18, <3>7 DEF Outcome, y, w
      <4> DEFINE e == Failed(w)
      <4>2. e.password = z.password /\ e.crypto = "aes" /\ e.remaining = 0 /\ e.failed = TRUE
        BY <3>2, <3>4 DEF Failed, IsFile, SameReader
      <4> HIDE DEF e
      <4>3. AesOK(disk, f, e, g)
        BY <2>5, <4>2 DEF AesOK, raw, clear
      <4>4. InputOK(disk, f, short_reads, e, g)
        BY <4>2, <4>3 DEF InputOK, PlainOK, ZipCryptoOK
      <4>5. IsSeq(<< >>) /\ \A j \in 1..Len(<< >>) : IsData(<< >>[j])
        BY EmptyIsSeq
      <4> QED
        BY <3>2, <3>3, <3>4, <3>5, <4>1, <4>4, <4>5 DEF Delivers, e
    <3> QED
      BY <3>6, <3>7
  <2> QED
    BY <2>17, <2>18
<1> QED
  BY <1>2, <1>3

-----------------------------------------------------------------------------
(***************************************************************************)
(* What decoders make of their input.                                      *)
(***************************************************************************)
\* The parts put together are vectors, and each begins the next.
LEMMA FlatGrows ==
    ASSUME NEW n \in Nat, NEW v, \A i \in 1..n : IsSeq(v[i]),
           NEW flat, IsFlat(flat, v, n)
    PROVE  \A i \in 1..n : IsSeq(flat[i]) /\ \A j \in 1..i : Begins(flat[j], flat[i])
<1> DEFINE Good(i) == IsSeq(flat[i]) /\ \A j \in 1..i : Begins(flat[j], flat[i])
           S == {m \in Nat : \A i \in 1..n : i <= m => Good(i)}
<1>0. \A s : IsSeq(s) => Begins(s, s)
  BY LenIsNat DEF Begins
<1>1. 0 \in S
  OBVIOUS
<1>2. ASSUME NEW m \in Nat, m \in S PROVE m + 1 \in S
  <2>1. \A i \in 1..n : i <= m => Good(i)
    BY <1>2
  <2> SUFFICES ASSUME m + 1 <= n PROVE Good(m + 1)
    BY <2>1
  <2> DEFINE k == m + 1
  <2>2. k \in 1..n /\ k - 1 = m
    OBVIOUS
  <2>3. CASE m = 0
    <3>1. flat[k] = v[k] /\ k = 1
      BY <2>2, <2>3 DEF IsFlat
    <3> HIDE DEF k
    <3> QED
      BY <1>0, <2>2, <3>1 DEF k
  <2>4. CASE m # 0
    <3> HIDE DEF k
    <3>1. flat[k] = flat[m] \o v[k]
      <4>1. k # 1
        BY <2>2, <2>4
      <4>2. flat[k] = flat[k - 1] \o v[k]
        BY <2>2, <4>1 DEF IsFlat
      <4> QED
        BY <2>2, <4>2
    <3>2. IsSeq(flat[m]) /\ IsSeq(v[k]) /\ \A j \in 1..m : Begins(flat[j], flat[m])
      <4>1. m \in 1..n /\ m <= m
        BY <2>2, <2>4
      <4> QED
        BY <2>1, <2>2, <4>1
    <3>3. IsSeq(flat[k]) /\ Begins(flat[m], flat[k])
      <4> DEFINE s == flat[m]
                 t == v[k]
      <4>1. IsSeq(s) /\ IsSeq(t)
        BY <3>2
      <4> HIDE DEF s, t
      <4>2. IsSeq(s \o t) /\ Len(s \o t) = Len(s) + Len(t)
        BY <4>1, ConcatIsSeq
      <4>3. Len(s) \in Nat /\ Len(t) \in Nat
        BY <4>1, LenIsNat
      <4>4. \A j \in 1..Len(s) + Len(t) :
              (s \o t)[j] = IF j <= Len(s) THEN s[j] ELSE t[j - Len(s)]
        BY <4>1, ConcatCells
      <4>5. \A j \in 1..Len(s) : s[j] = (s \o t)[j]
        BY <4>3, <4>4
      <4>6. Begins(s, s \o t)
        BY <4>1, <4>2, <4>3, <4>5 DEF Begins
      <4> QED
        BY <3>1, <4>2, <4>6 DEF s, t
    <3>4. ASSUME NEW j \in 1..k PROVE Begins(flat[j], flat[k])
      <4>1. CASE j = k
        BY <1>0, <3>3, <4>1
      <4>2. CASE j # k
        <5>1. j \in 1..m
          BY <2>2, <4>2
        <5>2. Begins(flat[j], flat[m])
          BY <3>2, <5>1
        <5> QED
          BY <3>3, <5>2, BeginsOn
      <4> QED
        BY <4>1, <4>2
    <3> QED
      BY <3>3, <3>4 DEF k
  <2> QED
    BY <2>3, <2>4
<1> HIDE DEF S, Good
<1>3. n \in S
  BY <1>1, <1>2, Induction
<1>4. ASSUME NEW i \in 1..n PROVE Good(i)
  BY <1>3 DEF S
<1> QED
  BY <1>4 DEF Good

LEMMA FlattenBegins ==
    ASSUME NEW n \in Nat, NEW m \in Nat, n <= m,
           NEW v, v = [i \in 1..n |-> v[i]], NEW w, w = [i \in 1..m |-> w[i]],
           \A i \in 1..m : IsSeq(w[i]), \A i \in 1..n : v[i] = w[i]
    PROVE  Begins(FlattenSeq(v), FlattenSeq(w))
<1>1. IsSeq(v) /\ Len(v) = n /\ IsSeq(w) /\ Len(w) = m
  BY FunctionIsSeq
<1>2. IsSeq(FlattenSeq(w))
  <2>1. CASE m = 0
    BY <1>1, <2>1 DEF FlattenSeq
  <2>2. CASE m # 0
    <3>1. PICK all : IsFlat(all, w, m) /\ FlattenSeq(w) = all[m]
      BY <2>2, FlattenIsFlat
    <3>2. IsSeq(all[m])
      BY <2>2, <3>1, FlatGrows
    <3> QED
      BY <3>1, <3>2
  <2> QED
    BY <2>1, <2>2
<1>3. CASE n = 0
  <2>1. FlattenSeq(v) = v /\ v = << >>
    BY <1>1, <1>3, EmptyIffNoLength DEF FlattenSeq
  <2> QED
    BY <1>2, <2>1, EmptyBegins
<1>4. CASE n # 0
  <2>1. PICK flat : IsFlat(flat, v, n) /\ FlattenSeq(v) = flat[n]
    BY <1>4, FlattenIsFlat
  <2>2. PICK all : IsFlat(all, w, m) /\ FlattenSeq(w) = all[m]
    <3>1. m \in Nat \ {0}
      BY <1>4
    <3> QED
      BY <3>1, FlattenIsFlat
  <2>3. flat[n] = all[n]
    <3>1. n \in 1..n
      BY <1>4
    <3>2. FlatsOf(n, v, flat, m, w, all)
      BY <2>1, <2>2 DEF FlatsOf
    <3>3. \A i \in 1..n : flat[i] = all[i]
      BY <3>2, FlatAgree
    <3> QED
      BY <3>1, <3>3
  <2>4. Begins(all[n], all[m])
    <3>1. m \in 1..m /\ n \in 1..m
      BY <1>4
    <3> QED
      BY <2>2, <3>1, FlatGrows
  <2> QED
    BY <2>1, <2>2, <2>3, <2>4
<1> QED
  BY <1>3, <1>4

\* Decodable is the length of the longest beginning that is all blocks.
LEMMA DecodableCells ==
    ASSUME NEW f, NEW s, IsSeq(s)
    PROVE  /\ Decodable(f, s) \in 0..Len(s)
           /\ \A i \in 1..Decodable(f, s) : IsBlock(f, s[i])
           /\ Decodable(f, s) < Len(s) => ~IsBlock(f, s[Decodable(f, s) + 1])
<1> DEFINE I   == {i \in 1..Len(s) : ~IsBlock(f, s[i])}
           bad == IF I # {} THEN Min(I) ELSE 0
           d   == IF bad = 0 THEN Len(s) ELSE bad - 1
<1>1. Decodable(f, s) = d
  BY DEF Decodable, SelectInSeq
<1>2. Len(s) \in Nat
  BY LenIsNat
<1>3. CASE I = {}
  <2>1. d = Len(s)
    BY <1>3
  <2> HIDE DEF d
  <2> QED
    BY <1>1, <1>2, <1>3, <2>1
<1>4. CASE I # {}
  <2>1. \E m \in I : \A i \in I : m <= i
    <3>1. I \subseteq Nat
      BY <1>2
    <3> HIDE DEF I
    <3> QED
      BY <1>4, <3>1, SmallestNat
  <2>2. bad \in I /\ \A i \in I : bad <= i
    BY <1>4, <2>1 DEF Min
  <2> HIDE DEF bad
  <2>3. bad \in 1..Len(s) /\ ~IsBlock(f, s[bad])
    BY <2>2
  <2>4. d = bad - 1
    BY <2>3
  <2> HIDE DEF d
  <2>5. d \in 0..Len(s) /\ d + 1 = bad
    BY <1>2, <2>3, <2>4
  <2>6. ASSUME NEW i \in 1..d PROVE IsBlock(f, s[i])
    <3>1. i \in 1..Len(s) /\ ~(bad <= i)
      BY <1>2, <2>3, <2>4
    <3> QED
      BY <2>2, <3>1
  <2> QED
    BY <1>1, <2>3, <2>5, <2>6
<1> QED
  BY <1>3, <1>4

\* A decoder that is fed more goes on from what it has made of the beginning.
LEMMA DecodedBegins ==
    ASSUME NEW f, f.method # "stored", NEW s, NEW t, Begins(s, t),
           \A j \in 1..Len(t) : IsData(t[j])
    PROVE  Begins(Decoded(f, s), Decoded(f, t))
<1> DEFINE n == Decodable(f, s)
           m == Decodable(f, t)
           v == [i \in 1..n |-> s[i][3]]
           w == [i \in 1..m |-> t[i][3]]
<1>1. /\ IsSeq(s) /\ IsSeq(t) /\ Len(s) <= Len(t)
      /\ \A j \in 1..Len(s) : s[j] = t[j]
  BY DEF Begins
<1>2. Len(s) \in Nat /\ Len(t) \in Nat
  BY <1>1, LenIsNat
<1>3. /\ n \in 0..Len(s) /\ \A i \in 1..n : IsBlock(f, s[i])
  BY <1>1, DecodableCells
<1>4. /\ m \in 0..Len(t) /\ \A i \in 1..m : IsBlock(f, t[i])
      /\ m < Len(t) => ~IsBlock(f, t[m + 1])
  BY <1>1, DecodableCells
<1>5. Decoded(f, s) = FlattenSeq(v) /\ Decoded(f, t) = FlattenSeq(w)
  BY DEF Decoded
<1>6. v = [i \in 1..n |-> v[i]] /\ w = [i \in 1..m |-> w[i]]
  OBVIOUS
<1>7. (\A i \in 1..n : v[i] = s[i][3]) /\ (\A i \in 1..m : w[i] = t[i][3])
  OBVIOUS
<1> HIDE DEF n, m, v, w
<1>8. n <= m
  <2> SUFFICES ASSUME ~(n <= m) PROVE FALSE
    OBVIOUS
  <2> DEFINE k == m + 1
  <2>1. k \in 1..n /\ k \in 1..Len(s) /\ m < Len(t)
    BY <1>1, <1>2, <1>3, <1>4
  <2>2. ~IsBlock(f, t[k])
    BY <1>4, <2>1
  <2> HIDE DEF k
  <2>3. IsBlock(f, s[k]) /\ s[k] = t[k]
    BY <1>1, <1>3, <2>1
  <2> QED
    BY <2>2, <2>3
<1>9. \A i \in 1..m : IsSeq(w[i])
  <2> SUFFICES ASSUME NEW i \in 1..m PROVE IsSeq(w[i])
    OBVIOUS
  <2>1. i \in 1..Len(t)
    BY <1>2, <1>4
  <2>2. IsData(t[i]) /\ IsBlock(f, t[i])
    BY <1>4, <2>1
  <2> QED
    BY <1>7, <2>2 DEF IsData, IsBlock
<1>10. \A i \in 1..n : v[i] = w[i]
  <2> SUFFICES ASSUME NEW i \in 1..n PROVE v[i] = w[i]
    OBVIOUS
  <2>1. i \in 1..Len(s) /\ i \in 1..m
    BY <1>2, <1>3, <1>4, <1>8
  <2> QED
    BY <1>1, <1>7, <2>1
<1>11. n \in Nat /\ m \in Nat
  BY <1>2, <1>3, <1>4
<1>12. Begins(FlattenSeq(v), FlattenSeq(w))
  BY <1>6, <1>8, <1>9, <1>10, <1>11, FlattenBegins
<1> QED
  BY <1>5, <1>12

LEMMA DecodedIsSeq ==
    ASSUME NEW f, f.method # "stored", NEW s, IsSeq(s),
           \A j \in 1..Len(s) : IsData(s[j])
    PROVE  IsSeq(Decoded(f, s))
<1>1. Begins(s, s)
  BY LenIsNat DEF Begins
<1>2. Begins(Decoded(f, s), Decoded(f, s))
  BY <1>1, DecodedBegins
<1> QED
  BY <1>2 DEF Begins

-----------------------------------------------------------------------------
(***************************************************************************)
(* A read through any cipher, and one that fails.                          *)
(***************************************************************************)
LEMMA CryptoReadDelivers ==
    ASSUME NEW f, NEW z, Reading(f, z), KindOK(f, z),
           NEW g, IsSeq(g), InputOK(disk, f, short_reads, z, g),
           NEW n \in Nat, NEW o \in CryptoRead(z, n)
    PROVE  Delivers(f, z, g, n, o)
<1>1. z.crypto \in {"plain", "zipcrypto", "aes"}
  BY DEF Reading, IsFile
<1>2. CASE z.crypto = "plain"
  <2>1. o \in PlainRead(z, n) /\ PlainOK(disk, f, z, g)
    BY <1>2 DEF CryptoRead, InputOK
  <2> QED
    BY <1>2, <2>1, PlainReadDelivers
<1>3. CASE z.crypto = "zipcrypto"
  <2>1. o \in ZipCryptoRead(z, n) /\ f.encrypted /\ f.aes = "none"
    BY <1>3 DEF CryptoRead, KindOK
  <2>2. ~short_reads => ZipCryptoOK(disk, f, z, g)
    BY DEF InputOK
  <2> QED
    BY <1>3, <2>1, <2>2, ZipCryptoReadDelivers
<1>4. CASE z.crypto = "aes"
  <2>1. o \in AesRead(z, n) /\ f.encrypted /\ f.aes # "none"
    BY <1>4 DEF CryptoRead, KindOK
  <2>2. AesOK(disk, f, z, g)
    BY DEF InputOK
  <2> QED
    BY <1>4, <2>1, <2>2, AesReadDelivers
<1> QED
  BY <1>1, <1>2, <1>3, <1>4

\* What was passed on stays so however the file above is used, and once a read
\* has failed less of it matters.
LEMMA InputKept ==
    ASSUME NEW d, NEW f, NEW s, NEW z, NEW g, InputOK(d, f, s, z, g),
           NEW y, SameInput(y, z), y.failed = TRUE \/ y.failed = z.failed
    PROVE  /\ InputOK(d, f, s, y, g)
           /\ Located(d, f, z) => Located(d, f, y)
           /\ Exhausted(d, z) => Exhausted(d, y)
           /\ Dry(d, z) => Dry(d, y)
<1>1. Dry(d, z) <=> Dry(d, y)
  BY DEF Dry, SameInput
<1>2. PlainOK(d, f, y, g)
  BY DEF InputOK, PlainOK, SameInput
<1>3. ~s => ZipCryptoOK(d, f, y, g)
  BY <1>1 DEF InputOK, ZipCryptoOK, SameInput
<1>4. AesOK(d, f, y, g)
  BY DEF InputOK, AesOK, SameInput
<1> QED
  BY <1>1, <1>2, <1>3, <1>4 DEF InputOK, Located, Exhausted, SameInput

\* A read that leaves nothing of the data to AES had all that was left.
LEMMA LastOfTheData ==
    ASSUME NEW z, IsFile(z), z.remaining # 0, NEW n \in Nat,
           IsSeq(disk), NEW o \in AesRead(z, n), o.z.remaining = 0
    PROVE  z.remaining <= z.limit
<1> DEFINE Read(k)  == AesReadOn(z, k)
           Out(k)   == AesDecrypted(z, Region(disk, z.pos, k))
           want     == BytesToRead(z, n)
<1>1. PICK k \in Delivered(z, want) :
        o = IF Read(k).remaining > 0 THEN Outcome(Read(k), Out(k), TRUE)
            ELSE IF AuthCodeMatches(Read(k))
              THEN Outcome(AfterAuthCode(Read(k)), Out(k), TRUE)
              ELSE Outcome(AfterAuthCode(Read(k)), << >>, FALSE)
  BY DEF AesRead, AesReadOn
<1>2. /\ want \in Nat /\ want <= z.remaining
      /\ z.remaining \in Nat /\ z.limit \in Nat /\ z.pos \in Nat
  <2>1. z.remaining \in Nat /\ z.limit \in Nat /\ z.pos \in Nat
    BY DEF IsFile
  <2>2. z.remaining \in Int /\ n \in Int
    BY <2>1
  <2>3. want = IF z.remaining <= n THEN z.remaining ELSE n
    BY <2>2, MinOfTwo DEF BytesToRead
  <2> HIDE DEF want
  <2> QED
    BY <2>1, <2>3
<1> HIDE DEF want
<1>3. k \in Nat /\ k <= want /\ k <= z.limit
  <2>1. k \in 0..want /\ k <= z.limit
    BY <1>2, DeliveredBounds
  <2> QED
    BY <1>2, <2>1
<1> DEFINE y == Read(k)
<1>4. IsSeq(Region(disk, z.pos, k))
  BY <1>2, <1>3, RegionCells
<1>5. IsFile(y) /\ y.remaining = z.remaining - k
  <2>1. k <= z.remaining
    BY <1>2, <1>3
  <2> QED
    BY <1>3, <1>4, <2>1, AesReadFields
<1>6. y.remaining = 0
  <2>1. CASE y.remaining > 0
    <3>1. o.z = y
      BY <1>1, <2>1 DEF Outcome
    <3> QED
      BY <3>1
  <2>2. CASE ~(y.remaining > 0)
    <3>1. o.z = AfterAuthCode(y)
      BY <1>1, <2>2 DEF Outcome
    <3>2. AfterAuthCode(y).remaining = y.remaining
      BY <1>5, AfterAuthCodeFields
    <3> QED
      BY <3>1, <3>2
  <2> QED
    BY <2>1, <2>2
<1> HIDE DEF y
<1> QED
  BY <1>2, <1>3, <1>5, <1>6

LEMMA CryptoReadFailsKeeps ==
    ASSUME NEW f, NEW z, Reading(f, z), KindOK(f, z),
           NEW g, IsSeq(g), InputOK(disk, f, short_reads, z, g),
           NEW n \in Nat, NEW y \in CryptoReadFails(z, n)
    PROVE  /\ IsFile(y) /\ SameReader(y, z) /\ Located(disk, f, y)
           /\ \A x : SameInput(x, y) /\ x.failed = TRUE =>
                InputOK(disk, f, short_reads, x, g)
<1>1. IsFile(z) /\ Located(disk, f, z) /\ z.crypto \in {"plain", "zipcrypto", "aes"}
  BY DEF Reading, IsFile
<1>2. ASSUME y = z
      PROVE  /\ SameReader(y, z)
             /\ \A x : SameInput(x, y) /\ x.failed = TRUE =>
                  InputOK(disk, f, short_reads, x, g)
  <2>1. SameReader(y, z)
    BY <1>2 DEF SameReader
  <2>2. ASSUME NEW x, SameInput(x, y), x.failed = TRUE
        PROVE  InputOK(disk, f, short_reads, x, g)
    BY <1>2, <2>2, InputKept
  <2> QED
    BY <2>1, <2>2
<1>3. CASE z.crypto = "plain"
  <2>1. y = z
    BY <1>3 DEF CryptoReadFails
  <2> QED
    BY <1>1, <1>2, <2>1
<1>4. CASE z.crypto = "zipcrypto"
  <2>1. y = [z EXCEPT !.synced = FALSE]
    BY <1>4 DEF CryptoReadFails
  <2>2. y = [index |-> z.index, crypto |-> z.crypto, password |-> z.password,
             stage |-> z.stage, pos |-> z.pos, limit |-> z.limit,
             synced |-> FALSE, ks |-> z.ks, remaining |-> z.remaining,
             mac |-> z.mac, fed |-> z.fed, eof |-> z.eof, hasher |-> z.hasher,
             raw |-> z.raw, seen |-> z.seen, failed |-> z.failed]
    BY <1>1, <2>1 DEF IsFile
  <2>3. IsFile(y)
    BY <1>1, <2>2 DEF IsFile
  <2>4. SameReader(y, z) /\ y.pos = z.pos /\ y.limit = z.limit
    BY <2>2 DEF SameReader
  <2>5. Located(disk, f, y)
    BY <1>1, <2>4 DEF Located
  <2>6. ASSUME NEW x, SameInput(x, y), x.failed = TRUE
        PROVE  InputOK(disk, f, short_reads, x, g)
    <3>1. x.crypto = "zipcrypto"
      BY <1>4, <2>4, <2>6 DEF SameInput, SameReader
    <3> QED
      BY <2>6, <3>1 DEF InputOK, PlainOK, AesOK, ZipCryptoOK
  <2> QED
    BY <2>3, <2>4, <2>5, <2>6
<1>5. CASE z.crypto = "aes"
  <2>1. z.remaining # 0 /\ n # 0
    <3>1. Min({z.limit, n}) # 0
      BY DEF CryptoReadFails
    <3>2. Min({z.limit, n}) = IF z.limit <= n THEN z.limit ELSE n
      <4>1. z.limit \in Int /\ n \in Int
        BY <1>1 DEF IsFile
      <4> QED
        BY <4>1, MinOfTwo
    <3>3. z.limit \in Nat
      BY <1>1 DEF IsFile
    <3>4. z.remaining # 0
      BY <1>5 DEF CryptoReadFails
    <3> QED
      BY <3>1, <3>2, <3>3, <3>4
  <2>2. CASE y = z
    BY <1>1, <1>2, <2>2
  <2>3. CASE y # z
    <3>1. PICK o \in AesRead(z, n) :
            /\ o.z.remaining = 0
            /\ y = [o.z EXCEPT !.pos = z.pos + z.remaining,
                               !.limit = z.limit - z.remaining]
      BY <1>5, <2>1, <2>3 DEF CryptoReadFails
    <3>2. IsFile(o.z) /\ SameReader(o.z, z)
      <4>1. o \in CryptoRead(z, n)
        BY <1>5 DEF CryptoRead
      <4> QED
        BY <4>1, CryptoReadDelivers DEF Delivers
    <3>3. z.remaining <= z.limit
      BY <1>1, <2>1, <3>1, Positions, LastOfTheData
    <3> DEFINE w == o.z
               pos == z.pos + z.remaining
               limit == z.limit - z.remaining
    <3>4. /\ z.pos \in Nat /\ z.limit \in Nat /\ z.remaining \in Nat
          /\ pos \in Nat /\ limit \in Nat /\ pos + limit = z.pos + z.limit
          /\ z.pos <= pos
      BY <1>1, <3>3 DEF IsFile
    <3> HIDE DEF w, pos, limit
    <3>5. y = [index |-> w.index, crypto |-> w.crypto, password |-> w.password,
               stage |-> w.stage, pos |-> pos, limit |-> limit,
               synced |-> w.synced, ks |-> w.ks, remaining |-> w.remaining,
               mac |-> w.mac, fed |-> w.fed, eof |-> w.eof, hasher |-> w.hasher,
               raw |-> w.raw, seen |-> w.seen, failed |-> w.failed]
      BY <3>1, <3>2 DEF IsFile, w, pos, limit
    <3>6. IsFile(y)
      BY <3>2, <3>4, <3>5 DEF IsFile, w
    <3>7. /\ SameReader(y, w) /\ y.pos = pos /\ y.limit = limit
          /\ y.remaining = w.remaining
      BY <3>5 DEF SameReader
    <3>8. SameReader(y, z) /\ y.remaining = 0
      BY <3>1, <3>2, <3>7 DEF SameReader, w
    <3>9. Located(disk, f, y)
      <4>1. Start(disk, f) \in Nat
        BY Positions
      <4> DEFINE p == Start(disk, f)
      <4>2. p <= z.pos /\ z.pos + z.limit = p + f.compressed_size
        BY <1>1 DEF Located
      <4> HIDE DEF p
      <4>3. p <= y.pos /\ y.pos + y.limit = p + f.compressed_size
        BY <3>4, <3>7, <4>1, <4>2 DEF p
      <4> QED
        BY <1>1, <4>3 DEF Located, p
    <3>10. ASSUME NEW x, SameInput(x, y), x.failed = TRUE
           PROVE  InputOK(disk, f, short_reads, x, g)
      <4>1. /\ x.crypto = "aes" /\ x.remaining = 0 /\ x.password = z.password
            /\ x.failed = TRUE
        BY <1>5, <3>8, <3>10 DEF SameInput, SameReader
      <4>2. z.password = "right" => Begins(g, ClearOf(f, Data(disk, f)))
        BY <1>5 DEF InputOK, AesOK
      <4> QED
        BY <4>1, <4>2 DEF InputOK, PlainOK, AesOK, ZipCryptoOK
    <3> QED
      BY <3>6, <3>8, <3>9, <3>10
  <2> QED
    BY <2>2, <2>3
<1> QED
  BY <1>1, <1>3, <1>4, <1>5

-----------------------------------------------------------------------------
(***************************************************************************)
(* The readers above the cipher: what their operations leave alone.        *)
(***************************************************************************)
\* The fields above the cipher but for those about the last read.
SameAbove(y, z) ==
    /\ y.index = z.index /\ y.stage = z.stage /\ y.fed = z.fed
    /\ y.hasher = z.hasher /\ y.raw = z.raw

LEMMA FailedFields ==
    ASSUME NEW z, IsFile(z)
    PROVE  LET y == Failed(z) IN
           /\ IsFile(y) /\ SameInput(y, z) /\ SameAbove(y, z)
           /\ y.eof = z.eof /\ y.seen = "error" /\ y.failed = TRUE
<1> DEFINE y == Failed(z)
<1>1. y = [z EXCEPT !.seen = "error", !.failed = TRUE]
  BY DEF Failed
<1> HIDE DEF y
<1>2. y = [index |-> z.index, crypto |-> z.crypto, password |-> z.password,
           stage |-> z.stage, pos |-> z.pos, limit |-> z.limit,
           synced |-> z.synced, ks |-> z.ks, remaining |-> z.remaining,
           mac |-> z.mac, fed |-> z.fed, eof |-> z.eof, hasher |-> z.hasher,
           raw |-> z.raw, seen |-> "error", failed |-> TRUE]
  BY <1>1 DEF IsFile
<1>3. IsFile(y)
  BY <1>2 DEF IsFile
<1> QED
  BY <1>2, <1>3 DEF SameAbove, SameInput, y

LEMMA EofResetFields ==
    ASSUME NEW z, IsFile(z)
    PROVE  LET y == [z EXCEPT !.eof = FALSE] IN
           /\ IsFile(y) /\ SameInput(y, z) /\ SameAbove(y, z)
           /\ y.eof = FALSE /\ y.seen = z.seen /\ y.failed = z.failed
<1> DEFINE y == [z EXCEPT !.eof = FALSE]
<1>1. y = [z EXCEPT !.eof = FALSE]
  OBVIOUS
<1> HIDE DEF y
<1>2. y = [index |-> z.index, crypto |-> z.crypto, password |-> z.password,
           stage |-> z.stage, pos |-> z.pos, limit |-> z.limit,
           synced |-> z.synced, ks |-> z.ks, remaining |-> z.remaining,
           mac |-> z.mac, fed |-> z.fed, eof |-> FALSE, hasher |-> z.hasher,
           raw |-> z.raw, seen |-> z.seen, failed |-> z.failed]
  BY <1>1 DEF IsFile
<1>3. IsFile(y)
  BY <1>2 DEF IsFile
<1> QED
  BY <1>2, <1>3 DEF SameAbove, SameInput, y

LEMMA DecodingFields ==
    ASSUME NEW z, IsFile(z)
    PROVE  LET y == Decoding(z) IN
           /\ IsFile(y) /\ SameInput(y, z) /\ y.index = z.index
           /\ y.stage = "decoding" /\ y.fed = z.fed /\ y.eof = z.eof
           /\ y.hasher = z.hasher /\ y.raw = z.raw /\ y.seen = z.seen
           /\ y.failed = z.failed
<1> DEFINE y == Decoding(z)
<1>1. y = [z EXCEPT !.stage = "decoding"]
  BY DEF Decoding
<1> HIDE DEF y
<1>2. y = [index |-> z.index, crypto |-> z.crypto, password |-> z.password,
           stage |-> "decoding", pos |-> z.pos, limit |-> z.limit,
           synced |-> z.synced, ks |-> z.ks, remaining |-> z.remaining,
           mac |-> z.mac, fed |-> z.fed, eof |-> z.eof, hasher |-> z.hasher,
           raw |-> z.raw, seen |-> z.seen, failed |-> z.failed]
  BY <1>1 DEF IsFile
<1>3. IsFile(y)
  BY <1>2 DEF IsFile
<1> QED
  BY <1>2, <1>3 DEF SameAbove, SameInput, y

\* Crc32Reader passes on what it is given, and the end only if the checksum is
\* right, or there is none.
PassedOn(f, z, n, out, y) ==
    /\ IsFile(y) /\ SameInput(y, z) /\ y.index = z.index
    /\ y.stage = z.stage /\ y.fed = z.fed /\ y.eof = z.eof /\ y.raw = z.raw
    /\ y.hasher = z.hasher \o out
    /\ y.failed = TRUE \/ y.failed = z.failed
    /\ y.seen = "end" =>
         /\ out = << >> /\ (n = 0 => z.seen = "end")
         /\ n # 0 => \/ z.crypto = "aes" /\ f.aes = "ae2"
                     \/ y.hasher = f.crc32

LEMMA CheckedFields ==
    ASSUME NEW f, NEW z, IsFile(z), f = Entry(z), NEW n \in Nat,
           NEW out, IsSeq(out)
    PROVE  PassedOn(f, z, n, out, Checked(z, n, out))
<1> USE DEF PassedOn
<1> DEFINE y == Checked(z, n, out)
           h == z.hasher \o out
<1>1. IsSeq(z.hasher)
  BY DEF IsFile
<1>2. IsSeq(h)
  BY <1>1, ConcatIsSeq
<1>3. out = << >> => h = z.hasher
  BY <1>1, ConcatNothing
<1> HIDE DEF h
<1>4. CASE out # << >>
  <2>1. y = [z EXCEPT !.hasher = h, !.seen = "data"]
    BY <1>4 DEF Checked, h
  <2> HIDE DEF y
  <2>2. y = [index |-> z.index, crypto |-> z.crypto, password |-> z.password,
             stage |-> z.stage, pos |-> z.pos, limit |-> z.limit,
             synced |-> z.synced, ks |-> z.ks, remaining |-> z.remaining,
             mac |-> z.mac, fed |-> z.fed, eof |-> z.eof, hasher |-> h,
             raw |-> z.raw, seen |-> "data", failed |-> z.failed]
    BY <2>1 DEF IsFile
  <2>3. IsFile(y)
    BY <1>2, <2>2 DEF IsFile
  <2> QED
    BY <2>2, <2>3 DEF SameInput, y, h
<1>5. CASE out = << >> /\ InvalidCheck(z, n)
  <2>1. y = Failed(z)
    BY <1>5 DEF Checked
  <2> HIDE DEF y
  <2>2. /\ IsFile(y) /\ SameInput(y, z) /\ SameAbove(y, z)
        /\ y.eof = z.eof /\ y.seen = "error" /\ y.failed = TRUE
    BY <2>1, FailedFields
  <2> QED
    BY <1>3, <1>5, <2>2 DEF SameAbove, y, h
<1>6. CASE out = << >> /\ ~InvalidCheck(z, n) /\ n = 0
  <2>1. y = z
    BY <1>6 DEF Checked
  <2> HIDE DEF y
  <2>2. SameInput(y, z)
    BY <2>1 DEF SameInput
  <2> QED
    BY <1>3, <1>6, <2>1, <2>2 DEF y, h
<1>7. CASE out = << >> /\ ~InvalidCheck(z, n) /\ n # 0
  <2>1. y = [z EXCEPT !.seen = "end"]
    BY <1>7 DEF Checked
  <2> HIDE DEF y
  <2>2. y = [index |-> z.index, crypto |-> z.crypto, password |-> z.password,
             stage |-> z.stage, pos |-> z.pos, limit |-> z.limit,
             synced |-> z.synced, ks |-> z.ks, remaining |-> z.remaining,
             mac |-> z.mac, fed |-> z.fed, eof |-> z.eof, hasher |-> z.hasher,
             raw |-> z.raw, seen |-> "end", failed |-> z.failed]
    BY <2>1 DEF IsFile
  <2>3. IsFile(y)
    BY <2>2 DEF IsFile
  <2>4. (z.crypto = "aes" /\ f.aes = "ae2") \/ z.hasher = f.crc32
    BY <1>7 DEF InvalidCheck, IsAe2
  <2>5. /\ SameInput(y, z) /\ y.index = z.index
        /\ y.stage = z.stage /\ y.fed = z.fed /\ y.eof = z.eof /\ y.raw = z.raw
        /\ y.hasher = z.hasher /\ y.failed = z.failed
    BY <2>2 DEF SameInput
  <2> QED
    BY <1>3, <1>7, <2>3, <2>4, <2>5 DEF y, h
<1> QED
  BY <1>4, <1>5, <1>6, <1>7

-----------------------------------------------------------------------------
(***************************************************************************)
(* What is done with an open file, and leaves it as it should be.          *)
(***************************************************************************)
\* An open file of this archive.
OpenFile(f, z) ==
    /\ SharedOK /\ IsHeader(f) /\ f = Entry(z)
    /\ IsFile(z) /\ Lent(disk, f, short_reads, z)

\* It stays one, the same one.
StaysOpen(f, z, y) ==
    /\ IsFile(y) /\ y.index = z.index
    /\ Lent(disk, f, short_reads, y)

LEMMA GotIsSeq == ASSUME NEW f, NEW z, IsFile(z) PROVE IsSeq(Got(f, z))
BY DEF Got, IsFile

\* The first read finds the file as the next ones do.
LEMMA FirstRead ==
    ASSUME NEW f, NEW z, OpenFile(f, z), z.stage \in {"fresh", "decoding"}
    PROVE  LET x == Decoding(z) IN
           /\ OpenFile(f, x) /\ x.index = z.index /\ x.stage = "decoding"
           /\ x.fed = z.fed /\ x.eof = z.eof /\ x.hasher = z.hasher
<1> DEFINE x == Decoding(z)
           g == Got(f, z)
<1>1. IsFile(z) /\ Lent(disk, f, short_reads, z)
  BY DEF OpenFile
<1>2. /\ IsFile(x) /\ SameInput(x, z) /\ x.index = z.index
      /\ x.stage = "decoding" /\ x.fed = z.fed /\ x.eof = z.eof
      /\ x.hasher = z.hasher /\ x.raw = z.raw /\ x.seen = z.seen
      /\ x.failed = z.failed
  BY <1>1, DecodingFields
<1> HIDE DEF x
<1>3. InputOK(disk, f, short_reads, z, g) /\ Located(disk, f, z)
  BY <1>1 DEF Lent
<1> HIDE DEF g
<1>4. /\ InputOK(disk, f, short_reads, x, g) /\ Located(disk, f, x)
      /\ Exhausted(disk, z) => Exhausted(disk, x)
  BY <1>2, <1>3, InputKept
<1>5. Got(f, x) = g
  BY <1>2 DEF Got, g
<1>6. KindOK(f, x)
  BY <1>1, <1>2 DEF Lent, KindOK, SameInput
<1>7. FreshOK(x) /\ RawOK(disk, f, x)
  BY <1>2 DEF FreshOK, RawOK
<1>8. DecoderOK(disk, f, x)
  <2>1. DecoderOK(disk, f, z)
    BY <1>1 DEF Lent
  <2>2. f.method # "stored" =>
          /\ \A j \in 1..Len(z.fed) : IsData(z.fed[j])
          /\ Begins(z.hasher, Decoded(f, z.fed))
          /\ z.eof => Exhausted(disk, z)
    BY <2>1 DEF DecoderOK
  <2> QED
    BY <1>2, <1>4, <2>2 DEF DecoderOK
<1>9. EndOK(disk, f, x)
  <2> SUFFICES ASSUME x.seen = "end"
               PROVE  /\ ~(x.crypto = "aes" /\ f.aes = "ae2") => x.hasher = f.crc32
                      /\ f.method # "stored" =>
                           /\ Len(x.hasher) = Len(Decoded(f, x.fed))
                           /\ Exhausted(disk, x) \/ DecoderEnd(f, x.fed) # 0
    BY DEF EndOK
  <2>1. z.stage = "decoding"
    BY <1>1, <1>2 DEF Lent, FreshOK
  <2>2. EndOK(disk, f, z)
    BY <1>1 DEF Lent
  <2> QED
    BY <1>2, <1>4, <2>1, <2>2 DEF EndOK, SameInput
<1>10. Lent(disk, f, short_reads, x)
  BY <1>4, <1>5, <1>6, <1>7, <1>8, <1>9 DEF Lent
<1>11. f = Entry(x)
  BY <1>2 DEF OpenFile, Entry
<1> QED
  BY <1>2, <1>10, <1>11 DEF OpenFile, x

\* What is common to all that follows: a file that is read through a decoder
\* or as it is, after a step that left it with y.
LEMMA DecodingLent ==
    ASSUME NEW f, NEW x, KindOK(f, x), x.stage = "decoding",
           NEW y, y.crypto = x.crypto, y.password = x.password,
           y.stage = "decoding", Located(disk, f, y),
           InputOK(disk, f, short_reads, y, Got(f, y)),
           DecoderOK(disk, f, y), EndOK(disk, f, y)
    PROVE  Lent(disk, f, short_reads, y)
<1>1. KindOK(f, y)
  BY DEF KindOK
<1>2. FreshOK(y) /\ RawOK(disk, f, y)
  BY DEF FreshOK, RawOK
<1> QED
  BY <1>1, <1>2 DEF Lent

\* A read of an entry that is stored.
LEMMA ReadStoredStays ==
    ASSUME NEW f, NEW x, OpenFile(f, x), x.stage = "decoding",
           f.method = "stored", NEW n \in Nat, NEW o \in CryptoRead(x, n)
    PROVE  StaysOpen(f, x, IF o.ok THEN Checked(o.z, n, o.out) ELSE Failed(o.z))
<1> DEFINE g == x.hasher
<1>1. /\ IsFile(x) /\ Located(disk, f, x) /\ KindOK(f, x)
      /\ InputOK(disk, f, short_reads, x, g) /\ EndOK(disk, f, x)
  <2>1. IsFile(x) /\ Lent(disk, f, short_reads, x) /\ Got(f, x) = g
    BY DEF OpenFile, Got
  <2> QED
    BY <2>1 DEF Lent
<1>2. Reading(f, x) /\ IsSeq(g) /\ f = Entry(x)
  BY <1>1 DEF Reading, OpenFile, IsFile
<1> HIDE DEF g
<1>3. Delivers(f, x, g, n, o)
  BY <1>1, <1>2, CryptoReadDelivers
<1>4. /\ IsFile(o.z) /\ SameReader(o.z, x) /\ Located(disk, f, o.z) /\ IsSeq(o.out)
      /\ o.ok \in BOOLEAN
      /\ o.ok => InputOK(disk, f, short_reads, o.z, g \o o.out)
      /\ ~o.ok => InputOK(disk, f, short_reads, Failed(o.z), g)
  BY <1>3 DEF Delivers
<1>5. f = Entry(o.z)
  BY <1>2, <1>4 DEF Entry, SameReader
<1>6. CASE o.ok
  <2> DEFINE y == Checked(o.z, n, o.out)
             go == g \o o.out
  <2>1. /\ IsFile(y) /\ SameInput(y, o.z) /\ y.index = o.z.index
        /\ y.stage = o.z.stage /\ y.hasher = o.z.hasher \o o.out
        /\ y.failed = TRUE \/ y.failed = o.z.failed
        /\ y.seen = "end" =>
             /\ o.out = << >> /\ (n = 0 => o.z.seen = "end")
             /\ n # 0 => \/ o.z.crypto = "aes" /\ f.aes = "ae2"
                         \/ y.hasher = f.crc32
    <3>1. IsFile(o.z) /\ f = Entry(o.z) /\ IsSeq(o.out)
      BY <1>4, <1>5
    <3>2. PassedOn(f, o.z, n, o.out, y)
      BY <3>1, CheckedFields
    <3> QED
      BY <3>2 DEF PassedOn
  <2> HIDE DEF y
  <2>2. y.hasher = go /\ Got(f, y) = go
    BY <1>4, <2>1 DEF SameReader, Got, g
  <2>3. InputOK(disk, f, short_reads, o.z, go)
    BY <1>4, <1>6
  <2> HIDE DEF go
  <2>4. InputOK(disk, f, short_reads, y, go) /\ Located(disk, f, y)
    BY <1>4, <2>1, <2>3, InputKept
  <2>5. DecoderOK(disk, f, y)
    BY DEF DecoderOK
  <2>6. /\ y.crypto = x.crypto /\ y.password = x.password /\ y.stage = "decoding"
        /\ y.index = x.index
    BY <1>4, <2>1 DEF SameInput, SameReader
  <2>7. EndOK(disk, f, y)
    <3> SUFFICES ASSUME y.seen = "end", ~(y.crypto = "aes" /\ f.aes = "ae2")
                 PROVE  y.hasher = f.crc32
      BY DEF EndOK
    <3>1. CASE n = 0
      <4>1. x.seen = "end" /\ x.hasher = g
        BY <1>4, <2>1, <3>1 DEF SameReader, g
      <4>2. g = f.crc32
        BY <1>1, <2>6, <4>1 DEF EndOK
      <4>3. go = g
        BY <1>2, <2>1, ConcatNothing DEF go
      <4> QED
        BY <2>2, <4>2, <4>3
    <3>2. CASE n # 0
      BY <1>4, <2>1, <2>6, <3>2 DEF SameReader
    <3> QED
      BY <3>1, <3>2
  <2>8. Lent(disk, f, short_reads, y)
    BY <1>1, <2>2, <2>4, <2>5, <2>6, <2>7, DecodingLent
  <2> QED
    BY <1>6, <2>1, <2>6, <2>8 DEF StaysOpen, y
<1>7. CASE ~o.ok
  <2> DEFINE y == Failed(o.z)
  <2>1. /\ IsFile(y) /\ SameInput(y, o.z) /\ SameAbove(y, o.z)
        /\ y.eof = o.z.eof /\ y.seen = "error" /\ y.failed = TRUE
    BY <1>4, FailedFields
  <2>2. InputOK(disk, f, short_reads, y, g)
    BY <1>4, <1>7
  <2> HIDE DEF y
  <2>3. Got(f, y) = g
    BY <1>4, <2>1 DEF SameReader, SameAbove, Got, g
  <2>4. Located(disk, f, y)
    BY <1>4, <2>1 DEF Located, SameInput
  <2>5. DecoderOK(disk, f, y) /\ EndOK(disk, f, y)
    BY <2>1 DEF DecoderOK, EndOK
  <2>6. /\ y.crypto = x.crypto /\ y.password = x.password /\ y.stage = "decoding"
        /\ y.index = x.index
    BY <1>4, <2>1 DEF SameInput, SameReader, SameAbove
  <2>7. Lent(disk, f, short_reads, y)
    BY <1>1, <2>2, <2>3, <2>4, <2>5, <2>6, DecodingLent
  <2> QED
    BY <1>7, <2>1, <2>6, <2>7 DEF StaysOpen, y
<1> QED
  BY <1>4, <1>6, <1>7

\* A decoder that fills its buffer.
LEMMA FillFields ==
    ASSUME NEW z, IsFile(z), NEW out, IsSeq(out)
    PROVE  LET y == [z EXCEPT !.fed = @ \o out, !.eof = out = << >>] IN
           /\ IsFile(y) /\ SameInput(y, z) /\ y.index = z.index
           /\ y.stage = z.stage /\ y.fed = z.fed \o out
           /\ y.eof = (out = << >>) /\ y.hasher = z.hasher
           /\ y.seen = z.seen /\ y.failed = z.failed
<1> DEFINE y   == [z EXCEPT !.fed = @ \o out, !.eof = out = << >>]
           fed == z.fed \o out
           eof == out = << >>
<1>1. IsSeq(fed)
  <2>1. IsSeq(z.fed)
    BY DEF IsFile
  <2> QED
    BY <2>1, ConcatIsSeq
<1>2. CASE out = << >>
  <2>1. y = [z EXCEPT !.fed = fed, !.eof = TRUE]
    BY <1>2
  <2> HIDE DEF y, fed
  <2>2. y = [index |-> z.index, crypto |-> z.crypto, password |-> z.password,
             stage |-> z.stage, pos |-> z.pos, limit |-> z.limit,
             synced |-> z.synced, ks |-> z.ks, remaining |-> z.remaining,
             mac |-> z.mac, fed |-> fed, eof |-> TRUE, hasher |-> z.hasher,
             raw |-> z.raw, seen |-> z.seen, failed |-> z.failed]
    BY <2>1 DEF IsFile
  <2>3. IsFile(y)
    BY <1>1, <2>2 DEF IsFile
  <2> QED
    BY <1>2, <2>2, <2>3 DEF SameInput, y, fed
<1>3. CASE out # << >>
  <2>1. y = [z EXCEPT !.fed = fed, !.eof = FALSE]
    BY <1>3
  <2> HIDE DEF y, fed
  <2>2. y = [index |-> z.index, crypto |-> z.crypto, password |-> z.password,
             stage |-> z.stage, pos |-> z.pos, limit |-> z.limit,
             synced |-> z.synced, ks |-> z.ks, remaining |-> z.remaining,
             mac |-> z.mac, fed |-> fed, eof |-> FALSE, hasher |-> z.hasher,
             raw |-> z.raw, seen |-> z.seen, failed |-> z.failed]
    BY <2>1 DEF IsFile
  <2>3. IsFile(y)
    BY <1>1, <2>2 DEF IsFile
  <2> QED
    BY <1>3, <2>2, <2>3 DEF SameInput, y, fed
<1> QED
  BY <1>2, <1>3

\* The facts about a file that is read through a decoder.
LEMMA DecodingFacts ==
    ASSUME NEW f, NEW x, OpenFile(f, x), x.stage = "decoding", f.method # "stored"
    PROVE  /\ IsFile(x) /\ Reading(f, x) /\ KindOK(f, x)
           /\ InputOK(disk, f, short_reads, x, x.fed) /\ EndOK(disk, f, x)
           /\ IsSeq(x.fed) /\ \A j \in 1..Len(x.fed) : IsData(x.fed[j])
           /\ Begins(x.hasher, Decoded(f, x.fed))
           /\ x.eof => Exhausted(disk, x)
<1>1. IsFile(x) /\ Lent(disk, f, short_reads, x) /\ Got(f, x) = x.fed
  BY DEF OpenFile, Got
<1>2. /\ Located(disk, f, x) /\ KindOK(f, x) /\ EndOK(disk, f, x)
      /\ InputOK(disk, f, short_reads, x, x.fed) /\ DecoderOK(disk, f, x)
  BY <1>1 DEF Lent
<1>3. /\ \A j \in 1..Len(x.fed) : IsData(x.fed[j])
      /\ Begins(x.hasher, Decoded(f, x.fed))
      /\ x.eof => Exhausted(disk, x)
  BY <1>2 DEF DecoderOK
<1> QED
  BY <1>1, <1>2, <1>3 DEF Reading, OpenFile, IsFile

LEMMA DecoderFillsStays ==
    ASSUME NEW f, NEW x, OpenFile(f, x), x.stage = "decoding",
           f.method # "stored", DecoderEnd(f, x.fed) = 0, ~x.eof,
           NEW o \in CryptoRead(x, DecoderBuffer)
    PROVE  StaysOpen(f, x, IF o.ok THEN [o.z EXCEPT !.fed = @ \o o.out,
                                                    !.eof = o.out = << >>]
                           ELSE Failed(o.z))
<1> DEFINE g  == x.fed
           go == g \o o.out
<1>1. /\ IsFile(x) /\ Reading(f, x) /\ KindOK(f, x)
      /\ InputOK(disk, f, short_reads, x, g) /\ EndOK(disk, f, x)
      /\ IsSeq(g) /\ \A j \in 1..Len(g) : IsData(g[j])
      /\ Begins(x.hasher, Decoded(f, g))
  BY DecodingFacts
<1>2. DecoderBuffer \in Nat \ {0}
  BY ReaderAssumption
<1> HIDE DEF g, go
<1>3. Delivers(f, x, g, DecoderBuffer, o)
  BY <1>1, <1>2, CryptoReadDelivers
<1>4. /\ IsFile(o.z) /\ SameReader(o.z, x) /\ Located(disk, f, o.z) /\ IsSeq(o.out)
      /\ o.ok \in BOOLEAN /\ \A j \in 1..Len(o.out) : IsData(o.out[j])
      /\ o.ok => InputOK(disk, f, short_reads, o.z, go)
      /\ ~o.ok => InputOK(disk, f, short_reads, Failed(o.z), g)
      /\ o.ok /\ o.out = << >> => Exhausted(disk, x)
      /\ Exhausted(disk, x) => Exhausted(disk, o.z) /\ o.ok /\ o.out = << >>
  BY <1>2, <1>3 DEF Delivers, go
<1>5. CASE o.ok
  <2> DEFINE y == [o.z EXCEPT !.fed = @ \o o.out, !.eof = o.out = << >>]
  <2>1. /\ IsFile(y) /\ SameInput(y, o.z) /\ y.index = o.z.index
        /\ y.stage = o.z.stage /\ y.fed = o.z.fed \o o.out
        /\ y.eof = (o.out = << >>) /\ y.hasher = o.z.hasher
        /\ y.seen = o.z.seen /\ y.failed = o.z.failed
    BY <1>4, FillFields
  <2> HIDE DEF y
  <2>2. y.fed = go /\ Got(f, y) = go
    BY <1>4, <2>1 DEF SameReader, Got, g, go
  <2>3. InputOK(disk, f, short_reads, o.z, go)
    BY <1>4, <1>5
  <2>4. /\ InputOK(disk, f, short_reads, y, go) /\ Located(disk, f, y)
        /\ Exhausted(disk, o.z) => Exhausted(disk, y)
    BY <1>4, <2>1, <2>3, InputKept
  <2>5. y.hasher = x.hasher /\ y.seen = x.seen
    BY <1>4, <2>1 DEF SameReader
  <2>6. \A j \in 1..Len(go) : IsData(go[j])
    <3> DEFINE m == Len(g)
               out == o.out
               k == Len(out)
    <3>1. Len(go) = m + k /\ m \in Nat /\ k \in Nat
      BY <1>1, <1>4, ConcatIsSeq, LenIsNat DEF go
    <3>2. \A j \in 1..m + k : go[j] = IF j <= m THEN g[j] ELSE out[j - m]
      BY <1>1, <1>4, ConcatCells DEF go
    <3>3. (\A j \in 1..m : IsData(g[j])) /\ (\A j \in 1..k : IsData(out[j]))
      BY <1>1, <1>4
    <3> HIDE DEF m, k, out
    <3> SUFFICES ASSUME NEW j \in 1..m + k PROVE IsData(go[j])
      BY <3>1
    <3>4. CASE j <= m
      BY <3>1, <3>2, <3>3, <3>4
    <3>5. CASE ~(j <= m)
      <4>1. j - m \in 1..k
        BY <3>1, <3>5
      <4> QED
        BY <3>2, <3>3, <3>5, <4>1
    <3> QED
      BY <3>4, <3>5
  <2>7. Begins(y.hasher, Decoded(f, go))
    <3>1. Begins(g, go)
      <4>1. Len(g) \in Nat /\ Len(o.out) \in Nat
        BY <1>1, <1>4, LenIsNat
      <4>2. IsSeq(go) /\ Len(go) = Len(g) + Len(o.out)
        BY <1>1, <1>4, ConcatIsSeq DEF go
      <4>3. \A j \in 1..Len(g) + Len(o.out) :
              go[j] = IF j <= Len(g) THEN g[j] ELSE o.out[j - Len(g)]
        BY <1>1, <1>4, ConcatCells DEF go
      <4>4. \A j \in 1..Len(g) : g[j] = go[j]
        BY <4>1, <4>3
      <4> QED
        BY <1>1, <4>1, <4>2, <4>4 DEF Begins
    <3>2. Begins(Decoded(f, g), Decoded(f, go))
      BY <2>6, <3>1, DecodedBegins
    <3>3. Begins(x.hasher, Decoded(f, go))
      BY <1>1, <3>2, BeginsOn
    <3> QED
      BY <2>5, <3>3
  <2>8. y.eof => Exhausted(disk, y)
    BY <1>4, <1>5, <2>1, <2>4
  <2>9. DecoderOK(disk, f, y)
    BY <2>2, <2>6, <2>7, <2>8 DEF DecoderOK
  <2>10. /\ y.crypto = x.crypto /\ y.password = x.password /\ y.stage = "decoding"
         /\ y.index = x.index
    BY <1>4, <2>1 DEF SameInput, SameReader
  <2>11. EndOK(disk, f, y)
    <3> SUFFICES ASSUME y.seen = "end"
                 PROVE  /\ ~(y.crypto = "aes" /\ f.aes = "ae2") => y.hasher = f.crc32
                        /\ Len(y.hasher) = Len(Decoded(f, y.fed))
                        /\ Exhausted(disk, y)
      BY DEF EndOK
    <3>1. /\ ~(x.crypto = "aes" /\ f.aes = "ae2") => x.hasher = f.crc32
          /\ Len(x.hasher) = Len(Decoded(f, g))
          /\ Exhausted(disk, x)
      BY <1>1, <2>5 DEF EndOK, g
    <3>2. Exhausted(disk, o.z) /\ o.out = << >>
      BY <1>4, <3>1
    <3>3. go = g
      BY <1>1, <3>2, ConcatNothing DEF go
    <3> QED
      BY <2>2, <2>4, <2>5, <2>10, <3>1, <3>2, <3>3
  <2>12. InputOK(disk, f, short_reads, y, Got(f, y))
    BY <2>2, <2>4
  <2>13. Lent(disk, f, short_reads, y)
    BY <1>1, <2>4, <2>9, <2>10, <2>11, <2>12, DecodingLent
  <2> QED
    BY <1>5, <2>1, <2>10, <2>13 DEF StaysOpen, y
<1>6. CASE ~o.ok
  <2> DEFINE y == Failed(o.z)
  <2>1. /\ IsFile(y) /\ SameInput(y, o.z) /\ SameAbove(y, o.z)
        /\ y.eof = o.z.eof /\ y.seen = "error" /\ y.failed = TRUE
    BY <1>4, FailedFields
  <2>2. InputOK(disk, f, short_reads, y, g)
    BY <1>4, <1>6
  <2> HIDE DEF y
  <2>3. Got(f, y) = g /\ y.fed = g /\ y.hasher = x.hasher
    BY <1>4, <2>1 DEF SameReader, SameAbove, Got, g
  <2>4. Located(disk, f, y)
    BY <1>4, <2>1 DEF Located, SameInput
  <2>5. ~y.eof
    BY <1>4, <2>1 DEF SameReader
  <2>6. DecoderOK(disk, f, y) /\ EndOK(disk, f, y)
    BY <1>1, <2>1, <2>3, <2>5 DEF DecoderOK, EndOK
  <2>7. /\ y.crypto = x.crypto /\ y.password = x.password /\ y.stage = "decoding"
        /\ y.index = x.index
    BY <1>4, <2>1 DEF SameInput, SameReader, SameAbove
  <2>8. Lent(disk, f, short_reads, y)
    BY <1>1, <2>2, <2>3, <2>4, <2>6, <2>7, DecodingLent
  <2> QED
    BY <1>6, <2>1, <2>7, <2>8 DEF StaysOpen, y
<1> QED
  BY <1>4, <1>5, <1>6

\* The part of a vector behind its first a elements, up to the b-th.
LEMMA PartCells ==
    ASSUME NEW s, IsSeq(s), NEW a \in Nat, NEW b \in Nat, a <= b, b <= Len(s)
    PROVE  /\ IsSeq(SubSeq(s, a + 1, b)) /\ Len(SubSeq(s, a + 1, b)) = b - a
           /\ \A j \in 1..b - a : SubSeq(s, a + 1, b)[j] = s[a + j]
<1> DEFINE T == {s[i] : i \in DOMAIN s}
           r == SubSeq(s, a + 1, b)
<1>1. s \in Seq(T) /\ Len(s) \in Nat
  BY LenIsNat DEF IsSeq
<1> HIDE DEF T
<1>2. \A i \in 1..Len(s) : s[i] \in T
  BY <1>1, LenProperties
<1>3. /\ r \in Seq(T) /\ Len(r) = IF a + 1 <= b THEN b - (a + 1) + 1 ELSE 0
      /\ \A i \in 1..b - (a + 1) + 1 : r[i] = s[a + 1 + i - 1]
  <2>1. a + 1 \in Int /\ b \in Int /\ \A i \in a + 1..b : s[i] \in T
    BY <1>1, <1>2
  <2> QED
    BY <1>1, <2>1, SubSeqProperties
<1> HIDE DEF r
<1>4. IsSeq(r) /\ Len(r) = b - a
  BY <1>3, SeqIsSeq
<1>5. ASSUME NEW j \in 1..b - a PROVE r[j] = s[a + j]
  <2>1. j \in 1..b - (a + 1) + 1 /\ a + 1 + j - 1 = a + j
    OBVIOUS
  <2> QED
    BY <1>3, <2>1
<1> QED
  BY <1>4, <1>5 DEF r

\* A decoder that passes on data, an error, or the end.
DecoderPassesOn(x, z, y) ==
    \/ \E k \in 1..Min({Len(Ready(z)), MaxBuffer}) :
         y = Checked(z, k, SubSeq(Ready(z), 1, k))
    \/ Damaged(x) /\ y = Failed(z)
    \/ /\ Ready(z) = << >> /\ (x.eof \/ AtMarker(z))
       /\ y = Checked(z, 1, << >>)

LEMMA DecoderReturnsStays ==
    ASSUME NEW f, NEW x, OpenFile(f, x), x.stage = "decoding", f.method # "stored",
           NEW y, DecoderPassesOn(x, [x EXCEPT !.eof = FALSE], y)
    PROVE  StaysOpen(f, x, y)
<1> DEFINE z   == [x EXCEPT !.eof = FALSE]
           g   == x.fed
           all == Decoded(f, g)
           h   == x.hasher
           r   == Ready(z)
<1>1. /\ IsFile(x) /\ Reading(f, x) /\ KindOK(f, x)
      /\ InputOK(disk, f, short_reads, x, g) /\ EndOK(disk, f, x)
      /\ IsSeq(g) /\ \A j \in 1..Len(g) : IsData(g[j])
      /\ Begins(h, all) /\ (x.eof => Exhausted(disk, x))
  BY DecodingFacts
<1>2. /\ IsFile(z) /\ SameInput(z, x) /\ SameAbove(z, x)
      /\ z.eof = FALSE /\ z.seen = x.seen /\ z.failed = x.failed
  BY <1>1, EofResetFields
<1>3. f = Entry(z) /\ z.stage = "decoding" /\ z.hasher = h /\ z.fed = g
  BY <1>2 DEF OpenFile, Entry, SameAbove
<1>4. r = SubSeq(all, Len(h) + 1, Len(all))
  BY <1>3 DEF Ready
<1>5. /\ IsSeq(h) /\ IsSeq(all) /\ Len(h) \in Nat /\ Len(all) \in Nat
      /\ Len(h) <= Len(all)
  BY <1>1, LenIsNat DEF Begins
<1>6. DecoderPassesOn(x, z, y)
  OBVIOUS
<1> HIDE DEF z, g, all, h
<1>7. /\ IsSeq(r) /\ Len(r) = Len(all) - Len(h)
      /\ \A j \in 1..Len(all) - Len(h) : r[j] = all[Len(h) + j]
  BY <1>4, <1>5, PartCells
<1> HIDE DEF r
<1>8. ASSUME IsFile(y), SameInput(y, z), y.index = z.index, y.stage = z.stage,
             y.fed = z.fed, y.eof = z.eof, y.failed = TRUE \/ y.failed = z.failed,
             Begins(y.hasher, all), EndOK(disk, f, y)
      PROVE  StaysOpen(f, x, y)
  <2>1. /\ SameInput(y, x) /\ y.index = x.index /\ y.stage = "decoding"
        /\ y.fed = g /\ ~y.eof /\ (y.failed = TRUE \/ y.failed = x.failed)
    BY <1>2, <1>3, <1>8 DEF SameInput, SameAbove
  <2>2. Got(f, y) = g
    BY <2>1 DEF Got
  <2>3. Located(disk, f, x)
    BY <1>1 DEF Reading
  <2>4. InputOK(disk, f, short_reads, y, g) /\ Located(disk, f, y)
    BY <1>1, <2>1, <2>3, InputKept
  <2>5. DecoderOK(disk, f, y)
    BY <1>1, <1>8, <2>1 DEF DecoderOK, all
  <2>6. y.crypto = x.crypto /\ y.password = x.password
    BY <2>1 DEF SameInput
  <2>7. x.stage = "decoding"
    OBVIOUS
  <2>8. InputOK(disk, f, short_reads, y, Got(f, y))
    BY <2>2, <2>4
  <2>9. Lent(disk, f, short_reads, y)
    BY <1>1, <1>8, <2>1, <2>4, <2>5, <2>6, <2>7, <2>8, DecodingLent
  <2> QED
    BY <1>8, <2>1, <2>9 DEF StaysOpen
<1>9. ASSUME NEW k \in 1..Min({Len(r), MaxBuffer}),
             y = Checked(z, k, SubSeq(r, 1, k))
      PROVE  StaysOpen(f, x, y)
  <2> DEFINE out == SubSeq(r, 1, k)
  <2>1. k \in Nat /\ k # 0 /\ k <= Len(r)
    <3>1. Len(r) \in Int /\ MaxBuffer \in Int
      BY <1>5, <1>7, ReaderAssumption
    <3>2. Min({Len(r), MaxBuffer}) =
            IF Len(r) <= MaxBuffer THEN Len(r) ELSE MaxBuffer
      BY <3>1, MinOfTwo
    <3> QED
      BY <3>1, <3>2
  <2>2. IsSeq(out) /\ Len(out) = k /\ \A j \in 1..k : out[j] = r[j]
    <3>1. /\ IsSeq(SubSeq(r, 0 + 1, k)) /\ Len(SubSeq(r, 0 + 1, k)) = k - 0
          /\ \A j \in 1..k - 0 : SubSeq(r, 0 + 1, k)[j] = r[0 + j]
      <4>1. 0 \in Nat /\ k \in Nat /\ 0 <= k
        BY <2>1
      <4> QED
        BY <1>7, <2>1, <4>1, PartCells
    <3>2. 0 + 1 = 1 /\ k - 0 = k /\ \A j \in 1..k : 0 + j = j
      BY <2>1
    <3> QED
      BY <3>1, <3>2
  <2>3. y = Checked(z, k, out)
    BY <1>9
  <2> HIDE DEF out
  <2>4. PassedOn(f, z, k, out, y)
    BY <1>2, <1>3, <2>1, <2>2, <2>3, CheckedFields
  <2>5. out # << >>
    BY <2>1, <2>2, EmptyIffNoLength
  <2>6. /\ IsFile(y) /\ SameInput(y, z) /\ y.index = z.index
        /\ y.stage = z.stage /\ y.fed = z.fed /\ y.eof = z.eof
        /\ y.hasher = h \o out
        /\ y.failed = TRUE \/ y.failed = z.failed
        /\ y.seen # "end"
    BY <1>3, <2>4, <2>5 DEF PassedOn
  <2>7. Begins(h \o out, all)
    <3>1. Len(h) + Len(out) <= Len(all)
      BY <1>5, <1>7, <2>1, <2>2
    <3>2. \A j \in 1..Len(out) : out[j] = all[Len(h) + j]
      BY <1>5, <1>7, <2>1, <2>2
    <3>3. Begins(h, all) /\ IsSeq(out)
      BY <1>1, <2>2
    <3> QED
      BY <3>1, <3>2, <3>3, BeginsExtend
  <2>8. EndOK(disk, f, y)
    BY <2>6 DEF EndOK
  <2>9. Begins(y.hasher, all)
    BY <2>6, <2>7
  <2> QED
    BY <1>8, <2>6, <2>8, <2>9
<1>10. ASSUME y = Failed(z) PROVE StaysOpen(f, x, y)
  <2>1. /\ IsFile(y) /\ SameInput(y, z) /\ SameAbove(y, z)
        /\ y.eof = z.eof /\ y.seen = "error" /\ y.failed = TRUE
    BY <1>2, <1>10, FailedFields
  <2>2. EndOK(disk, f, y)
    BY <2>1 DEF EndOK
  <2>3. Begins(y.hasher, all)
    BY <1>1, <1>3, <2>1 DEF SameAbove
  <2> QED
    BY <1>8, <2>1, <2>2, <2>3 DEF SameAbove
<1>11. ASSUME r = << >>, x.eof \/ AtMarker(z), y = Checked(z, 1, << >>)
       PROVE  StaysOpen(f, x, y)
  <2>1. IsSeq(<< >>) /\ 1 \in Nat
    BY EmptyIsSeq
  <2>2. PassedOn(f, z, 1, << >>, y)
    BY <1>2, <1>3, <1>11, <2>1, CheckedFields
  <2>3. h \o << >> = h
    BY <1>5, ConcatNothing
  <2>4. /\ IsFile(y) /\ SameInput(y, z) /\ y.index = z.index
        /\ y.stage = z.stage /\ y.fed = z.fed /\ y.eof = z.eof
        /\ y.hasher = h
        /\ y.failed = TRUE \/ y.failed = z.failed
        /\ y.seen = "end" => \/ z.crypto = "aes" /\ f.aes = "ae2"
                             \/ y.hasher = f.crc32
    BY <1>3, <2>2, <2>3 DEF PassedOn
  <2>5. Len(h) = Len(all)
    <3>1. Len(r) = 0
      BY <1>11, EmptyIsSeq
    <3> QED
      BY <1>5, <1>7, <3>1
  <2>6. Exhausted(disk, y) \/ DecoderEnd(f, g) # 0
    <3>1. CASE x.eof
      <4>1. Exhausted(disk, x)
        BY <1>1, <3>1
      <4>2. SameInput(y, x)
        BY <1>2, <2>4 DEF SameInput
      <4> QED
        BY <4>1, <4>2 DEF Exhausted, Dry, SameInput
    <3>2. CASE AtMarker(z)
      BY <1>3, <3>2 DEF AtMarker
    <3> QED
      BY <1>11, <3>1, <3>2
  <2>7. EndOK(disk, f, y)
    BY <1>3, <2>4, <2>5, <2>6 DEF EndOK, SameInput, all
  <2>8. Begins(y.hasher, all)
    BY <1>1, <2>4
  <2> QED
    BY <1>8, <2>4, <2>7, <2>8
<1> QED
  BY <1>6, <1>9, <1>10, <1>11 DEF DecoderPassesOn, r

\* A read that fails below the readers.
LEMMA ReadFailsStays ==
    ASSUME NEW f, NEW x, OpenFile(f, x), x.stage = "decoding",
           NEW n \in Nat, NEW w \in CryptoReadFails(x, n)
    PROVE  StaysOpen(f, x, Failed([w EXCEPT !.eof = FALSE]))
<1> DEFINE g == Got(f, x)
           v == [w EXCEPT !.eof = FALSE]
           y == Failed(v)
<1>1. IsFile(x) /\ Lent(disk, f, short_reads, x)
  BY DEF OpenFile
<1>2. /\ Reading(f, x) /\ KindOK(f, x) /\ InputOK(disk, f, short_reads, x, g)
      /\ DecoderOK(disk, f, x)
  BY <1>1 DEF Lent, Reading, OpenFile
<1>3. IsSeq(g)
  BY <1>1, GotIsSeq
<1> HIDE DEF g
<1>4. /\ IsFile(w) /\ SameReader(w, x) /\ Located(disk, f, w)
      /\ \A u : SameInput(u, w) /\ u.failed = TRUE =>
           InputOK(disk, f, short_reads, u, g)
  BY <1>2, <1>3, CryptoReadFailsKeeps
<1>5. /\ IsFile(v) /\ SameInput(v, w) /\ SameAbove(v, w) /\ v.eof = FALSE
  BY <1>4, EofResetFields
<1> HIDE DEF v
<1>6. /\ IsFile(y) /\ SameInput(y, v) /\ SameAbove(y, v)
      /\ y.eof = v.eof /\ y.seen = "error" /\ y.failed = TRUE
  BY <1>5, FailedFields
<1> HIDE DEF y
<1>7. /\ SameInput(y, w) /\ y.index = x.index /\ y.stage = "decoding"
      /\ y.fed = x.fed /\ y.hasher = x.hasher /\ ~y.eof
      /\ y.crypto = x.crypto /\ y.password = x.password
  BY <1>4, <1>5, <1>6 DEF SameInput, SameAbove, SameReader
<1>8. InputOK(disk, f, short_reads, y, Got(f, y))
  <2>1. Got(f, y) = g
    BY <1>7 DEF Got, g
  <2> QED
    BY <1>4, <1>6, <1>7, <2>1
<1>9. Located(disk, f, y)
  BY <1>4, <1>7 DEF Located, SameInput
<1>10. DecoderOK(disk, f, y) /\ EndOK(disk, f, y)
  BY <1>2, <1>6, <1>7 DEF DecoderOK, EndOK
<1>11. Lent(disk, f, short_reads, y)
  BY <1>2, <1>7, <1>8, <1>9, <1>10, DecodingLent
<1> QED
  BY <1>6, <1>7, <1>11 DEF StaysOpen, y, v

LEMMA ToRawFields ==
    ASSUME NEW z, IsFile(z)
    PROVE  LET y == [z EXCEPT !.stage = "raw"] IN
           /\ IsFile(y) /\ SameInput(y, z) /\ y.index = z.index
           /\ y.stage = "raw" /\ y.hasher = z.hasher /\ y.raw = z.raw
           /\ y.seen = z.seen /\ y.failed = z.failed
<1> DEFINE y == [z EXCEPT !.stage = "raw"]
<1>1. y = [index |-> z.index, crypto |-> z.crypto, password |-> z.password,
           stage |-> "raw", pos |-> z.pos, limit |-> z.limit,
           synced |-> z.synced, ks |-> z.ks, remaining |-> z.remaining,
           mac |-> z.mac, fed |-> z.fed, eof |-> z.eof, hasher |-> z.hasher,
           raw |-> z.raw, seen |-> z.seen, failed |-> z.failed]
  BY DEF IsFile
<1> HIDE DEF y
<1>2. IsFile(y)
  BY <1>1 DEF IsFile
<1> QED
  BY <1>1, <1>2 DEF SameInput, y

RawPassedOn(z, out, seen, y) ==
    /\ IsFile(y) /\ SameInput(y, z) /\ y.index = z.index
    /\ y.stage = z.stage /\ y.hasher = z.hasher
    /\ y.raw = z.raw \o out /\ y.seen = seen /\ y.failed = z.failed

LEMMA RawFields ==
    ASSUME NEW z, IsFile(z), NEW out, IsSeq(out),
           NEW seen \in {"nothing", "data", "end", "error"}
    PROVE  RawPassedOn(z, out, seen, [z EXCEPT !.raw = @ \o out, !.seen = seen])
<1> DEFINE y   == [z EXCEPT !.raw = @ \o out, !.seen = seen]
           raw == z.raw \o out
<1>1. IsSeq(raw)
  <2>1. IsSeq(z.raw)
    BY DEF IsFile
  <2> QED
    BY <2>1, ConcatIsSeq
<1>2. y = [z EXCEPT !.raw = raw, !.seen = seen]
  OBVIOUS
<1> HIDE DEF y, raw
<1>3. y = [index |-> z.index, crypto |-> z.crypto, password |-> z.password,
           stage |-> z.stage, pos |-> z.pos, limit |-> z.limit,
           synced |-> z.synced, ks |-> z.ks, remaining |-> z.remaining,
           mac |-> z.mac, fed |-> z.fed, eof |-> z.eof, hasher |-> z.hasher,
           raw |-> raw, seen |-> seen, failed |-> z.failed]
  BY <1>2 DEF IsFile
<1>4. IsFile(y)
  BY <1>1, <1>3 DEF IsFile
<1> QED
  BY <1>3, <1>4 DEF SameInput, y, raw, RawPassedOn

\* A read below the cipher.
LEMMA ReadRawStays ==
    ASSUME NEW f, NEW z, OpenFile(f, z), z.stage \in {"fresh", "raw"},
           NEW n \in Nat, NEW o \in PlainRead([z EXCEPT !.stage = "raw"], n)
    PROVE  StaysOpen(f, z, [o.z EXCEPT !.raw = @ \o o.out,
                              !.seen = IF n > 0 /\ o.out = << >> THEN "end" ELSE @])
<1> DEFINE x    == [z EXCEPT !.stage = "raw"]
           seen == IF n > 0 /\ o.out = << >> THEN "end" ELSE o.z.seen
           y    == [o.z EXCEPT !.raw = @ \o o.out, !.seen = seen]
           raw  == Data(disk, f)
           p    == Start(disk, f)
<1>1. IsFile(z) /\ Lent(disk, f, short_reads, z)
  BY DEF OpenFile
<1>2. /\ Located(disk, f, z) /\ KindOK(f, z) /\ FreshOK(z) /\ RawOK(disk, f, z)
      /\ z.stage # "raw" => InputOK(disk, f, short_reads, z, Got(f, z))
  BY <1>1 DEF Lent
<1>3. /\ IsFile(x) /\ SameInput(x, z) /\ x.index = z.index
      /\ x.stage = "raw" /\ x.hasher = z.hasher /\ x.raw = z.raw
      /\ x.seen = z.seen
  BY <1>1, ToRawFields
<1> HIDE DEF x
<1>4. Located(disk, f, x) /\ Reading(f, x)
  BY <1>2, <1>3 DEF Located, SameInput, Reading, OpenFile
<1>5. o \in PlainRead(x, n)
  BY DEF x
<1>6. /\ IsFile(o.z) /\ SameReader(o.z, x) /\ Located(disk, f, o.z) /\ IsSeq(o.out)
      /\ Dry(disk, x) => Dry(disk, o.z)
      /\ o.out = << >> => n = 0 \/ Dry(disk, x)
      /\ \A g : Begins(g, raw) /\ x.pos = p + Len(g) =>
           Begins(g \o o.out, raw) /\ o.z.pos = p + Len(g \o o.out)
  <2>1. ReadsOn(f, x, n, o)
    BY <1>4, <1>5, PlainReadOn
  <2> QED
    BY <2>1 DEF ReadsOn
<1>7. seen \in {"nothing", "data", "end", "error"}
  BY <1>6 DEF IsFile
<1> HIDE DEF seen
<1>8. /\ IsFile(y) /\ SameInput(y, o.z) /\ y.index = o.z.index
      /\ y.stage = o.z.stage /\ y.hasher = o.z.hasher
      /\ y.raw = o.z.raw \o o.out /\ y.seen = seen
  <2>1. IsFile(o.z) /\ IsSeq(o.out)
    BY <1>6
  <2>2. RawPassedOn(o.z, o.out, seen, [o.z EXCEPT !.raw = @ \o o.out, !.seen = seen])
    BY <1>7, <2>1, RawFields
  <2> QED
    BY <2>2 DEF RawPassedOn
<1> HIDE DEF y, raw, p
<1>9. /\ y.index = z.index /\ y.stage = "raw" /\ y.hasher = z.hasher
      /\ y.raw = z.raw \o o.out
      /\ y.crypto = z.crypto /\ y.password = z.password
      /\ y.pos = o.z.pos /\ y.limit = o.z.limit
  BY <1>3, <1>6, <1>8 DEF SameReader, SameInput
<1>10. z.hasher = << >> /\ (z.stage = "fresh" => z.raw = << >> /\ z.seen # "end")
  BY <1>2 DEF FreshOK, RawOK
<1>11. z.password = "none" => Begins(z.raw, raw) /\ z.pos = p + Len(z.raw)
  <2>1. CASE z.stage = "raw"
    BY <1>2, <2>1 DEF RawOK, raw, p
  <2>2. CASE z.stage = "fresh"
    <3> SUFFICES ASSUME z.password = "none"
                 PROVE  Begins(z.raw, raw) /\ z.pos = p + Len(z.raw)
      OBVIOUS
    <3>1. z.crypto = "plain"
      BY <1>2 DEF KindOK
    <3>2. Got(f, z) = << >>
      BY <1>2, <2>2 DEF FreshOK, Got
    <3>3. PlainOK(disk, f, z, << >>)
      BY <1>2, <2>2, <3>2 DEF InputOK
    <3> QED
      BY <1>10, <2>2, <3>1, <3>3 DEF PlainOK, raw, p
  <2> QED
    BY <2>1, <2>2
<1>12. z.password = "none" => Begins(y.raw, raw) /\ y.pos = p + Len(y.raw)
  <2> SUFFICES ASSUME z.password = "none"
               PROVE  Begins(y.raw, raw) /\ y.pos = p + Len(y.raw)
    OBVIOUS
  <2>1. Begins(z.raw, raw) /\ x.pos = p + Len(z.raw)
    BY <1>3, <1>11 DEF SameInput
  <2>2. Begins(z.raw \o o.out, raw) /\ o.z.pos = p + Len(z.raw \o o.out)
    BY <1>6, <2>1
  <2> QED
    BY <1>9, <2>2
<1>13. y.seen = "end" => Dry(disk, y)
  <2> SUFFICES ASSUME y.seen = "end" PROVE Dry(disk, o.z)
    BY <1>9 DEF Dry
  <2>1. CASE n > 0 /\ o.out = << >>
    <3>1. n # 0
      BY <2>1
    <3> QED
      BY <1>6, <2>1, <3>1
  <2>2. CASE ~(n > 0 /\ o.out = << >>)
    <3>1. z.seen = "end"
      BY <1>3, <1>6, <1>8, <2>2 DEF seen, SameReader
    <3>2. z.stage = "raw"
      BY <1>10, <3>1
    <3>3. Dry(disk, z)
      BY <1>2, <3>1, <3>2 DEF RawOK
    <3>4. Dry(disk, x)
      BY <1>3, <3>3 DEF Dry, SameInput
    <3> QED
      BY <1>6, <3>4
  <2> QED
    BY <2>1, <2>2
<1>14. RawOK(disk, f, y)
  BY <1>9, <1>10, <1>12, <1>13 DEF RawOK, raw, p
<1>15. KindOK(f, y)
  BY <1>2, <1>9 DEF KindOK
<1>16. Located(disk, f, y)
  BY <1>6, <1>9 DEF Located
<1>17. FreshOK(y) /\ DecoderOK(disk, f, y) /\ EndOK(disk, f, y)
  BY <1>9 DEF FreshOK, DecoderOK, EndOK
<1>18. Lent(disk, f, short_reads, y)
  BY <1>9, <1>14, <1>15, <1>16, <1>17 DEF Lent
<1>19. StaysOpen(f, z, y)
  BY <1>8, <1>9, <1>18 DEF StaysOpen
<1>20. y = [o.z EXCEPT !.raw = @ \o o.out,
              !.seen = IF n > 0 /\ o.out = << >> THEN "end" ELSE @]
  BY DEF y, seen
<1> QED
  BY <1>19, <1>20

-----------------------------------------------------------------------------
(***************************************************************************)
(* The calls that open a file.                                             *)
(***************************************************************************)
LEMMA NewKeyStreamOK == KeyStreamOK(NewKeyStream) /\ Used(NewKeyStream) = 0
<1>1. AES_BLOCK_SIZE \in Nat \ {0}
  BY BlockSizeAssumption
<1> QED
  BY <1>1 DEF KeyStreamOK, NewKeyStream, Used

\* A file as it is lent, with `remaining' bytes of data in front of AES's code.
Lending(i, crypto, password, stage, start, limit, remaining) ==
    [index |-> i, crypto |-> crypto, password |-> password, stage |-> stage,
     pos |-> start, limit |-> limit, synced |-> TRUE, ks |-> NewKeyStream,
     remaining |-> remaining, mac |-> << >>, fed |-> << >>, eof |-> FALSE,
     hasher |-> << >>, raw |-> << >>, seen |-> "nothing", failed |-> FALSE]

LEMMA FreshIsLending ==
    /\ \A i, crypto, password, start, limit :
         Fresh(i, crypto, password, start, limit) =
           Lending(i, crypto, password, "fresh", start, limit, 0)
    /\ \A i, crypto, password, start, limit, remaining :
         [Fresh(i, crypto, password, start, limit) EXCEPT !.remaining = remaining] =
           Lending(i, crypto, password, "fresh", start, limit, remaining)
    /\ \A i, crypto, password, start, limit :
         [Fresh(i, crypto, password, start, limit) EXCEPT !.stage = "raw"] =
           Lending(i, crypto, password, "raw", start, limit, 0)
<1>1. ASSUME NEW i, NEW crypto, NEW password, NEW start, NEW limit
      PROVE  Fresh(i, crypto, password, start, limit) =
               Lending(i, crypto, password, "fresh", start, limit, 0)
  BY DEF Fresh, Lending
<1>2. ASSUME NEW i, NEW crypto, NEW password, NEW start, NEW limit, NEW remaining
      PROVE  [Fresh(i, crypto, password, start, limit) EXCEPT !.remaining = remaining] =
               Lending(i, crypto, password, "fresh", start, limit, remaining)
  <2> DEFINE z == Fresh(i, crypto, password, start, limit)
             y == [z EXCEPT !.remaining = remaining]
  <2>1. z = Lending(i, crypto, password, "fresh", start, limit, 0)
    BY <1>1
  <2>2. z = [index |-> z.index, crypto |-> z.crypto, password |-> z.password,
             stage |-> z.stage, pos |-> z.pos, limit |-> z.limit,
             synced |-> z.synced, ks |-> z.ks, remaining |-> z.remaining,
             mac |-> z.mac, fed |-> z.fed, eof |-> z.eof, hasher |-> z.hasher,
             raw |-> z.raw, seen |-> z.seen, failed |-> z.failed]
    BY <2>1 DEF Lending
  <2>3. /\ z.index = i /\ z.crypto = crypto /\ z.password = password
        /\ z.stage = "fresh" /\ z.pos = start /\ z.limit = limit
        /\ z.synced = TRUE /\ z.ks = NewKeyStream /\ z.remaining = 0
        /\ z.mac = << >> /\ z.fed = << >> /\ z.eof = FALSE /\ z.hasher = << >>
        /\ z.raw = << >> /\ z.seen = "nothing" /\ z.failed = FALSE
    BY <2>1 DEF Lending
  <2> HIDE DEF z
  <2>4. y = [index |-> z.index, crypto |-> z.crypto, password |-> z.password,
             stage |-> z.stage, pos |-> z.pos, limit |-> z.limit,
             synced |-> z.synced, ks |-> z.ks, remaining |-> remaining,
             mac |-> z.mac, fed |-> z.fed, eof |-> z.eof, hasher |-> z.hasher,
             raw |-> z.raw, seen |-> z.seen, failed |-> z.failed]
    BY <2>2
  <2> HIDE DEF y
  <2>5. y = Lending(i, crypto, password, "fresh", start, limit, remaining)
    BY <2>3, <2>4 DEF Lending
  <2> QED
    BY <2>5 DEF y, z
<1>3. ASSUME NEW i, NEW crypto, NEW password, NEW start, NEW limit
      PROVE  [Fresh(i, crypto, password, start, limit) EXCEPT !.stage = "raw"] =
               Lending(i, crypto, password, "raw", start, limit, 0)
  <2> DEFINE z == Fresh(i, crypto, password, start, limit)
             y == [z EXCEPT !.stage = "raw"]
  <2>1. z = Lending(i, crypto, password, "fresh", start, limit, 0)
    BY <1>1
  <2>2. z = [index |-> z.index, crypto |-> z.crypto, password |-> z.password,
             stage |-> z.stage, pos |-> z.pos, limit |-> z.limit,
             synced |-> z.synced, ks |-> z.ks, remaining |-> z.remaining,
             mac |-> z.mac, fed |-> z.fed, eof |-> z.eof, hasher |-> z.hasher,
             raw |-> z.raw, seen |-> z.seen, failed |-> z.failed]
    BY <2>1 DEF Lending
  <2>3. /\ z.index = i /\ z.crypto = crypto /\ z.password = password
        /\ z.stage = "fresh" /\ z.pos = start /\ z.limit = limit
        /\ z.synced = TRUE /\ z.ks = NewKeyStream /\ z.remaining = 0
        /\ z.mac = << >> /\ z.fed = << >> /\ z.eof = FALSE /\ z.hasher = << >>
        /\ z.raw = << >> /\ z.seen = "nothing" /\ z.failed = FALSE
    BY <2>1 DEF Lending
  <2> HIDE DEF z
  <2>4. y = [index |-> z.index, crypto |-> z.crypto, password |-> z.password,
             stage |-> "raw", pos |-> z.pos, limit |-> z.limit,
             synced |-> z.synced, ks |-> z.ks, remaining |-> z.remaining,
             mac |-> z.mac, fed |-> z.fed, eof |-> z.eof, hasher |-> z.hasher,
             raw |-> z.raw, seen |-> z.seen, failed |-> z.failed]
    BY <2>2
  <2> HIDE DEF y
  <2>5. y = Lending(i, crypto, password, "raw", start, limit, 0)
    BY <2>3, <2>4 DEF Lending
  <2> QED
    BY <2>5 DEF y, z
<1> QED
  BY <1>1, <1>2, <1>3

LEMMA LendingIsFile ==
    ASSUME NEW i, NEW crypto \in {"plain", "zipcrypto", "aes"},
           NEW password \in Passwords \cup {"none"},
           NEW stage \in {"fresh", "raw"},
           NEW start \in Nat, NEW limit \in Nat, NEW remaining \in Nat
    PROVE  IsFile(Lending(i, crypto, password, stage, start, limit, remaining))
<1> DEFINE z == Lending(i, crypto, password, stage, start, limit, remaining)
<1>1. z = [index |-> i, crypto |-> crypto, password |-> password, stage |-> stage,
           pos |-> start, limit |-> limit, synced |-> TRUE, ks |-> NewKeyStream,
           remaining |-> remaining, mac |-> << >>, fed |-> << >>, eof |-> FALSE,
           hasher |-> << >>, raw |-> << >>, seen |-> "nothing", failed |-> FALSE]
  BY DEF Lending
<1> HIDE DEF z
<1>2. IsSeq(<< >>) /\ KeyStreamOK(NewKeyStream)
  BY EmptyIsSeq, NewKeyStreamOK
<1> QED
  BY <1>1, <1>2 DEF IsFile, z

LEMMA NoFileIsFile == IsFile(NoFile) /\ NoFile.index = 0
<1>1. NoFile = Lending(0, "plain", "none", "fresh", 0, 0, 0)
  BY FreshIsLending DEF NoFile
<1> QED
  BY <1>1, LendingIsFile DEF Lending

\* The header of entry i, and where its data begins, have been found.
Found(i) == SharedOK /\ i \in DOMAIN files /\ FindContent(disk, files[i]).ok

LEMMA FoundFacts ==
    ASSUME NEW i, Found(i)
    PROVE  LET f == files[i] IN
           /\ IsHeader(f) /\ i # 0
           /\ Start(disk, f) \in Nat \ {0} /\ f.compressed_size \in Nat
           /\ IsSeq(Data(disk, f)) /\ Len(Data(disk, f)) \in 0..f.compressed_size
           /\ \A g : ContentStart(g) = Start(disk, g)
           /\ Content(i) = Data(disk, f)
           /\ f.encrypted \in BOOLEAN
<1>1. IsHeader(files[i]) /\ i # 0
  BY SharedFacts DEF Found
<1>2. Start(disk, files[i]) \in Nat \ {0}
  BY <1>1, FoundContent DEF Found
<1>3. IsSeq(Data(disk, files[i]))
      /\ Len(Data(disk, files[i])) \in 0..files[i].compressed_size
  BY <1>1, DataCells DEF Found
<1> QED
  BY <1>1, <1>2, <1>3, StatelessIsState DEF IsHeader

\* A file that is lent to be decrypted and decoded.
LEMMA FreshLent ==
    ASSUME NEW i, Found(i), NEW z, IsFile(z), z.index = i, z.stage = "fresh",
           z.fed = << >>, z.hasher = << >>, z.raw = << >>, z.eof = FALSE,
           z.seen = "nothing",
           Located(disk, files[i], z), KindOK(files[i], z),
           InputOK(disk, files[i], short_reads, z, << >>)
    PROVE  Lent(disk, files[i], short_reads, z)
<1> DEFINE f == files[i]
<1>1. FreshOK(z) /\ RawOK(disk, f, z) /\ EndOK(disk, f, z)
  BY DEF FreshOK, RawOK, EndOK
<1>2. Got(f, z) = << >>
  BY DEF Got
<1>3. DecoderOK(disk, f, z)
  <2> SUFFICES ASSUME f.method # "stored"
               PROVE  /\ \A j \in 1..Len(<< >>) : IsData(<< >>[j])
                      /\ Begins(<< >>, Decoded(f, << >>))
    BY DEF DecoderOK
  <2>1. IsSeq(<< >>) /\ \A j \in 1..Len(<< >>) : IsData(<< >>[j])
    BY EmptyIsSeq
  <2>2. IsSeq(Decoded(f, << >>))
    <3> HIDE DEF f
    <3> QED
      BY <2>1, DecodedIsSeq
  <2> QED
    BY <2>1, <2>2, EmptyBegins
<1> QED
  BY <1>1, <1>2, <1>3 DEF Lent

\* What a call that opens entry i may lend.
MayLend(i, z) ==
    /\ IsFile(z) /\ z.index = i /\ Lent(disk, files[i], short_reads, z)
    /\ z.seen = "nothing" /\ ~z.failed

LEMMA PlainLent ==
    ASSUME NEW i, Found(i), files[i].method # "unsupported", ~files[i].encrypted
    PROVE  MayLend(i, Fresh(i, "plain", "none", ContentStart(files[i]),
                            files[i].compressed_size))
<1> DEFINE f == files[i]
           p == Start(disk, f)
           size == f.compressed_size
           z == Lending(i, "plain", "none", "fresh", p, size, 0)
<1>1. /\ p \in Nat /\ size \in Nat /\ IsSeq(Data(disk, f)) /\ ContentStart(f) = p
  BY FoundFacts
<1>2. z = Fresh(i, "plain", "none", ContentStart(f), size)
  BY <1>1, FreshIsLending
<1>3. IsFile(z)
  <2> HIDE DEF p, size
  <2> QED
    BY <1>1, LendingIsFile
<1>4. /\ z.index = i /\ z.stage = "fresh" /\ z.fed = << >> /\ z.hasher = << >>
      /\ z.raw = << >> /\ z.eof = FALSE /\ z.seen = "nothing" /\ ~z.failed
      /\ z.pos = p /\ z.limit = size /\ z.crypto = "plain" /\ z.password = "none"
  BY DEF Lending
<1> HIDE DEF z
<1>5. Located(disk, f, z)
  <2>1. FindContent(disk, f).ok
    BY DEF Found
  <2>2. p <= z.pos /\ z.pos + z.limit = p + f.compressed_size
    BY <1>1, <1>4
  <2> QED
    BY <2>1, <2>2 DEF Located
<1>6. KindOK(f, z)
  BY <1>4 DEF KindOK
<1>7. InputOK(disk, f, short_reads, z, << >>)
  <2>1. Begins(<< >>, Data(disk, f)) /\ z.pos = Start(disk, f) + Len(<< >>)
    <3>1. Begins(<< >>, Data(disk, f))
      BY <1>1, EmptyBegins
    <3>2. p = p + 0
      BY <1>1
    <3> QED
      BY <1>4, <3>1, <3>2, EmptyIsSeq
  <2> QED
    BY <1>4, <2>1 DEF InputOK, PlainOK, ZipCryptoOK, AesOK
<1>8. Lent(disk, f, short_reads, z)
  BY <1>3, <1>4, <1>5, <1>6, <1>7, FreshLent
<1> QED
  BY <1>2, <1>3, <1>4, <1>8 DEF MayLend

LEMMA RawLent ==
    ASSUME NEW i, Found(i)
    PROVE  MayLend(i, [Fresh(i, "plain", "none", ContentStart(files[i]),
                             files[i].compressed_size) EXCEPT !.stage = "raw"])
<1> DEFINE f == files[i]
           p == Start(disk, f)
           size == f.compressed_size
           z == Lending(i, "plain", "none", "raw", p, size, 0)
<1>1. /\ p \in Nat /\ size \in Nat /\ IsSeq(Data(disk, f)) /\ ContentStart(f) = p
  BY FoundFacts
<1>2. z = [Fresh(i, "plain", "none", ContentStart(f), size) EXCEPT !.stage = "raw"]
  BY <1>1, FreshIsLending
<1>3. IsFile(z)
  <2> HIDE DEF p, size
  <2> QED
    BY <1>1, LendingIsFile
<1>4. /\ z.index = i /\ z.stage = "raw" /\ z.hasher = << >>
      /\ z.raw = << >> /\ z.seen = "nothing" /\ ~z.failed
      /\ z.pos = p /\ z.limit = size /\ z.crypto = "plain" /\ z.password = "none"
  BY DEF Lending
<1> HIDE DEF z
<1>5. Located(disk, f, z)
  <2>1. FindContent(disk, f).ok
    BY DEF Found
  <2>2. p <= z.pos /\ z.pos + z.limit = p + f.compressed_size
    BY <1>1, <1>4
  <2> QED
    BY <2>1, <2>2 DEF Located
<1>6. KindOK(f, z)
  BY <1>4 DEF KindOK
<1>7. RawOK(disk, f, z)
  <2>1. Begins(<< >>, Data(disk, f))
    BY <1>1, EmptyBegins
  <2>2. p = p + 0
    BY <1>1
  <2>3. z.pos = Start(disk, f) + Len(<< >>)
    BY <1>4, <2>2, EmptyIsSeq
  <2> QED
    BY <1>4, <2>1, <2>3 DEF RawOK
<1>8. FreshOK(z) /\ DecoderOK(disk, f, z) /\ EndOK(disk, f, z)
  BY <1>4 DEF FreshOK, DecoderOK, EndOK
<1>9. Lent(disk, f, short_reads, z)
  BY <1>4, <1>5, <1>6, <1>7, <1>8 DEF Lent
<1> QED
  BY <1>2, <1>3, <1>4, <1>9 DEF MayLend

LEMMA ZipCryptoLent ==
    ASSUME NEW i, Found(i), files[i].method # "unsupported",
           files[i].encrypted, files[i].aes = "none",
           NEW password \in Passwords, Content(i) # << >>
    PROVE  MayLend(i, Fresh(i, "zipcrypto", password, ContentStart(files[i]) + 1,
                            files[i].compressed_size - 1))
<1> DEFINE f == files[i]
           p == Start(disk, f)
           size == f.compressed_size
           raw == Data(disk, f)
           z == Lending(i, "zipcrypto", password, "fresh", p + 1, size - 1, 0)
<1>1. /\ p \in Nat /\ size \in Nat /\ IsSeq(raw) /\ ContentStart(f) = p
      /\ Len(raw) \in 0..size /\ raw # << >>
  BY FoundFacts
<1>2. z = Fresh(i, "zipcrypto", password, ContentStart(f) + 1, size - 1)
  BY <1>1, FreshIsLending
<1> HIDE DEF p, size
<1>3. p + 1 \in Nat /\ size - 1 \in Nat
  <2>1. Len(raw) \in Nat \ {0}
    BY <1>1, LenIsNat
  <2> HIDE DEF raw
  <2> QED
    BY <1>1, <2>1
<1>4. IsFile(z)
  BY <1>3, LendingIsFile
<1>5. /\ z.index = i /\ z.stage = "fresh" /\ z.fed = << >> /\ z.hasher = << >>
      /\ z.raw = << >> /\ z.eof = FALSE /\ z.seen = "nothing" /\ ~z.failed
      /\ z.pos = p + 1 /\ z.limit = size - 1 /\ z.crypto = "zipcrypto"
      /\ z.password = password /\ z.synced = TRUE
  BY DEF Lending
<1> HIDE DEF z
<1>6. Located(disk, f, z)
  <2>1. FindContent(disk, f).ok
    BY DEF Found
  <2>2. p <= z.pos /\ z.pos + z.limit = p + size
    BY <1>1, <1>3, <1>5
  <2> QED
    BY <2>1, <2>2 DEF Located, p, size
<1>7. KindOK(f, z)
  <2>1. password # "none"
    BY ReaderAssumption
  <2> QED
    BY <1>5, <2>1 DEF KindOK
<1>8. InputOK(disk, f, short_reads, z, << >>)
  <2>1. Begins(<< >>, ClearOf(f, raw))
    <3>1. IsSeq(ClearOf(f, raw))
      BY <1>1, ZipCryptoClear
    <3> QED
      BY <3>1, EmptyBegins
  <2>2. p + 1 = p + 1 + 0
    BY <1>1
  <2>3. z.pos = p + 1 + Len(<< >>)
    BY <1>5, <2>2, EmptyIsSeq
  <2>4. Fits(raw, Len(<< >>))
    <3>1. \A k \in 2..0 + 1 : FALSE
      OBVIOUS
    <3> QED
      BY <3>1, EmptyIsSeq DEF Fits
  <2>5. ZipCryptoOK(disk, f, z, << >>)
    BY <1>1, <1>5, <2>1, <2>3, <2>4 DEF ZipCryptoOK, p
  <2> QED
    BY <1>5, <2>5 DEF InputOK, PlainOK, AesOK
<1>9. Lent(disk, f, short_reads, z)
  BY <1>4, <1>5, <1>6, <1>7, <1>8, FreshLent
<1> QED
  BY <1>2, <1>4, <1>5, <1>9 DEF MayLend, size

LEMMA AesLent ==
    ASSUME NEW i, Found(i), files[i].method # "unsupported",
           files[i].encrypted, files[i].aes # "none",
           NEW password \in Passwords, 2 <= Len(Content(i))
    PROVE  MayLend(i, [Fresh(i, "aes", password,
                             ContentStart(files[i]) + SALT_LENGTH + PWD_VERIFY_LENGTH,
                             files[i].compressed_size - SALT_LENGTH - PWD_VERIFY_LENGTH)
                         EXCEPT !.remaining = DataLength(files[i])])
<1> DEFINE f == files[i]
           p == Start(disk, f)
           size == f.compressed_size
           raw == Data(disk, f)
           dl == DataLength(f)
           start == p + SALT_LENGTH + PWD_VERIFY_LENGTH
           limit == size - SALT_LENGTH - PWD_VERIFY_LENGTH
           z == Lending(i, "aes", password, "fresh", start, limit, dl)
<1>1. /\ p \in Nat /\ size \in Nat /\ IsSeq(raw) /\ ContentStart(f) = p
      /\ Len(raw) \in 0..size /\ 2 <= Len(raw)
  BY FoundFacts
<1>2. dl \in Nat
  <2>1. IsHeader(f)
    BY FoundFacts
  <2> QED
    BY <2>1, DataLengthIsNat
<1>3. z = [Fresh(i, "aes", password, ContentStart(f) + SALT_LENGTH + PWD_VERIFY_LENGTH,
                 limit) EXCEPT !.remaining = dl]
  BY <1>1, FreshIsLending
<1> HIDE DEF p, size, dl
<1>4. start \in Nat /\ limit \in Nat /\ start = p + 2 /\ start + limit = p + size
  BY <1>1 DEF SALT_LENGTH, PWD_VERIFY_LENGTH
<1>5. IsFile(z)
  <2> HIDE DEF start, limit
  <2> QED
    BY <1>2, <1>4, LendingIsFile
<1>6. /\ z.index = i /\ z.stage = "fresh" /\ z.fed = << >> /\ z.hasher = << >>
      /\ z.raw = << >> /\ z.eof = FALSE /\ z.seen = "nothing" /\ ~z.failed
      /\ z.pos = start /\ z.limit = limit /\ z.crypto = "aes"
      /\ z.password = password /\ z.ks = NewKeyStream /\ z.mac = << >>
      /\ z.remaining = dl
  BY DEF Lending
<1> HIDE DEF z, start, limit
<1>7. Located(disk, f, z)
  <2>1. FindContent(disk, f).ok
    BY DEF Found
  <2>2. p <= z.pos /\ z.pos + z.limit = p + size
    BY <1>1, <1>4, <1>6
  <2> QED
    BY <2>1, <2>2 DEF Located, p, size
<1>8. KindOK(f, z)
  <2>1. password # "none"
    BY ReaderAssumption
  <2> QED
    BY <1>6, <2>1 DEF KindOK
<1>9. InputOK(disk, f, short_reads, z, << >>)
  <2>1. Begins(<< >>, ClearOf(f, raw))
    <3>1. IsSeq(ClearOf(f, raw))
      BY <1>1, <1>2, AesClear DEF dl
    <3> QED
      BY <3>1, EmptyBegins
  <2>2. Len(<< >>) = 0 /\ Used(NewKeyStream) = 0
    BY EmptyIsSeq, NewKeyStreamOK
  <2>3. /\ p + 2 = p + 2 + 0 /\ 0 + dl = dl /\ 2 + 0 <= Len(raw)
    BY <1>1, <1>2
  <2>4. /\ Len(<< >>) = Len(z.mac) /\ Used(z.ks) = Len(z.mac)
        /\ z.pos = p + 2 + Len(z.mac) /\ Len(z.mac) + z.remaining = dl
        /\ 2 + Len(z.mac) <= Len(raw)
        /\ \A j \in 1..Len(z.mac) : z.mac[j] = raw[j + 2]
    BY <1>4, <1>6, <2>2, <2>3
  <2>5. ~(z.remaining = 0 /\ dl > 0)
    BY <1>2, <1>6
  <2>6. AesOK(disk, f, z, << >>)
    BY <2>1, <2>4, <2>5 DEF AesOK, p, dl
  <2> QED
    BY <1>6, <2>6 DEF InputOK, PlainOK, ZipCryptoOK
<1>10. Lent(disk, f, short_reads, z)
  BY <1>5, <1>6, <1>7, <1>8, <1>9, FreshLent
<1> QED
  BY <1>3, <1>5, <1>6, <1>10 DEF MayLend, size, limit, dl

-----------------------------------------------------------------------------
(***************************************************************************)
(* The calls, as steps.                                                    *)
(***************************************************************************)
\* What such a call does to the file of its clone: nothing, or it lends one.
OpeningStep(c, i) ==
    \/ UNCHANGED file
       /\ \E r \in {"err", "invalid_password", "panic"} : Returns(c, r)
    \/ \E z : MayLend(i, z) /\ Lends(c, z)

LEMMA RefusesIsOpening ==
    ASSUME NEW c, NEW i, NEW r \in {"err", "invalid_password", "panic"}, Refuses(c, r)
    PROVE  OpeningStep(c, i)
BY DEF Refuses, OpeningStep

LEMMA RefusesPasswordIsOpening ==
    ASSUME NEW c, NEW i, NEW password, RefusesPassword(c, password)
    PROVE  OpeningStep(c, i)
<1>1. \E r \in {"invalid_password", "panic"} : Refuses(c, r)
  BY DEF RefusesPassword
<1> QED
  BY <1>1, RefusesIsOpening

LEMMA LendsIsOpening ==
    ASSUME NEW c, NEW i, NEW z, MayLend(i, z), Lends(c, z)
    PROVE  OpeningStep(c, i)
BY DEF OpeningStep

LEMMA MakeCryptoReaderOpens ==
    ASSUME NEW c, NEW i, Found(i), NEW password \in Passwords \cup {"none"},
           files[i].encrypted <=> password # "none",
           NEW given, MakeCryptoReader(c, i, password, given)
    PROVE  OpeningStep(c, i)
<1> DEFINE f == files[i]
           aes == f.aes # "none"
<1>1. CASE f.method = "unsupported"
  BY <1>1, RefusesIsOpening DEF MakeCryptoReader
<1>2. CASE f.method # "unsupported" /\ password # "none" /\ aes
  <2>1. OpensAes(c, i, password) /\ password \in Passwords /\ f.encrypted
    BY <1>2 DEF MakeCryptoReader
  <2> DEFINE whole == Len(Content(i)) >= SALT_LENGTH + PWD_VERIFY_LENGTH
             z == [Fresh(i, "aes", password,
                         ContentStart(f) + SALT_LENGTH + PWD_VERIFY_LENGTH,
                         f.compressed_size - SALT_LENGTH - PWD_VERIFY_LENGTH)
                     EXCEPT !.remaining = DataLength(f)]
  <2>2. \/ Refuses(c, "panic") \/ Refuses(c, "err")
        \/ whole /\ Lends(c, z)
        \/ RefusesPassword(c, password)
    BY <2>1 DEF OpensAes
  <2>3. CASE whole /\ Lends(c, z)
    <3>1. IsSeq(Content(i))
      BY FoundFacts
    <3>2. 2 <= Len(Content(i))
      BY <2>3, <3>1, LenIsNat DEF SALT_LENGTH, PWD_VERIFY_LENGTH
    <3>3. MayLend(i, z)
      BY <1>2, <2>1, <3>2, AesLent
    <3> HIDE DEF z
    <3> QED
      BY <2>3, <3>3, LendsIsOpening
  <2> QED
    BY <2>2, <2>3, RefusesIsOpening, RefusesPasswordIsOpening
<1>3. CASE f.method # "unsupported" /\ password # "none" /\ ~aes
  <2>1. OpensZipCrypto(c, i, password) /\ password \in Passwords /\ f.encrypted
    BY <1>3 DEF MakeCryptoReader
  <2> DEFINE z == Fresh(i, "zipcrypto", password, ContentStart(f) + 1,
                        f.compressed_size - 1)
  <2>2. \/ Refuses(c, "err")
        \/ Content(i) # << >> /\ Lends(c, z)
        \/ RefusesPassword(c, password)
    BY <2>1 DEF OpensZipCrypto
  <2>3. CASE Content(i) # << >> /\ Lends(c, z)
    <3>1. MayLend(i, z)
      BY <1>3, <2>1, <2>3, ZipCryptoLent
    <3> HIDE DEF z
    <3> QED
      BY <2>3, <3>1, LendsIsOpening
  <2> QED
    BY <2>2, <2>3, RefusesIsOpening, RefusesPasswordIsOpening
<1>4. CASE f.method # "unsupported" /\ password = "none" /\ aes
  <2>1. RefusesPassword(c, given)
    BY <1>4 DEF MakeCryptoReader
  <2> QED
    BY <2>1, RefusesPasswordIsOpening
<1>5. CASE f.method # "unsupported" /\ password = "none" /\ ~aes
  <2>1. OpensPlain(c, i) /\ ~f.encrypted
    BY <1>5 DEF MakeCryptoReader
  <2> DEFINE z == Fresh(i, "plain", "none", ContentStart(f), f.compressed_size)
  <2>2. Lends(c, z) /\ MayLend(i, z)
    BY <1>5, <2>1, PlainLent DEF OpensPlain
  <2> HIDE DEF z
  <2> QED
    BY <2>2, LendsIsOpening
<1> QED
  BY <1>1, <1>2, <1>3, <1>4, <1>5

\* by_index_with_optional_password: the data_start of the entry is stored
\* before a file is lent.
OpenStep(c, i) ==
    /\ \/ UNCHANGED data_start
       \/ FindContent(disk, files[i]).ok /\ StoreDataStart(i)
    /\ \/ UNCHANGED file
          /\ \E r \in {"err", "invalid_password", "panic"} : Returns(c, r)
       \/ FindContent(disk, files[i]).ok /\ StoreDataStart(i)
          /\ \E z : MayLend(i, z) /\ Lends(c, z)

LEMMA OpenIsStep ==
    ASSUME SharedOK, NEW c, NEW i \in DOMAIN files,
           NEW given \in Passwords \cup {"none"}, Open(c, i, given)
    PROVE  OpenStep(c, i)
<1> DEFINE f == files[i]
           password == IF f.encrypted THEN given ELSE "none"
<1>1. CASE Refuses(c, "err") /\ UNCHANGED data_start
  BY <1>1 DEF OpenStep, Refuses
<1>2. CASE /\ ~PasswordRequired(f, given) /\ FindContent(disk, f).ok
           /\ StoreDataStart(i)
           /\ MakeCryptoReader(c, i, password, given)
  <2>1. Found(i)
    BY <1>2 DEF Found
  <2>2. f.encrypted \in BOOLEAN
    BY <2>1, FoundFacts
  <2>3. /\ password \in Passwords \cup {"none"}
        /\ f.encrypted <=> password # "none"
    BY <1>2, <2>2 DEF PasswordRequired
  <2> HIDE DEF password
  <2>4. OpeningStep(c, i)
    BY <1>2, <2>1, <2>3, MakeCryptoReaderOpens
  <2> QED
    BY <1>2, <2>4 DEF OpenStep, OpeningStep
<1> QED
  BY <1>1, <1>2 DEF Open

\* A file that is open, or none, in an archive d with the directory fs and the
\* data_starts ds.
FileIn(d, fs, ds, s, z) ==
    /\ IsFile(z)
    /\ z.index # 0 =>
         /\ z.index \in DOMAIN fs /\ ds[z.index] # 0
         /\ Lent(d, fs[z.index], s, z)

LEMMA FilesAreOK ==
    /\ FilesOK <=>
         /\ DOMAIN file = Clones
         /\ \A c \in Clones : FileIn(disk, files, data_start, short_reads, file[c])
    /\ FilesOK' <=>
         /\ DOMAIN file' = Clones
         /\ \A c \in Clones : FileIn(disk', files', data_start', short_reads', file'[c])
<1>1. FilesOK <=>
         /\ DOMAIN file = Clones
         /\ \A c \in Clones : FileIn(disk, files, data_start, short_reads, file[c])
  BY DEF FilesOK, FileIn, IsOpen, Entry
<1>2. FilesOK' <=>
         /\ DOMAIN file' = Clones
         /\ \A c \in Clones : FileIn(disk', files', data_start', short_reads', file'[c])
  BY DEF FilesOK, FileIn, IsOpen, Entry
<1> QED
  BY <1>1, <1>2

\* What every step keeps: the archive, and that an entry's data_start is known
\* once it was stored.
Keeps ==
    /\ UNCHANGED shared
    /\ \A i \in DOMAIN files : data_start[i] # 0 => data_start'[i] # 0

LEMMA FileKept ==
    ASSUME Keeps, NEW z, FileIn(disk, files, data_start, short_reads, z)
    PROVE  FileIn(disk', files', data_start', short_reads', z)
<1>1. files' = files /\ disk' = disk /\ short_reads' = short_reads
  BY DEF Keeps, shared
<1> QED
  BY <1>1 DEF FileIn, Keeps

\* A step that changes no file, or that of one clone to one that is as it
\* should be.
LEMMA FilesKept ==
    ASSUME Keeps, FilesOK, UNCHANGED file
    PROVE  FilesOK'
<1>1. \A c \in Clones : FileIn(disk, files, data_start, short_reads, file[c])
  BY FilesAreOK
<1>2. \A c \in Clones : FileIn(disk', files', data_start', short_reads', file[c])
  BY <1>1, FileKept
<1> QED
  BY <1>2, FilesAreOK

LEMMA SetFileKeeps ==
    ASSUME Keeps, FilesOK, NEW c \in Clones, NEW y, SetFile(c, y),
           FileIn(disk', files', data_start', short_reads', y)
    PROVE  FilesOK'
<1>1. /\ DOMAIN file = Clones /\ DOMAIN file' = Clones
      /\ \A b \in Clones : FileIn(disk, files, data_start, short_reads, file[b])
      /\ \A b \in Clones : file'[b] = IF b = c THEN y ELSE file[b]
  BY FilesAreOK DEF SetFile
<1>2. \A b \in Clones : FileIn(disk', files', data_start', short_reads', file[b])
  BY <1>1, FileKept
<1>3. \A b \in Clones : FileIn(disk', files', data_start', short_reads', file'[b])
  BY <1>1, <1>2
<1> QED
  BY <1>1, <1>3, FilesAreOK

\* A step that leaves the archive and all that is stored in common alone.
LEMMA Unshared ==
    ASSUME SharedOK, DataStartOK, UNCHANGED shared, UNCHANGED data_start
    PROVE  Keeps /\ SharedOK' /\ DataStartOK'
BY DEF Keeps, SharedOK, DataStartOK, shared

\* A read of an open file.
LEMMA StaysOpenKeeps ==
    ASSUME SharedOK, DataStartOK, FilesOK, UNCHANGED shared, UNCHANGED data_start,
           NEW c \in Clones, IsOpen(c),
           NEW y, SetFile(c, y), StaysOpen(Entry(file[c]), file[c], y)
    PROVE  FilesOK'
<1> DEFINE z == file[c]
           i == z.index
           f == files[i]
<1>1. Keeps
  BY Unshared
<1>2. i # 0 /\ i \in DOMAIN files /\ data_start[i] # 0
  BY FilesAreOK DEF FileIn, IsOpen
<1>3. /\ IsFile(y) /\ y.index = i /\ Lent(disk, f, short_reads, y)
  BY DEF StaysOpen, Entry
<1>4. FileIn(disk, files, data_start, short_reads, y)
  <2> HIDE DEF i
  <2> QED
    BY <1>2, <1>3 DEF FileIn
<1>5. FileIn(disk', files', data_start', short_reads', y)
  BY <1>1, <1>4, FileKept
<1> QED
  BY <1>1, <1>5, SetFileKeeps

LEMMA OpenFileOf ==
    ASSUME SharedOK, FilesOK, NEW c \in Clones, IsOpen(c)
    PROVE  OpenFile(Entry(file[c]), file[c])
<1>1. FileIn(disk, files, data_start, short_reads, file[c]) /\ file[c].index # 0
  BY FilesAreOK DEF IsOpen
<1>2. file[c].index \in DOMAIN files /\ IsHeader(files[file[c].index])
  BY <1>1, SharedFacts DEF FileIn
<1> QED
  BY <1>1, <1>2 DEF FileIn, OpenFile, Entry

\* A call that opens an entry.
LEMMA StoreDataStartKeeps ==
    ASSUME SharedOK, DataStartOK, UNCHANGED shared, NEW i \in DOMAIN files,
           FindContent(disk, files[i]).ok, StoreDataStart(i)
    PROVE  Keeps /\ SharedOK' /\ DataStartOK' /\ data_start'[i] # 0
<1>1. /\ disk' = disk /\ files' = files /\ short_reads' = short_reads
      /\ data_start \in [DOMAIN files -> Nat]
  BY DEF shared, DataStartOK
<1>2. IsHeader(files[i])
  BY SharedFacts
<1>3. /\ StoredDataStart(i) = Start(disk, files[i])
      /\ Start(disk, files[i]) \in Nat \ {0}
  <2>1. Start(disk, files[i]) \in Nat \ {0}
    BY <1>2, FoundContent
  <2> QED
    BY <2>1, StatelessIsState DEF StoredDataStart
<1>4. /\ data_start' \in [DOMAIN files -> Nat]
      /\ \A j \in DOMAIN files :
           data_start'[j] = IF j = i THEN Start(disk, files[i]) ELSE data_start[j]
  BY <1>1, <1>3 DEF StoreDataStart
<1>5. DataStartOK'
  <2>1. \A j \in DOMAIN files : data_start'[j] # 0 =>
          FindContent(disk, files[j]).ok /\ data_start'[j] = Start(disk, files[j])
    BY <1>4 DEF DataStartOK
  <2> QED
    BY <1>1, <1>4, <2>1 DEF DataStartOK
<1> QED
  BY <1>1, <1>3, <1>4, <1>5 DEF Keeps, SharedOK

LEMMA OpenStepKeeps ==
    ASSUME SharedOK, DataStartOK, FilesOK, UNCHANGED shared,
           NEW c \in Clones, NEW i \in DOMAIN files, OpenStep(c, i)
    PROVE  SharedOK' /\ DataStartOK' /\ FilesOK'
<1>1. Keeps /\ SharedOK' /\ DataStartOK'
  BY Unshared, StoreDataStartKeeps DEF OpenStep
<1>2. CASE UNCHANGED file
  BY <1>1, <1>2, FilesKept
<1>3. CASE /\ FindContent(disk, files[i]).ok /\ StoreDataStart(i)
           /\ \E z : MayLend(i, z) /\ Lends(c, z)
  <2>1. PICK z : MayLend(i, z) /\ Lends(c, z)
    BY <1>3
  <2>2. data_start'[i] # 0
    BY <1>3, StoreDataStartKeeps
  <2>3. disk' = disk /\ files' = files /\ short_reads' = short_reads
    BY DEF shared
  <2>4. FileIn(disk', files', data_start', short_reads', z)
    BY <2>1, <2>2, <2>3 DEF MayLend, FileIn
  <2>5. SetFile(c, z)
    BY <2>1 DEF Lends
  <2> QED
    BY <1>1, <2>4, <2>5, SetFileKeeps
<1> QED
  BY <1>1, <1>2, <1>3 DEF OpenStep

\* ResultsOK of a call that opens, and of any other step.
LEMMA ReturnsOK ==
    ASSUME ResultsOK, NEW c \in Clones,
           NEW r \in {"none", "ok", "err", "invalid_password", "panic"},
           Returns(c, r), faults' \in 0..MaxFaults
    PROVE  ResultsOK'
BY DEF ResultsOK, Returns

LEMMA OpenStepResults ==
    ASSUME ResultsOK, NEW c \in Clones, NEW i, OpenStep(c, i),
           UNCHANGED faults
    PROVE  ResultsOK'
<1>1. \E r \in {"ok", "err", "invalid_password", "panic"} : Returns(c, r)
  BY DEF OpenStep, Lends
<1>2. PICK r \in {"ok", "err", "invalid_password", "panic"} : Returns(c, r)
  BY <1>1
<1>3. faults' \in 0..MaxFaults
  BY DEF ResultsOK
<1> QED
  BY <1>2, <1>3, ReturnsOK

\* names_map holds the last entry of a name.
LEMMA LastNamed ==
    ASSUME IsSeq(files), NEW n, Named(n) # {}
    PROVE  Max(Named(n)) \in DOMAIN files
<1> DEFINE S == Named(n)
           l == Len(files)
           T == {l - i : i \in S}
<1>1. l \in Nat /\ DOMAIN files = 1..l /\ S \subseteq 1..l
  BY LenIsNat, LenProperties DEF IsSeq, Named
<1> HIDE DEF S, l
<1>2. T \subseteq Nat /\ T # {}
  BY <1>1 DEF S
<1>3. PICK m \in T : \A k \in T : m <= k
  BY <1>2, SmallestNat
<1>4. PICK i \in S : m = l - i
  BY <1>3
<1>5. \A j \in S : i >= j
  <2> TAKE j \in S
  <2>1. l - j \in T
    OBVIOUS
  <2>2. l - i <= l - j
    BY <1>3, <1>4, <2>1
  <2> QED
    BY <1>1, <2>2
<1>6. Max(S) \in S
  BY <1>4, <1>5 DEF Max
<1> QED
  BY <1>1, <1>6 DEF S

\* Each action keeps the invariant.
LEMMA OpensKeep ==
    ASSUME ReaderInv, NEW c \in Clones, NEW i \in DOMAIN files,
           NEW given \in Passwords \cup {"none"}, Open(c, i, given),
           UNCHANGED <<shared, faults>>
    PROVE  ReaderInv'
<1>1. OpenStep(c, i)
  BY OpenIsStep DEF ReaderInv
<1>2. SharedOK' /\ DataStartOK' /\ FilesOK'
  BY <1>1, OpenStepKeeps DEF ReaderInv
<1>3. ResultsOK'
  BY <1>1, OpenStepResults DEF ReaderInv
<1> QED
  BY <1>2, <1>3 DEF ReaderInv

LEMMA RefusesKeeps ==
    ASSUME ReaderInv, NEW c \in Clones, Refuses(c, "err"), UNCHANGED data_start,
           UNCHANGED shared, faults' \in 0..MaxFaults
    PROVE  ReaderInv'
<1>1. Keeps /\ SharedOK' /\ DataStartOK'
  BY Unshared DEF ReaderInv
<1>2. FilesOK'
  BY <1>1, FilesKept DEF ReaderInv, Refuses
<1>3. ResultsOK'
  BY ReturnsOK DEF ReaderInv, Refuses
<1> QED
  BY <1>1, <1>2, <1>3 DEF ReaderInv

LEMMA ByIndexKeeps ==
    ASSUME ReaderInv, NEW c \in Clones, ByIndex(c)
    PROVE  ReaderInv'
<1>1. PICK i \in DOMAIN files : Open(c, i, "none")
  BY DEF ByIndex
<1> QED
  BY <1>1, OpensKeep DEF ByIndex

LEMMA ByIndexDecryptKeeps ==
    ASSUME ReaderInv, NEW c \in Clones, ByIndexDecrypt(c)
    PROVE  ReaderInv'
<1>1. PICK i \in DOMAIN files, password \in Passwords : Open(c, i, password)
  BY DEF ByIndexDecrypt
<1> QED
  BY <1>1, OpensKeep DEF ByIndexDecrypt

LEMMA ByNameKeeps ==
    ASSUME ReaderInv, NEW c \in Clones, ByName(c)
    PROVE  ReaderInv'
<1>1. PICK n \in Names, password \in Passwords \cup {"none"} :
        \/ Named(n) # {} /\ Open(c, Max(Named(n)), password)
        \/ Named(n) = {} /\ Refuses(c, "err") /\ UNCHANGED data_start
  BY DEF ByName
<1>2. UNCHANGED shared /\ UNCHANGED faults /\ UNCHANGED <<shared, faults>>
      /\ faults' \in 0..MaxFaults
  BY DEF ByName, ReaderInv, ResultsOK
<1>3. CASE Named(n) # {} /\ Open(c, Max(Named(n)), password)
  <2> DEFINE i == Max(Named(n))
  <2>1. i \in DOMAIN files
    BY <1>3, LastNamed, SharedFacts DEF ReaderInv
  <2>2. Open(c, i, password)
    BY <1>3
  <2> HIDE DEF i
  <2> QED
    BY <1>2, <2>1, <2>2, OpensKeep
<1>4. CASE Refuses(c, "err") /\ UNCHANGED data_start
  BY <1>2, <1>4, RefusesKeeps
<1> QED
  BY <1>1, <1>3, <1>4

LEMMA ByIndexRawKeeps ==
    ASSUME ReaderInv, NEW c \in Clones, ByIndexRaw(c)
    PROVE  ReaderInv'
<1> DEFINE Z(i) == [Fresh(i, "plain", "none", ContentStart(files[i]),
                          files[i].compressed_size) EXCEPT !.stage = "raw"]
<1>1. PICK i \in DOMAIN files :
         \/ /\ ~FindContent(disk, files[i]).ok
            /\ Refuses(c, "err") /\ UNCHANGED data_start
         \/ /\ FindContent(disk, files[i]).ok
            /\ StoreDataStart(i)
            /\ Lends(c, Z(i))
  BY DEF ByIndexRaw
<1>2. UNCHANGED shared /\ UNCHANGED faults /\ faults' \in 0..MaxFaults
  BY DEF ByIndexRaw, ReaderInv, ResultsOK
<1>3. CASE Refuses(c, "err") /\ UNCHANGED data_start
  BY <1>2, <1>3, RefusesKeeps
<1>4. CASE FindContent(disk, files[i]).ok /\ StoreDataStart(i) /\ Lends(c, Z(i))
  <2> DEFINE z == Z(i)
  <2>1. MayLend(i, z)
    <3>1. Found(i)
      BY <1>4 DEF Found, ReaderInv
    <3> QED
      BY <3>1, RawLent
  <2>2. Lends(c, z)
    BY <1>4
  <2> HIDE DEF z
  <2>3. OpenStep(c, i)
    BY <1>4, <2>1, <2>2 DEF OpenStep
  <2> HIDE DEF Z
  <2>4. SharedOK' /\ DataStartOK' /\ FilesOK'
    BY <1>2, <2>3, OpenStepKeeps DEF ReaderInv
  <2>5. ResultsOK'
    BY <1>2, <2>3, OpenStepResults DEF ReaderInv
  <2> QED
    BY <2>4, <2>5 DEF ReaderInv
<1> QED
  BY <1>1, <1>3, <1>4

LEMMA OpenFailsKeeps ==
    ASSUME ReaderInv, NEW c \in Clones, OpenFails(c)
    PROVE  ReaderInv'
<1>1. UNCHANGED shared /\ faults' \in 0..MaxFaults /\ Refuses(c, "err")
  BY ReaderAssumption DEF OpenFails, ReaderInv, ResultsOK
<1>2. PICK i \in DOMAIN files :
         \/ UNCHANGED data_start
         \/ FindContent(disk, files[i]).ok /\ StoreDataStart(i)
  BY DEF OpenFails
<1>3. CASE UNCHANGED data_start
  BY <1>1, <1>3, RefusesKeeps
<1>4. CASE FindContent(disk, files[i]).ok /\ StoreDataStart(i)
  <2>1. Keeps /\ SharedOK' /\ DataStartOK'
    BY <1>1, <1>4, StoreDataStartKeeps DEF ReaderInv
  <2>2. FilesOK'
    BY <1>1, <2>1, FilesKept DEF ReaderInv, Refuses
  <2>3. ResultsOK'
    BY <1>1, ReturnsOK DEF ReaderInv, Refuses
  <2> QED
    BY <2>1, <2>2, <2>3 DEF ReaderInv
<1> QED
  BY <1>2, <1>3, <1>4

\* Reads and the rest: what is common to those that keep the file open.
LEMMA ReadKeeps ==
    ASSUME ReaderInv, NEW c \in Clones, IsOpen(c), UNCHANGED shared,
           UNCHANGED data_start, UNCHANGED result, faults' \in 0..MaxFaults,
           NEW y, SetFile(c, y), StaysOpen(Entry(file[c]), file[c], y)
    PROVE  ReaderInv'
<1>1. SharedOK' /\ DataStartOK'
  BY Unshared DEF ReaderInv
<1>2. FilesOK'
  BY StaysOpenKeeps DEF ReaderInv
<1>3. ResultsOK'
  BY DEF ReaderInv, ResultsOK
<1> QED
  BY <1>1, <1>2, <1>3 DEF ReaderInv

LEMMA DecodingOf ==
    ASSUME ReaderInv, NEW c \in Clones, IsDecoded(c)
    PROVE  LET f == Entry(file[c])
               x == Decoding(file[c])
           IN  /\ OpenFile(f, x) /\ x.index = file[c].index /\ x.stage = "decoding"
               /\ x.fed = file[c].fed /\ x.eof = file[c].eof
               /\ x.hasher = file[c].hasher
               /\ \A y : StaysOpen(f, x, y) => StaysOpen(f, file[c], y)
               /\ f.method \in Decoders => f.method # "stored"
<1> DEFINE f == Entry(file[c])
           z == file[c]
           x == Decoding(z)
<1>1. OpenFile(f, z) /\ z.stage \in {"fresh", "decoding"}
  BY OpenFileOf DEF ReaderInv, IsDecoded
<1>2. /\ OpenFile(f, x) /\ x.index = z.index /\ x.stage = "decoding"
      /\ x.fed = z.fed /\ x.eof = z.eof /\ x.hasher = z.hasher
  <2> HIDE DEF f, z
  <2> QED
    BY <1>1, FirstRead
<1>3. \A y : StaysOpen(f, x, y) => StaysOpen(f, z, y)
  BY <1>2 DEF StaysOpen
<1>4. f.method \in Decoders => f.method # "stored"
  BY DecodersAssumption
<1> QED
  BY <1>2, <1>3, <1>4

LEMMA ReadStoredKeeps ==
    ASSUME ReaderInv, NEW c \in Clones, ReadStored(c)
    PROVE  ReaderInv'
<1> DEFINE f == Entry(file[c])
           x == Decoding(file[c])
           Y(n, o) == IF o.ok THEN Checked(o.z, n, o.out) ELSE Failed(o.z)
<1>1. PICK n \in 0..MaxBuffer : \E o \in CryptoRead(x, n) : SetFile(c, Y(n, o))
  BY DEF ReadStored
<1>2. PICK o \in CryptoRead(x, n) : SetFile(c, Y(n, o))
  BY <1>1
<1>3. /\ IsOpen(c) /\ IsDecoded(c) /\ f.method = "stored" /\ UNCHANGED shared
      /\ UNCHANGED data_start /\ UNCHANGED result /\ faults' \in 0..MaxFaults
  BY DEF ReadStored, IsDecoded, ReaderInv, ResultsOK
<1>4. n \in Nat
  BY ReaderAssumption
<1>5. StaysOpen(f, x, Y(n, o))
  <2>1. OpenFile(f, x) /\ x.stage = "decoding"
    BY <1>3, DecodingOf
  <2> HIDE DEF f, x
  <2> QED
    BY <1>2, <1>3, <1>4, <2>1, ReadStoredStays
<1> DEFINE y == Y(n, o)
<1>6. SetFile(c, y) /\ StaysOpen(f, file[c], y)
  BY <1>2, <1>3, <1>5, DecodingOf
<1> HIDE DEF y
<1> QED
  BY <1>3, <1>6, ReadKeeps

LEMMA DecoderFillsKeeps ==
    ASSUME ReaderInv, NEW c \in Clones, DecoderFills(c)
    PROVE  ReaderInv'
<1> DEFINE f == Entry(file[c])
           x == Decoding(file[c])
           Y(o) == IF o.ok THEN [o.z EXCEPT !.fed = @ \o o.out, !.eof = o.out = << >>]
                           ELSE Failed(o.z)
<1>1. PICK o \in CryptoRead(x, DecoderBuffer) : SetFile(c, Y(o))
  BY DEF DecoderFills
<1>2. /\ IsOpen(c) /\ IsDecoded(c) /\ f.method \in Decoders /\ UNCHANGED shared
      /\ UNCHANGED data_start /\ UNCHANGED result /\ faults' \in 0..MaxFaults
      /\ DecoderEnd(f, file[c].fed) = 0 /\ ~file[c].eof
  BY DEF DecoderFills, HasDecoder, IsDecoded, ReaderInv, ResultsOK, AtMarker
<1>3. StaysOpen(f, x, Y(o))
  <2>1. /\ OpenFile(f, x) /\ x.stage = "decoding" /\ f.method # "stored"
        /\ DecoderEnd(f, x.fed) = 0 /\ ~x.eof
    BY <1>2, DecodingOf
  <2> HIDE DEF f, x
  <2> QED
    BY <1>1, <2>1, DecoderFillsStays
<1> DEFINE y == Y(o)
<1>4. SetFile(c, y) /\ StaysOpen(f, file[c], y)
  BY <1>1, <1>2, <1>3, DecodingOf
<1> HIDE DEF y
<1> QED
  BY <1>2, <1>4, ReadKeeps

LEMMA DecoderReturnsKeeps ==
    ASSUME ReaderInv, NEW c \in Clones, DecoderReturns(c)
    PROVE  ReaderInv'
<1> DEFINE f == Entry(file[c])
           x == file[c]
           z == [x EXCEPT !.eof = FALSE]
<1>1. /\ IsOpen(c) /\ IsDecoded(c) /\ f.method \in Decoders /\ UNCHANGED shared
      /\ UNCHANGED data_start /\ UNCHANGED result /\ faults' \in 0..MaxFaults
      /\ x.stage = "decoding"
  BY DEF DecoderReturns, HasDecoder, IsDecoded, ReaderInv, ResultsOK
<1>2. PICK y : SetFile(c, y) /\ DecoderPassesOn(x, z, y)
  BY DEF DecoderReturns, DecoderPassesOn
<1>3. StaysOpen(f, x, y)
  <2>1. OpenFile(f, x) /\ f.method # "stored"
    BY <1>1, OpenFileOf, DecodersAssumption DEF ReaderInv
  <2> HIDE DEF f, x
  <2> QED
    BY <1>1, <1>2, <2>1, DecoderReturnsStays
<1> QED
  BY <1>1, <1>2, <1>3, ReadKeeps

LEMMA ReadFailsKeeps ==
    ASSUME ReaderInv, NEW c \in Clones, ReadFails(c)
    PROVE  ReaderInv'
<1> DEFINE f == Entry(file[c])
           x == Decoding(file[c])
           Y(w) == Failed([w EXCEPT !.eof = FALSE])
<1>1. PICK n \in 1..MaxBuffer \cup {DecoderBuffer} :
        \E w \in CryptoReadFails(x, n) : SetFile(c, Y(w))
  BY DEF ReadFails
<1>2. PICK w \in CryptoReadFails(x, n) : SetFile(c, Y(w))
  BY <1>1
<1>3. /\ IsOpen(c) /\ IsDecoded(c) /\ UNCHANGED shared
      /\ UNCHANGED data_start /\ UNCHANGED result /\ faults' \in 0..MaxFaults
  BY ReaderAssumption DEF ReadFails, IsDecoded, ReaderInv, ResultsOK
<1>4. n \in Nat
  BY ReaderAssumption
<1>5. StaysOpen(f, x, Y(w))
  <2>1. OpenFile(f, x) /\ x.stage = "decoding"
    BY <1>3, DecodingOf
  <2> HIDE DEF f, x
  <2> QED
    BY <1>2, <1>4, <2>1, ReadFailsStays
<1> DEFINE y == Y(w)
<1>6. SetFile(c, y) /\ StaysOpen(f, file[c], y)
  BY <1>2, <1>3, <1>5, DecodingOf
<1> HIDE DEF y
<1> QED
  BY <1>3, <1>6, ReadKeeps

LEMMA ReadRawKeeps ==
    ASSUME ReaderInv, NEW c \in Clones, ReadRaw(c)
    PROVE  ReaderInv'
<1> DEFINE f == Entry(file[c])
           z == file[c]
           Y(n, o) == [o.z EXCEPT !.raw = @ \o o.out,
                         !.seen = IF n > 0 /\ o.out = << >> THEN "end" ELSE @]
<1>1. PICK n \in 0..MaxBuffer :
        \E o \in PlainRead([z EXCEPT !.stage = "raw"], n) : SetFile(c, Y(n, o))
  BY DEF ReadRaw
<1>2. PICK o \in PlainRead([z EXCEPT !.stage = "raw"], n) : SetFile(c, Y(n, o))
  BY <1>1
<1>3. /\ IsOpen(c) /\ UNCHANGED shared
      /\ UNCHANGED data_start /\ UNCHANGED result /\ faults' \in 0..MaxFaults
      /\ z.stage \in {"fresh", "raw"}
  BY DEF ReadRaw, ReaderInv, ResultsOK
<1>4. n \in Nat
  BY ReaderAssumption
<1>5. StaysOpen(f, z, Y(n, o))
  <2>1. OpenFile(f, z)
    BY <1>3, OpenFileOf DEF ReaderInv
  <2> HIDE DEF f, z
  <2> QED
    BY <1>2, <1>3, <1>4, <2>1, ReadRawStays
<1> DEFINE y == Y(n, o)
<1>6. SetFile(c, y) /\ StaysOpen(f, file[c], y)
  BY <1>2, <1>5
<1> HIDE DEF y
<1> QED
  BY <1>3, <1>6, ReadKeeps

LEMMA NoFileKeeps ==
    ASSUME ReaderInv, NEW c \in Clones, SetFile(c, NoFile),
           UNCHANGED shared, UNCHANGED data_start
    PROVE  SharedOK' /\ DataStartOK' /\ FilesOK'
<1>1. Keeps /\ SharedOK' /\ DataStartOK'
  BY Unshared DEF ReaderInv
<1>2. FileIn(disk', files', data_start', short_reads', NoFile)
  BY NoFileIsFile DEF FileIn
<1>3. FilesOK'
  BY <1>1, <1>2, SetFileKeeps DEF ReaderInv
<1> QED
  BY <1>1, <1>3

LEMMA DropFileKeeps ==
    ASSUME ReaderInv, NEW c \in Clones, DropFile(c)
    PROVE  ReaderInv'
<1>1. SharedOK' /\ DataStartOK' /\ FilesOK'
  BY NoFileKeeps DEF DropFile
<1>2. ResultsOK'
  BY DEF DropFile, ReaderInv, ResultsOK
<1> QED
  BY <1>1, <1>2 DEF ReaderInv

LEMMA MakeReaderPanicsKeeps ==
    ASSUME ReaderInv, NEW c \in Clones, MakeReaderPanics(c)
    PROVE  ReaderInv'
<1>1. SharedOK' /\ DataStartOK' /\ FilesOK'
  BY NoFileKeeps DEF MakeReaderPanics
<1>2. ResultsOK'
  <2>1. Returns(c, "panic") /\ faults' \in 0..MaxFaults
    BY DEF MakeReaderPanics, ReaderInv, ResultsOK
  <2> QED
    BY <2>1, ReturnsOK DEF ReaderInv
<1> QED
  BY <1>1, <1>2 DEF ReaderInv

-----------------------------------------------------------------------------
(***************************************************************************)
(* The theorems.                                                           *)
(***************************************************************************)
LEMMA InitIsReader == Init => ReaderInv
<1> SUFFICES ASSUME Init PROVE ReaderInv
  OBVIOUS
<1>1. SharedOK
  BY ReaderAssumption DEF Init, SharedOK
<1>2. DataStartOK
  BY DEF Init, DataStartOK
<1>3. FilesOK
  <2>1. DOMAIN file = Clones /\ \A c \in Clones : file[c] = NoFile
    BY DEF Init
  <2>2. FileIn(disk, files, data_start, short_reads, NoFile)
    BY NoFileIsFile DEF FileIn
  <2> QED
    BY <2>1, <2>2, FilesAreOK
<1>4. ResultsOK
  BY ReaderAssumption DEF Init, ResultsOK
<1> QED
  BY <1>1, <1>2, <1>3, <1>4 DEF ReaderInv

LEMMA StepKeepsReader == ReaderInv /\ [Next]_vars => ReaderInv'
<1> SUFFICES ASSUME ReaderInv, [Next]_vars PROVE ReaderInv'
  OBVIOUS
<1>1. CASE UNCHANGED vars
  <2>1. /\ UNCHANGED shared /\ UNCHANGED data_start /\ UNCHANGED file
        /\ UNCHANGED result /\ UNCHANGED faults
    BY <1>1 DEF vars
  <2>2. Keeps /\ SharedOK' /\ DataStartOK'
    BY <2>1, Unshared DEF ReaderInv
  <2>3. FilesOK'
    BY <2>1, <2>2, FilesKept DEF ReaderInv
  <2>4. ResultsOK'
    BY <2>1 DEF ReaderInv, ResultsOK
  <2> QED
    BY <2>2, <2>3, <2>4 DEF ReaderInv
<1>2. CASE Next
  <2>1. PICK c \in Clones :
          \/ ByIndex(c) \/ ByIndexDecrypt(c) \/ ByName(c) \/ ByIndexRaw(c)
          \/ OpenFails(c)
          \/ ReadStored(c) \/ DecoderFills(c) \/ DecoderReturns(c)
          \/ MakeReaderPanics(c) \/ ReadFails(c) \/ ReadRaw(c) \/ DropFile(c)
    BY <1>2 DEF Next
  <2> QED
    BY <2>1, ByIndexKeeps, ByIndexDecryptKeeps, ByNameKeeps, ByIndexRawKeeps,
       OpenFailsKeeps, ReadStoredKeeps, DecoderFillsKeeps, DecoderReturnsKeeps,
       MakeReaderPanicsKeeps, ReadFailsKeeps, ReadRawKeeps, DropFileKeeps
<1> QED
  BY <1>1, <1>2

\* Every open file stands where it should, and what was passed on below it is
\* the beginning of what there is to pass on.
THEOREM ReaderInvariance == Spec => []ReaderInv
<1> QED
  BY InitIsReader, StepKeepsReader, PTL DEF Spec

LEMMA OpenFacts ==
    ASSUME ReaderInv, NEW c \in Clones, IsOpen(c)
    PROVE  LET z == file[c]
               f == files[z.index]
           IN  /\ Entry(z) = f /\ z.index \in DOMAIN files /\ IsFile(z) /\ IsHeader(f)
               /\ data_start[z.index] # 0
               /\ Lent(disk, f, short_reads, z) /\ Located(disk, f, z)
               /\ FindContent(disk, f).ok /\ OpenFile(f, z)
<1>1. FileIn(disk, files, data_start, short_reads, file[c]) /\ file[c].index # 0
  BY FilesAreOK DEF IsOpen, ReaderInv
<1>2. OpenFile(Entry(file[c]), file[c])
  BY OpenFileOf DEF ReaderInv
<1> QED
  BY <1>1, <1>2 DEF FileIn, OpenFile, Entry, Lent, Located

LEMMA ReaderIsTypeOK == ReaderInv => TypeOK
<1> SUFFICES ASSUME ReaderInv PROVE TypeOK
  OBVIOUS
<1>1. data_start \in [DOMAIN files -> Nat] /\ faults \in 0..MaxFaults
  BY DEF ReaderInv, DataStartOK, ResultsOK
<1>2. ASSUME NEW c \in Clones
      PROVE  /\ result[c] \in {"none", "ok", "err", "invalid_password", "panic"}
             /\ file[c].index \in {0} \cup DOMAIN files
             /\ file[c].stage \in {"fresh", "decoding", "raw"}
             /\ file[c].seen \in {"nothing", "data", "end", "error"}
             /\ file[c].limit \in Nat /\ file[c].remaining \in Nat
             /\ IsOpen(c) => file[c].pos + file[c].limit =
                  ContentStart(Entry(file[c])) + Entry(file[c]).compressed_size
  <2>1. result[c] \in {"none", "ok", "err", "invalid_password", "panic"}
    BY DEF ReaderInv, ResultsOK
  <2>2. IsFile(file[c]) /\ file[c].index \in {0} \cup DOMAIN files
    BY FilesAreOK DEF ReaderInv, FileIn
  <2>3. IsOpen(c) => file[c].pos + file[c].limit =
          ContentStart(Entry(file[c])) + Entry(file[c]).compressed_size
    BY OpenFacts, StatelessIsState DEF Located
  <2> QED
    BY <2>1, <2>2, <2>3 DEF IsFile
<1> QED
  BY <1>1, <1>2 DEF TypeOK

\* The fields have their types, and a file never reads outside its entry
\* (io::Take, and what AesReader takes for data).
THEOREM TypeCorrect == Spec => []TypeOK
<1> QED
  BY ReaderInvariance, ReaderIsTypeOK, PTL

LEMMA ReaderKnowsDataStart == ReaderInv => DataStartKnown
<1> SUFFICES ASSUME ReaderInv, NEW i \in DOMAIN files
             PROVE  \/ data_start[i] = 0 /\ \A c \in Clones : file[c].index # i
                    \/ Region(disk, data_start[i], files[i].compressed_size) =
                         FindContent(disk, files[i]).data
  BY DEF DataStartKnown
<1>1. CASE data_start[i] = 0
  <2>1. i # 0
    BY SharedFacts DEF ReaderInv
  <2>2. \A c \in Clones : file[c].index # 0 => data_start[file[c].index] # 0
    BY FilesAreOK DEF FileIn, ReaderInv
  <2> QED
    BY <1>1, <2>1, <2>2
<1>2. CASE data_start[i] # 0
  <2>1. FindContent(disk, files[i]).ok /\ data_start[i] = Start(disk, files[i])
    BY <1>2 DEF ReaderInv, DataStartOK
  <2>2. FindContent(disk, files[i]).data = Data(disk, files[i])
    BY <2>1, SharedFacts, FoundContent DEF ReaderInv
  <2> QED
    BY <2>1, <2>2 DEF Data
<1> QED
  BY <1>1, <1>2

\* data_start(), which clones store without a lock (an AtomicU64), is not known
\* or is where the data is, and is known while a file is open (types.rs,
\* read.rs find_content).
THEOREM DataStartIsKnown == Spec => []DataStartKnown
<1> QED
  BY ReaderInvariance, ReaderKnowsDataStart, PTL

LEMMA ReaderCopiesVerbatim == ReaderInv => RawIsVerbatim
<1> SUFFICES ASSUME ReaderInv, NEW c \in Clones, IsOpen(c),
                    file[c].stage = "raw", file[c].password = "none"
             PROVE  LET z == file[c] IN
                    /\ IsPrefix(z.raw, FindContent(disk, Entry(z)).data)
                    /\ z.seen = "end" => z.raw = FindContent(disk, Entry(z)).data
  BY DEF RawIsVerbatim
<1> DEFINE z == file[c]
           f == files[z.index]
           raw == Data(disk, f)
           p == Start(disk, f)
<1>1. /\ Entry(z) = f /\ IsHeader(f) /\ Located(disk, f, z) /\ RawOK(disk, f, z)
      /\ FindContent(disk, f).ok /\ SharedOK /\ OpenFile(f, z)
  BY OpenFacts DEF Lent, ReaderInv
<1>2. FindContent(disk, f).data = raw
  BY <1>1, FoundContent
<1>3. /\ Begins(z.raw, raw) /\ z.pos = p + Len(z.raw)
      /\ z.seen = "end" => Dry(disk, z)
  BY <1>1 DEF RawOK
<1>4. IsPrefix(z.raw, raw) /\ (Len(z.raw) = Len(raw) => z.raw = raw)
  BY <1>3, BeginsIsPrefix
<1>5. ASSUME z.seen = "end" PROVE Len(z.raw) = Len(raw)
  <2>1. Reading(f, z)
    BY <1>1 DEF Reading, OpenFile
  <2>2. Len(raw) <= z.pos - p /\ p \in Nat
    BY <1>3, <1>5, <2>1, Positions
  <2>3. Len(z.raw) <= Len(raw) /\ Len(z.raw) \in Nat /\ Len(raw) \in Nat
    BY <1>3, LenIsNat DEF Begins
  <2> HIDE DEF z, raw, p
  <2> QED
    BY <1>3, <2>2, <2>3
<1> QED
  BY <1>1, <1>2, <1>4, <1>5

\* What raw_copy_file copies, through by_index_raw or a file that was not read
\* from, is the entry's data as it is in the archive: no more, and no less when
\* it ends.
THEOREM RawCopiesAreVerbatim == Spec => []RawIsVerbatim
<1> QED
  BY ReaderInvariance, ReaderCopiesVerbatim, PTL

-----------------------------------------------------------------------------
(***************************************************************************)
(* What a reader is given.                                                 *)
(***************************************************************************)
\* What is encrypted is data, and so is what it decrypts to.
LEMMA ClearCells ==
    ASSUME NEW f, IsHeader(f), NEW raw, IsSeq(raw),
           \A j \in 1..Len(raw) : IsCell(raw[j])
    PROVE  /\ IsSeq(ClearOf(f, raw))
           /\ \A j \in 1..Len(ClearOf(f, raw)) : IsData(ClearOf(f, raw)[j])
<1>0. IsData(Garbage)
  BY DEF IsData, Garbage
<1>1. CASE ~f.encrypted
  <2>1. ClearOf(f, raw) = raw
    BY <1>1 DEF ClearOf
  <2> QED
    BY <2>1 DEF IsCell
<1>2. CASE f.encrypted /\ f.aes = "none"
  <2>1. CASE raw = << >>
    <3> DEFINE v == [j \in 1..Len(raw) - 1 |->
                       IF \A k \in 2..j + 1 : raw[k][1] = "enc"
                       THEN raw[j + 1][2] ELSE Garbage]
    <3>1. 1..Len(raw) - 1 = 1..0
      BY <2>1, EmptyIsSeq
    <3>2. ClearOf(f, raw) = v
      BY <1>2 DEF ClearOf
    <3>3. v = [j \in 1..0 |-> v[j]]
      BY <3>1
    <3> HIDE DEF v
    <3>4. IsSeq(v) /\ Len(v) = 0
      BY <3>3, FunctionIsSeq
    <3> QED
      BY <3>2, <3>4
  <2>2. CASE raw # << >>
    <3> DEFINE v == ClearOf(f, raw)
               n == Len(raw)
    <3>1. /\ IsSeq(v) /\ Len(v) = n - 1
          /\ \A j \in 1..n - 1 : v[j] =
               IF \A k \in 2..j + 1 : raw[k][1] = "enc" THEN raw[j + 1][2]
               ELSE Garbage
      BY <1>2, <2>2, ZipCryptoClear
    <3> HIDE DEF v
    <3>2. n \in Nat
      BY LenIsNat
    <3>3. ASSUME NEW j \in 1..n - 1 PROVE IsData(v[j])
      <4>1. CASE \A k \in 2..j + 1 : raw[k][1] = "enc"
        <5>1. j + 1 \in 1..n /\ j + 1 \in 2..j + 1
          BY <3>2
        <5>2. raw[j + 1][1] = "enc" /\ IsCell(raw[j + 1]) /\ v[j] = raw[j + 1][2]
          BY <3>1, <4>1, <5>1
        <5> QED
          BY <5>2 DEF IsCell
      <4>2. CASE ~\A k \in 2..j + 1 : raw[k][1] = "enc"
        <5>1. v[j] = Garbage
          BY <3>1, <4>2
        <5> QED
          BY <5>1, <1>0
      <4> QED
        BY <4>1, <4>2
    <3> QED
      BY <3>1, <3>3 DEF v
  <2> QED
    BY <2>1, <2>2
<1>3. CASE f.encrypted /\ f.aes # "none"
  <2> DEFINE n == Len(raw)
             l == 2 + DataLength(f)
             e == Min({n, l})
             aes == SubSeq(raw, 3, e)
             v == [j \in 1..Len(aes) |->
                     IF aes[j][1] = "sealed" /\ aes[j][2] = KeyAt(j)
                     THEN aes[j][3] ELSE Garbage]
  <2>1. ClearOf(f, raw) = v
    BY <1>3 DEF ClearOf
  <2>2. n \in Nat /\ l \in Nat /\ DataLength(f) \in Nat
    BY LenIsNat, DataLengthIsNat
  <2>3. CASE n < 2
    <3>1. e < 3
      <4> HIDE DEF n, l
      <4>1. e = IF n <= l THEN n ELSE l
        BY <2>2, MinOfTwo
      <4> HIDE DEF e
      <4> QED
        BY <2>2, <2>3, <4>1
    <3>2. e \in Int
      <4> HIDE DEF n, l
      <4>1. e = IF n <= l THEN n ELSE l
        BY <2>2, MinOfTwo
      <4> HIDE DEF e
      <4> QED
        BY <2>2, <4>1
    <3>3. aes = << >>
      <4> HIDE DEF e
      <4> QED
        BY <3>1, <3>2, SubSeqEmpty DEF IsSeq
    <3>4. Len(aes) = 0
      <4> HIDE DEF aes
      <4> QED
        BY <3>3, EmptyIsSeq
    <3> HIDE DEF aes
    <3>5. v = [j \in 1..0 |-> v[j]]
      BY <3>4
    <3> HIDE DEF v
    <3>6. IsSeq(v) /\ Len(v) = 0
      BY <3>5, FunctionIsSeq
    <3> QED
      BY <2>1, <3>6
  <2>4. CASE 2 <= n
    <3> DEFINE w == ClearOf(f, raw)
    <3>1. /\ IsSeq(w) /\ Len(w) \in Nat
          /\ \A j \in 1..Len(w) : w[j] =
               IF raw[j + 2][1] = "sealed" /\ raw[j + 2][2] = KeyAt(j)
               THEN raw[j + 2][3] ELSE Garbage
      BY <1>3, <2>2, <2>4, AesClear, LenIsNat
    <3>2. \A j \in 1..Len(w) : j + 2 \in 1..n
      <4>1. Len(w) + 2 <= n
        BY <1>3, <2>2, <2>4, AesClear
      <4> HIDE DEF w
      <4> QED
        BY <2>2, <3>1, <4>1
    <3> HIDE DEF w, n
    <3>3. ASSUME NEW j \in 1..Len(w) PROVE IsData(w[j])
      <4>1. IsCell(raw[j + 2])
        BY <3>2 DEF n
      <4>2. CASE raw[j + 2][1] = "sealed" /\ raw[j + 2][2] = KeyAt(j)
        BY <3>1, <4>1, <4>2 DEF IsCell
      <4>3. CASE ~(raw[j + 2][1] = "sealed" /\ raw[j + 2][2] = KeyAt(j))
        <5>1. w[j] = Garbage
          BY <3>1, <4>3
        <5> QED
          BY <5>1, <1>0
      <4> QED
        BY <4>2, <4>3
    <3> QED
      BY <3>1, <3>3 DEF w
  <2> QED
    BY <2>2, <2>3, <2>4
<1> QED
  BY <1>1, <1>2, <1>3 DEF IsHeader

\* Below a file that is read with the right password, the cipher has passed on
\* the beginning of what its data decrypts to.
LEMMA GotIsClear ==
    ASSUME NEW f, NEW z, OpenFile(f, z), z.stage # "raw",
           z.password \in {"right", "none"},
           z.crypto = "zipcrypto" => ~short_reads /\ ~z.failed
    PROVE  Begins(Got(f, z), ClearOf(f, Data(disk, f)))
<1> DEFINE g == Got(f, z)
           raw == Data(disk, f)
<1>1. /\ IsFile(z) /\ KindOK(f, z) /\ InputOK(disk, f, short_reads, z, g)
  BY DEF OpenFile, Lent
<1>2. CASE z.crypto = "plain"
  <2>1. ClearOf(f, raw) = raw
    BY <1>1, <1>2 DEF KindOK, ClearOf
  <2> QED
    BY <1>1, <1>2, <2>1 DEF InputOK, PlainOK
<1>3. CASE z.crypto # "plain"
  <2>1. z.password = "right"
    BY <1>1, <1>3 DEF KindOK
  <2> QED
    BY <1>1, <1>3, <2>1 DEF IsFile, InputOK, ZipCryptoOK, AesOK
<1> QED
  BY <1>2, <1>3

LEMMA DataOfEntry ==
    ASSUME NEW f, NEW z, OpenFile(f, z)
    PROVE  /\ IsSeq(ClearOf(f, Data(disk, f)))
           /\ \A j \in 1..Len(ClearOf(f, Data(disk, f))) :
                IsData(ClearOf(f, Data(disk, f))[j])
<1>1. SharedOK /\ IsHeader(f) /\ FindContent(disk, f).ok
  BY DEF OpenFile, Lent, Located
<1> DEFINE raw == Data(disk, f)
<1>2. IsSeq(raw) /\ \A j \in 1..Len(raw) : IsCell(raw[j])
  BY <1>1, DataCells
<1> HIDE DEF raw
<1>3. /\ IsSeq(ClearOf(f, raw))
      /\ \A j \in 1..Len(ClearOf(f, raw)) : IsData(ClearOf(f, raw)[j])
  BY <1>1, <1>2, ClearCells
<1> QED
  BY <1>3 DEF raw

LEMMA ReaderIsFaithful == ReaderInv => ReadsAreFaithful
<1> SUFFICES ASSUME ReaderInv, NEW c \in Clones, IsOpen(c),
                    file[c].password \in {"right", "none"},
                    file[c].crypto = "zipcrypto" => ~short_reads /\ ~file[c].failed
             PROVE  IsPrefix(file[c].hasher, Plain(file[c].index))
  BY DEF ReadsAreFaithful
<1> DEFINE z == file[c]
           f == files[z.index]
           clear == ClearOf(f, Data(disk, f))
           plain == Decoded(f, clear)
<1>1. OpenFile(f, z) /\ IsFile(z) /\ Lent(disk, f, short_reads, z)
  BY OpenFacts
<1>2. Plain(z.index) = plain
  BY StatelessIsState DEF Plain
<1>3. IsSeq(clear) /\ \A j \in 1..Len(clear) : IsData(clear[j])
  BY <1>1, DataOfEntry
<1>4. z.password \in {"right", "none"}
      /\ (z.crypto = "zipcrypto" => ~short_reads /\ ~z.failed)
  OBVIOUS
<1>5. z.stage # "raw" => Begins(Got(f, z), clear)
  <2> HIDE DEF z, f
  <2> QED
    BY <1>1, <1>4, GotIsClear
<1> HIDE DEF z, f, clear
<1>6. Begins(z.hasher, plain)
  <2>1. CASE z.stage = "raw"
    <3>1. z.hasher = << >>
      BY <1>1, <2>1 DEF Lent, RawOK
    <3>2. IsSeq(plain)
      <4>1. CASE f.method = "stored"
        BY <1>3, <4>1 DEF Decoded
      <4>2. CASE f.method # "stored"
        BY <1>3, <4>2, DecodedIsSeq
      <4> QED
        BY <4>1, <4>2
    <3> QED
      BY <3>1, <3>2, EmptyBegins
  <2>2. CASE z.stage # "raw" /\ f.method = "stored"
    BY <1>5, <2>2 DEF Got, Decoded
  <2>3. CASE z.stage # "raw" /\ f.method # "stored"
    <3>1. Begins(z.fed, clear)
      BY <1>5, <2>3 DEF Got
    <3>2. Begins(Decoded(f, z.fed), plain)
      BY <1>3, <2>3, <3>1, DecodedBegins
    <3>3. Begins(z.hasher, Decoded(f, z.fed))
      BY <1>1, <2>3 DEF Lent, DecoderOK
    <3> QED
      BY <3>2, <3>3, BeginsOn
  <2> QED
    BY <2>1, <2>2, <2>3
<1> HIDE DEF plain
<1>7. IsPrefix(z.hasher, plain)
  BY <1>6, BeginsIsPrefix
<1> QED
  BY <1>2, <1>7 DEF z

\* With the right password, a caller is given the beginning of what the entry
\* contains, however the reads are cut, whichever of them fail and are tried
\* again (with ZipCrypto, if none do and none are short), whatever the other
\* clones do.
THEOREM CallersReadTheData == Spec => []ReadsAreFaithful
<1> QED
  BY ReaderInvariance, ReaderIsFaithful, PTL

LEMMA ReaderVerifiesEnds == ReaderInv => EndIsVerified
<1> SUFFICES ASSUME ReaderInv, NEW c \in Clones, IsOpen(c),
                    file[c].stage = "decoding", file[c].seen = "end"
             PROVE  LET z == file[c] IN
                    /\ ~IsAe2(z) => z.hasher = Entry(z).crc32
                    /\ IsAe2(z) /\ Authenticated(z) =>
                         z.password = "right" /\ z.hasher = Plain(z.index)
  BY DEF EndIsVerified
<1> DEFINE z == file[c]
           f == files[z.index]
           clear == ClearOf(f, Data(disk, f))
           plain == Decoded(f, clear)
<1>1. /\ OpenFile(f, z) /\ Entry(z) = f /\ IsFile(z)
      /\ Lent(disk, f, short_reads, z) /\ z.stage = "decoding" /\ z.seen = "end"
  BY OpenFacts
<1>2. Plain(z.index) = plain
  BY StatelessIsState DEF Plain
<1> HIDE DEF z, f, clear
<1>3. /\ ~(z.crypto = "aes" /\ f.aes = "ae2") => z.hasher = f.crc32
      /\ f.method # "stored" => Len(z.hasher) = Len(Decoded(f, z.fed))
  BY <1>1 DEF Lent, EndOK
<1>4. ASSUME IsAe2(z), Authenticated(z)
      PROVE  z.password = "right" /\ z.hasher = plain
  <2>1. z.crypto = "aes" /\ z.remaining = 0 /\ DataLength(f) > 0 /\ ~z.failed
    BY <1>1, <1>4 DEF IsAe2, Authenticated
  <2>2. AesOK(disk, f, z, Got(f, z))
    BY <1>1 DEF Lent, InputOK
  <2>3. z.password = "right" /\ Got(f, z) = clear
    BY <2>1, <2>2 DEF AesOK, clear
  <2>4. CASE f.method = "stored"
    BY <2>3, <2>4 DEF Got, Decoded
  <2>5. CASE f.method # "stored"
    <3>1. Begins(z.hasher, Decoded(f, z.fed)) /\ z.fed = clear
      BY <1>1, <2>3, <2>5 DEF Lent, DecoderOK, Got
    <3> QED
      BY <1>3, <2>3, <2>5, <3>1, BeginsIsPrefix
  <2> QED
    BY <2>3, <2>4, <2>5
<1>5. IsAe2(z) <=> z.crypto = "aes" /\ f.aes = "ae2"
  BY <1>1 DEF IsAe2
<1>6. /\ ~IsAe2(z) => z.hasher = Entry(z).crc32
      /\ IsAe2(z) /\ Authenticated(z) =>
           z.password = "right" /\ z.hasher = Plain(z.index)
  BY <1>1, <1>2, <1>3, <1>4, <1>5
<1> QED
  BY <1>6 DEF z

\* The end of a file is reported only behind the check of all that was passed
\* on: the checksum, or, with AE-2, the authentication code.
THEOREM EndsAreVerified == Spec => []EndIsVerified
<1> QED
  BY ReaderInvariance, ReaderVerifiesEnds, PTL

-----------------------------------------------------------------------------
(***************************************************************************)
(* Panics.                                                                 *)
(***************************************************************************)
\* A call of clone c that returns, and so do those before it.
ReturnsSafely(c) ==
    \/ UNCHANGED result
    \/ \E r \in {"ok", "err", "invalid_password"} : Returns(c, r)

LEMMA RefusesSafely ==
    ASSUME NEW c, NEW r \in {"err", "invalid_password"}, Refuses(c, r)
    PROVE  ReturnsSafely(c)
BY DEF Refuses, ReturnsSafely

LEMMA OpenReturns ==
    ASSUME SharedOK, NEW c, NEW i \in DOMAIN files, ~Malformed(files[i]),
           NEW given \in Passwords \cup {"none"}, Open(c, i, given)
    PROVE  ReturnsSafely(c)
<1> DEFINE f == files[i]
           password == IF f.encrypted THEN given ELSE "none"
           aes == f.aes # "none"
<1>1. CASE Refuses(c, "err")
  BY <1>1, RefusesSafely
<1>2. CASE /\ ~PasswordRequired(f, given)
           /\ MakeCryptoReader(c, i, password, given)
  <2>1. f.encrypted \in BOOLEAN
    BY SharedFacts DEF IsHeader
  <2>2. f.encrypted <=> password # "none"
    BY <1>2, <2>1 DEF PasswordRequired
  <2>3. aes => f.encrypted /\ ~(f.compressed_size < AES_OVERHEAD)
    BY <2>1 DEF Malformed
  <2> HIDE DEF password
  <2>4. password # "none" /\ RefusesPassword(c, password) => ReturnsSafely(c)
    BY RefusesSafely DEF RefusesPassword
  <2>5. \A z : Lends(c, z) => ReturnsSafely(c)
    BY DEF Lends, ReturnsSafely
  <2>6. password # "none" /\ aes /\ OpensAes(c, i, password) => ReturnsSafely(c)
    BY <2>3, <2>4, <2>5, RefusesSafely DEF OpensAes
  <2>7. password # "none" /\ OpensZipCrypto(c, i, password) => ReturnsSafely(c)
    BY <2>4, <2>5, RefusesSafely DEF OpensZipCrypto
  <2>8. OpensPlain(c, i) => ReturnsSafely(c)
    BY <2>5 DEF OpensPlain
  <2>9. ~(password = "none" /\ aes)
    BY <2>2, <2>3
  <2> QED
    BY <1>2, <2>6, <2>7, <2>8, <2>9, RefusesSafely DEF MakeCryptoReader
<1> QED
  BY <1>1, <1>2 DEF Open

\* make_reader is asked for no method it does not have.
LEMMA ReaderIsMade ==
    ASSUME ReaderInv, NEW c \in Clones, IsOpen(c), file[c].stage = "fresh",
           ~Malformed(Entry(file[c]))
    PROVE  Entry(file[c]).method \in Decoders \cup {"stored"}
<1> DEFINE z == file[c]
           f == files[z.index]
<1>1. /\ Entry(z) = f /\ IsHeader(f) /\ KindOK(f, z) /\ z.index \in DOMAIN files
  BY OpenFacts DEF Lent
<1>2. f.method # "unsupported"
  BY <1>1 DEF KindOK
<1>3. f.method # "aes"
  <2>1. f.method = "aes" => f.aes # "none"
    BY <1>1 DEF ReaderInv, SharedOK, AesRecordsValid
  <2> QED
    BY <1>1, <2>1 DEF Malformed
<1> QED
  BY <1>1, <1>2, <1>3 DEF IsHeader

LEMMA StepReturns ==
    ASSUME ReaderInv, \A i \in DOMAIN files : ~Malformed(files[i]), Next
    PROVE  \E c \in Clones : ReturnsSafely(c)
<1>1. SharedOK /\ IsSeq(files)
  BY SharedFacts DEF ReaderInv
<1>2. ASSUME NEW c \in Clones, ByIndex(c) \/ ByIndexDecrypt(c)
      PROVE  ReturnsSafely(c)
  <2>1. PICK i \in DOMAIN files, given \in Passwords \cup {"none"} : Open(c, i, given)
    BY <1>2 DEF ByIndex, ByIndexDecrypt
  <2> QED
    BY <1>1, <2>1, OpenReturns
<1>3. ASSUME NEW c \in Clones, ByName(c) PROVE ReturnsSafely(c)
  <2>1. PICK n \in Names, given \in Passwords \cup {"none"} :
          \/ Named(n) # {} /\ Open(c, Max(Named(n)), given)
          \/ Refuses(c, "err")
    BY <1>3 DEF ByName
  <2>2. CASE Named(n) # {} /\ Open(c, Max(Named(n)), given)
    <3> DEFINE i == Max(Named(n))
    <3>1. i \in DOMAIN files /\ Open(c, i, given)
      BY <1>1, <2>2, LastNamed
    <3> HIDE DEF i
    <3> QED
      BY <1>1, <3>1, OpenReturns
  <2> QED
    BY <2>1, <2>2, RefusesSafely
<1>4. ASSUME NEW c \in Clones, ByIndexRaw(c) \/ OpenFails(c) PROVE ReturnsSafely(c)
  <2>1. Refuses(c, "err") \/ \E z : Lends(c, z)
    BY <1>4 DEF ByIndexRaw, OpenFails
  <2> QED
    BY <2>1, RefusesSafely DEF Lends, ReturnsSafely
<1>5. ASSUME NEW c \in Clones, MakeReaderPanics(c) PROVE FALSE
  <2>1. IsOpen(c) /\ file[c].stage = "fresh"
        /\ Entry(file[c]).method \notin Decoders \cup {"stored"}
    BY <1>5 DEF MakeReaderPanics
  <2>2. ~Malformed(Entry(file[c]))
    BY <2>1, OpenFacts
  <2> QED
    BY <2>1, <2>2, ReaderIsMade
<1>6. ASSUME NEW c \in Clones,
             ReadStored(c) \/ DecoderFills(c) \/ DecoderReturns(c) \/ ReadFails(c)
               \/ ReadRaw(c) \/ DropFile(c)
      PROVE  ReturnsSafely(c)
  BY <1>6 DEF ReadStored, DecoderFills, DecoderReturns, ReadFails, ReadRaw, DropFile,
     ReturnsSafely
<1> QED
  BY <1>2, <1>3, <1>4, <1>5, <1>6 DEF Next

LEMMA StepKeepsFiles == [Next]_vars => files' = files
BY DEF Next, vars, shared, ByIndex, ByIndexDecrypt, ByName, ByIndexRaw, OpenFails,
   ReadStored, DecoderFills, DecoderReturns, MakeReaderPanics, ReadFails, ReadRaw,
   DropFile

LEMMA ReaderDoesNotPanic == ReaderInv /\ NoPanic /\ [Next]_vars => NoPanic'
<1> SUFFICES ASSUME ReaderInv, NoPanic, [Next]_vars PROVE NoPanic'
  OBVIOUS
<1>1. files' = files
  BY StepKeepsFiles
<1> SUFFICES ASSUME \A i \in DOMAIN files : ~Malformed(files[i])
             PROVE  \A c \in Clones : result'[c] # "panic"
  BY <1>1 DEF NoPanic, Malformed
<1>2. \A c \in Clones : result[c] # "panic"
  BY DEF NoPanic
<1>3. UNCHANGED result \/ \E c \in Clones : ReturnsSafely(c)
  BY StepReturns DEF vars
<1>4. ASSUME NEW c \in Clones, NEW r \in {"ok", "err", "invalid_password"},
             Returns(c, r), NEW b \in Clones
      PROVE  result'[b] # "panic"
  <2>1. result' = [result EXCEPT ![c] = r] /\ b \in DOMAIN result /\ r # "panic"
    BY <1>4 DEF Returns, ReaderInv, ResultsOK
  <2>2. result'[b] = IF b = c THEN r ELSE result[b]
    BY <2>1
  <2> QED
    BY <1>2, <2>1, <2>2
<1> QED
  BY <1>2, <1>3, <1>4 DEF ReturnsSafely

\* No archive without malformed AES entries makes a call panic: neither the
\* unwraps of by_index and by_name, nor make_reader, nor the subtraction of
\* AesReader::new.
THEOREM NoCallPanics == Spec => []NoPanic
<1>1. Init => NoPanic
  BY DEF Init, NoPanic
<1> QED
  BY <1>1, ReaderInvariance, ReaderDoesNotPanic, PTL DEF Spec
-----------------------------------------------------------------------------
(***************************************************************************)
(* Sound entries: nothing but a failing source keeps a caller from them.   *)
(***************************************************************************)
\* What Sound says of the data of entry f of archive d.
SoundData(d, f) ==
    LET raw   == Data(d, f)
        clear == ClearOf(f, raw)
    IN  /\ Len(raw) = f.compressed_size
        /\ f.method # "stored" =>
             clear # << >> /\ DecoderEnd(f, clear) = Len(clear)
        /\ ~Corrupt(f, clear)
        /\ f.aes # "ae2" => Decoded(f, clear) = f.crc32
        /\ f.aes # "none" =>
             /\ f.encrypted
             /\ DataLength(f) > 0 /\ DataLength(f) + AES_OVERHEAD = Len(raw)
             /\ raw[Len(raw)] = <<"mac", SubSeq(raw, 3, Len(raw) - 1)>>

\* Opened with the right password; with ZipCrypto, over a source that delivers
\* all it is asked for.
Trusted(s, z) ==
    z.password \in {"right", "none"} /\ (z.crypto = "zipcrypto" => ~s)

Calm(z) == z.seen # "error" /\ ~z.failed

\* No read of a sound entry has ever returned an error: that none has before is
\* what keeps the next one from it.
CalmFile(d, fs, s, z) ==
    z.index # 0 /\ Trusted(s, z) /\ SoundData(d, fs[z.index]) => Calm(z)

CalmInv ==
    faults = 0 => \A c \in Clones : CalmFile(disk, files, short_reads, file[c])

\* A file of which no read has failed and none should.
Safe(f, z) == SoundData(disk, f) /\ Trusted(short_reads, z) /\ Calm(z)

\* When the cipher has no more to give, it has given all there is.
LEMMA WholeAtEnd ==
    ASSUME NEW f, NEW z, OpenFile(f, z), z.stage # "raw", Safe(f, z),
           Exhausted(disk, z)
    PROVE  Got(f, z) = ClearOf(f, Data(disk, f))
<1> DEFINE g     == Got(f, z)
           raw   == Data(disk, f)
           p     == Start(disk, f)
           clear == ClearOf(f, raw)
<1>1. /\ IsFile(z) /\ Reading(f, z) /\ KindOK(f, z)
      /\ InputOK(disk, f, short_reads, z, g)
      /\ ~z.failed /\ Trusted(short_reads, z)
  BY DEF OpenFile, Lent, Reading, Safe, Calm
<1>2. Begins(g, clear)
  <2>1. /\ z.password \in {"right", "none"}
        /\ z.crypto = "zipcrypto" => ~short_reads /\ ~z.failed
    BY <1>1 DEF Trusted
  <2> QED
    BY <2>1, GotIsClear
<1>3. /\ p \in Nat /\ z.pos \in Nat
      /\ Dry(disk, z) => Len(raw) <= z.pos - p
  BY <1>1, Positions
<1>4. /\ IsSeq(raw) /\ Len(raw) \in Nat /\ IsSeq(g) /\ Len(g) \in Nat
      /\ IsSeq(clear) /\ Len(clear) \in Nat /\ Len(g) <= Len(clear)
  BY <1>1, <1>2, DataCells, LenIsNat DEF Begins, Reading, Located
<1> HIDE DEF g
<1>5. Len(g) = Len(clear)
  <2>1. CASE z.crypto = "plain"
    <3>1. clear = raw
      BY <1>1, <2>1 DEF KindOK, ClearOf
    <3>2. z.pos = p + Len(g) /\ Dry(disk, z)
      BY <1>1, <2>1 DEF InputOK, PlainOK, Exhausted
    <3> HIDE DEF raw, p, clear
    <3> QED
      BY <1>3, <1>4, <3>1, <3>2
  <2>2. CASE z.crypto = "zipcrypto"
    <3>1. f.encrypted /\ f.aes = "none" /\ z.password = "right"
      BY <1>1, <2>2 DEF KindOK, Trusted
    <3>2. raw # << >> /\ z.pos = p + 1 + Len(g) /\ Dry(disk, z)
      BY <1>1, <2>2, <3>1 DEF InputOK, ZipCryptoOK, Exhausted, Trusted
    <3>3. Len(clear) = Len(raw) - 1
      BY <1>4, <3>1, <3>2, ZipCryptoClear
    <3> HIDE DEF raw, p, clear
    <3> QED
      BY <1>3, <1>4, <3>2, <3>3
  <2>3. CASE z.crypto = "aes"
    <3> DEFINE dl == DataLength(f)
               m  == Len(z.mac)
    <3>1. f.encrypted /\ f.aes # "none" /\ z.password = "right"
      BY <1>1, <2>3 DEF KindOK, Trusted
    <3>2. dl > 0 /\ dl + AES_OVERHEAD = Len(raw)
      BY <3>1 DEF Safe, SoundData
    <3>3. AesOK(disk, f, z, g)
      BY <1>1 DEF InputOK
    <3>4. CASE z.remaining = 0
      BY <1>1, <2>3, <3>2, <3>3, <3>4 DEF AesOK
    <3>5. CASE z.remaining # 0
      <4>1. z.remaining \in Nat /\ m \in Nat /\ dl \in Nat
        BY <1>1, LenIsNat, DataLengthIsNat DEF IsFile, Reading
      <4>2. z.remaining > 0
        BY <3>5, <4>1
      <4>3. z.pos = p + 2 + m /\ m + z.remaining = dl /\ Dry(disk, z)
        BY <2>3, <3>3, <3>5, <4>2 DEF AesOK, Exhausted
      <4>4. AES_OVERHEAD = 3
        BY DEF AES_OVERHEAD, SALT_LENGTH, PWD_VERIFY_LENGTH, AUTH_CODE_LENGTH
      <4> HIDE DEF raw, p, clear, dl, m
      <4>5. Len(raw) <= 2 + m /\ Len(raw) = m + z.remaining + 3
        BY <1>3, <3>2, <4>1, <4>3, <4>4
      <4> QED
        BY <1>4, <4>1, <4>2, <4>5
    <3> QED
      BY <3>4, <3>5
  <2> QED
    BY <1>1, <2>1, <2>2, <2>3 DEF IsFile
<1> QED
  BY <1>2, <1>5, BeginsIsPrefix DEF g

\* AES finds its authentication code behind the last byte of sound data.
LEMMA AuthCodeFits ==
    ASSUME NEW f, NEW z, Reading(f, z), z.crypto = "aes", f.aes # "none",
           SoundData(disk, f), z.password = "right", z.remaining = 0,
           z.pos = Start(disk, f) + 2 + Len(z.mac), Len(z.mac) = DataLength(f),
           \A j \in 1..Len(z.mac) : z.mac[j] = Data(disk, f)[j + 2]
    PROVE  AuthCodeMatches(z)
<1> DEFINE raw == Data(disk, f)
           p   == Start(disk, f)
           m   == Len(z.mac)
           e   == Len(raw) - 1
           s   == SubSeq(raw, 3, e)
<1>1. /\ IsSeq(raw) /\ Len(raw) \in Nat
      /\ \A i \in 1..Len(raw) : raw[i] = disk[p + i] /\ p + i <= Len(disk)
  BY DataCells, LenIsNat DEF Reading, Located
<1>2. p \in Nat /\ z.pos \in Nat /\ z.limit \in Nat /\ Len(disk) \in Nat
  BY Positions
<1>3. m \in Nat /\ IsSeq(z.mac)
  BY LenIsNat DEF Reading, IsFile
<1>4. /\ Len(raw) = f.compressed_size /\ m > 0 /\ m + 3 = Len(raw)
      /\ raw[Len(raw)] = <<"mac", SubSeq(raw, 3, Len(raw) - 1)>>
  BY DEF SoundData, AES_OVERHEAD, SALT_LENGTH, PWD_VERIFY_LENGTH, AUTH_CODE_LENGTH
<1>5. z.pos + z.limit = p + Len(raw) /\ z.pos = p + 2 + m
  BY <1>4 DEF Reading, Located
<1>6. \A j \in 1..m : z.mac[j] = raw[j + 2]
  OBVIOUS
<1> HIDE DEF raw, p, m
<1>7. /\ Len(raw) \in 1..Len(raw) /\ z.limit > 0
      /\ z.pos + 1 = p + Len(raw) /\ e \in Nat /\ e <= Len(raw) /\ 2 <= e
      /\ e - 2 = m
  <2>1. Len(raw) \in Nat /\ m > 0 /\ m + 3 = Len(raw)
    BY <1>1, <1>4
  <2> QED
    BY <1>2, <1>3, <1>5, <2>1
<1>8. z.pos < Len(disk) /\ disk[z.pos + 1] = raw[Len(raw)]
  BY <1>1, <1>2, <1>7
<1>9. s = z.mac
  <2>1. /\ IsSeq(SubSeq(raw, 2 + 1, e)) /\ Len(SubSeq(raw, 2 + 1, e)) = e - 2
        /\ \A i \in 1..e - 2 : SubSeq(raw, 2 + 1, e)[i] = raw[2 + i]
    <3> DEFINE a == 2
    <3>1. IsSeq(raw) /\ a \in Nat /\ e \in Nat /\ a <= e /\ e <= Len(raw)
      BY <1>1, <1>7
    <3> HIDE DEF a, e
    <3>2. /\ IsSeq(SubSeq(raw, a + 1, e)) /\ Len(SubSeq(raw, a + 1, e)) = e - a
          /\ \A j \in 1..e - a : SubSeq(raw, a + 1, e)[j] = raw[a + j]
      BY <3>1, PartCells
    <3> QED
      BY <3>2 DEF a
  <2>2. IsSeq(s) /\ Len(s) = m /\ \A i \in 1..m : s[i] = raw[2 + i]
    BY <1>7, <2>1
  <2> HIDE DEF s
  <2>3. \A i \in 1..m : s[i] = z.mac[i]
    BY <1>6, <2>2
  <2>4. Len(s) = Len(z.mac)
    BY <2>2 DEF m
  <2>5. \A i \in 1..Len(s) : s[i] = z.mac[i]
    BY <2>2, <2>3
  <2> QED
    BY <1>3, <2>2, <2>4, <2>5, SameCells
<1>10. At(disk, z.pos) = disk[z.pos + 1]
  BY <1>2, <1>8 DEF At
<1>11. At(disk, z.pos) = <<"mac", z.mac>>
  <2>1. SubSeq(raw, 3, Len(raw) - 1) = z.mac
    BY <1>9
  <2> QED
    BY <1>4, <1>8, <1>10, <2>1
<1> QED
  BY <1>7, <1>8, <1>11 DEF AuthCodeMatches

\* A reader that goes on with the data keeps what it read of it for the code.
InMac(raw, mac) == IsSeq(mac) /\ \A j \in 1..Len(mac) : mac[j] = raw[j + 2]

ReadNext(raw, m, cells) ==
    IsSeq(cells) /\ \A j \in 1..Len(cells) : cells[j] = raw[2 + m + j]

LEMMA MacGoesOn ==
    ASSUME NEW raw, NEW mac, InMac(raw, mac),
           NEW cells, ReadNext(raw, Len(mac), cells)
    PROVE  InMac(raw, mac \o cells) /\ Len(mac \o cells) = Len(mac) + Len(cells)
<1> DEFINE m == Len(mac)
           k == Len(cells)
           all == mac \o cells
<1>0. IsSeq(mac) /\ IsSeq(cells)
  BY DEF InMac, ReadNext
<1>1. m \in Nat /\ k \in Nat /\ IsSeq(all) /\ Len(all) = m + k
  BY <1>0, ConcatIsSeq, LenIsNat
<1>2. \A j \in 1..m + k : all[j] = IF j <= m THEN mac[j] ELSE cells[j - m]
  BY <1>0, ConcatCells
<1>3. /\ \A j \in 1..m : mac[j] = raw[j + 2]
      /\ \A j \in 1..k : cells[j] = raw[2 + m + j]
  BY DEF InMac, ReadNext
<1> HIDE DEF m, k, all
<1>4. ASSUME NEW j \in 1..m + k PROVE all[j] = raw[j + 2]
  <2>1. CASE j <= m
    <3>1. j \in 1..m
      BY <1>1, <2>1
    <3>2. all[j] = mac[j]
      BY <1>2, <2>1
    <3> QED
      BY <1>3, <3>1, <3>2
  <2>2. CASE ~(j <= m)
    <3> DEFINE i == j - m
    <3>1. i \in 1..k /\ 2 + m + i = j + 2
      BY <1>1, <2>2
    <3>2. all[j] = cells[i]
      BY <1>2, <2>2
    <3> HIDE DEF i
    <3> QED
      BY <1>3, <3>1, <3>2
  <2> QED
    BY <2>1, <2>2
<1> QED
  BY <1>1, <1>4 DEF m, k, all, InMac

LEMMA AesDoesNotFail ==
    ASSUME NEW f, NEW z, Reading(f, z), z.crypto = "aes", f.aes # "none",
           SoundData(disk, f), z.password = "right",
           NEW g, AesOK(disk, f, z, g), NEW n \in Nat, NEW o \in AesRead(z, n)
    PROVE  o.ok = TRUE
<1> DEFINE raw == Data(disk, f)
           p   == Start(disk, f)
           dl  == DataLength(f)
           m   == Len(z.mac)
<1>1. CASE z.remaining = 0
  BY <1>1 DEF AesRead, Outcome
<1>2. CASE z.remaining # 0
  <2> DEFINE want  == BytesToRead(z, n)
             Read(k) == AesReadOn(z, k)
             Out(k)  == AesDecrypted(z, Region(disk, z.pos, k))
  <2>1. PICK k \in Delivered(z, want) :
          o = IF Read(k).remaining > 0 THEN Outcome(Read(k), Out(k), TRUE)
              ELSE IF AuthCodeMatches(Read(k))
                THEN Outcome(AfterAuthCode(Read(k)), Out(k), TRUE)
                ELSE Outcome(AfterAuthCode(Read(k)), << >>, FALSE)
    BY <1>2 DEF AesRead, AesReadOn
  <2> DEFINE y     == Read(k)
             cells == Region(disk, z.pos, k)
  <2>2. /\ IsFile(z) /\ z.remaining \in Nat /\ z.pos \in Nat /\ z.limit \in Nat
        /\ IsSeq(z.mac) /\ m \in Nat /\ p \in Nat /\ IsSeq(disk)
    BY Positions, LenIsNat DEF IsFile, Reading
  <2>3. want \in Nat /\ want <= z.remaining
    <3>1. want = IF z.remaining <= n THEN z.remaining ELSE n
      <4>1. z.remaining \in Int /\ n \in Int
        BY <2>2
      <4> QED
        BY <4>1, MinOfTwo DEF BytesToRead
    <3> HIDE DEF want
    <3> QED
      BY <2>2, <3>1
  <2> HIDE DEF want
  <2>4. k \in Nat /\ k <= z.remaining /\ k <= z.limit
    <3>1. k \in 0..want /\ k <= z.limit
      BY <2>2, <2>3, DeliveredBounds
    <3> QED
      BY <2>2, <2>3, <3>1
  <2>5. /\ z.pos = p + 2 + m /\ m + z.remaining = dl
        /\ \A j \in 1..m : z.mac[j] = raw[j + 2]
    BY <1>2, <2>2 DEF AesOK
  <2>6. /\ IsSeq(cells) /\ Len(cells) = k
        /\ \A j \in 1..k : cells[j] = raw[z.pos - p + j]
    BY <2>3, NextCells
  <2> HIDE DEF raw, p, dl, m, cells
  <2>7. z.pos - p = 2 + m
    BY <2>2, <2>5
  <2>8. /\ IsFile(y) /\ SameReader(y, z)
        /\ y.pos = z.pos + k /\ y.limit = z.limit - k
        /\ y.remaining = z.remaining - k /\ y.mac = z.mac \o cells
    <3>1. IsSeq(Region(disk, z.pos, k))
      BY <2>6 DEF cells
    <3> QED
      BY <2>2, <2>4, <3>1, AesReadFields DEF cells
  <2> HIDE DEF y
  <2>9. Reading(f, y)
    BY <2>4, <2>8, MovedOn DEF Reading
  <2>10. CASE y.remaining > 0
    BY <2>1, <2>10 DEF Outcome, y
  <2>11. CASE ~(y.remaining > 0)
    <3>1. y.remaining = 0 /\ k = z.remaining
      BY <2>2, <2>4, <2>8, <2>11
    <3>2. /\ Len(y.mac) = m + k
          /\ \A j \in 1..Len(y.mac) : y.mac[j] = raw[j + 2]
      <4>1. InMac(raw, z.mac) /\ ReadNext(raw, Len(z.mac), cells)
        BY <2>2, <2>5, <2>6, <2>7 DEF m, InMac, ReadNext
      <4>2. InMac(raw, z.mac \o cells) /\ Len(z.mac \o cells) = Len(z.mac) + Len(cells)
        BY <4>1, MacGoesOn
      <4> QED
        BY <2>6, <2>8, <4>2 DEF m, InMac
    <3>3. Len(y.mac) = dl /\ y.pos = p + 2 + Len(y.mac)
      <4>1. Len(y.mac) = m + k /\ k = z.remaining /\ y.pos = z.pos + k
        BY <2>8, <3>1, <3>2
      <4>2. z.pos = p + 2 + m /\ m + z.remaining = dl
        BY <2>5
      <4> QED
        BY <2>2, <2>4, <4>1, <4>2
    <3>4. y.crypto = "aes" /\ y.password = "right"
      BY <2>8 DEF SameReader
    <3>5. AuthCodeMatches(y)
      BY <2>9, <3>1, <3>2, <3>3, <3>4, AuthCodeFits DEF raw, p, dl
    <3> QED
      BY <2>1, <2>11, <3>5 DEF Outcome, y
  <2> QED
    BY <2>10, <2>11
<1> QED
  BY <1>1, <1>2

\* So no cipher fails on sound data.
LEMMA CipherDoesNotFail ==
    ASSUME NEW f, NEW x, OpenFile(f, x), x.stage # "raw", Safe(f, x),
           NEW n \in Nat, NEW o \in CryptoRead(x, n)
    PROVE  o.ok = TRUE
<1>1. /\ Reading(f, x) /\ KindOK(f, x) /\ InputOK(disk, f, short_reads, x, Got(f, x))
      /\ SoundData(disk, f) /\ Trusted(short_reads, x) /\ IsFile(x)
  BY DEF OpenFile, Lent, Reading, Safe
<1>2. CASE x.crypto = "plain"
  <2>1. o \in PlainRead(x, n)
    BY <1>2 DEF CryptoRead
  <2>2. \A w, out : Outcome(w, out, TRUE).ok = TRUE
    BY DEF Outcome
  <2> QED
    BY <2>1, <2>2, Zenon DEF PlainRead
<1>3. CASE x.crypto = "zipcrypto"
  <2>1. o \in ZipCryptoRead(x, n)
    BY <1>3 DEF CryptoRead
  <2>2. \A w, out : Outcome(w, out, TRUE).ok = TRUE
    BY DEF Outcome
  <2> QED
    BY <2>1, <2>2, Zenon DEF ZipCryptoRead
<1>4. CASE x.crypto = "aes"
  <2>1. o \in AesRead(x, n) /\ f.aes # "none" /\ x.password = "right"
    BY <1>1, <1>4 DEF CryptoRead, KindOK, Trusted
  <2>2. AesOK(disk, f, x, Got(f, x))
    BY <1>1 DEF InputOK
  <2> QED
    BY <1>1, <1>4, <2>1, <2>2, AesDoesNotFail
<1> QED
  BY <1>1, <1>2, <1>3, <1>4 DEF IsFile

\* DecoderEnd is the place of the first end marker.
LEMMA MarkerCells ==
    ASSUME NEW f, NEW s, IsSeq(s)
    PROVE  LET m == DecoderEnd(f, s) IN
           /\ m \in 0..Len(s) /\ (m # 0 => s[m] = <<"zend", f.method>>)
           /\ \A i \in 1..Len(s) : s[i] = <<"zend", f.method>> => m # 0 /\ m <= i
<1> DEFINE I == {i \in 1..Len(s) : s[i] = <<"zend", f.method>>}
           m == IF I # {} THEN Min(I) ELSE 0
<1>1. DecoderEnd(f, s) = m
  BY DEF DecoderEnd, SelectInSeq
<1>2. Len(s) \in Nat
  BY LenIsNat
<1>3. CASE I = {}
  BY <1>1, <1>2, <1>3
<1>4. CASE I # {}
  <2>1. \E j \in I : \A i \in I : j <= i
    <3>1. I \subseteq Nat
      BY <1>2
    <3> HIDE DEF I
    <3> QED
      BY <1>4, <3>1, SmallestNat
  <2>2. m \in I /\ \A i \in I : m <= i
    BY <1>4, <2>1 DEF Min
  <2> HIDE DEF m
  <2>3. m \in 1..Len(s) /\ s[m] = <<"zend", f.method>>
    BY <2>2
  <2>4. \A i \in 1..Len(s) : s[i] = <<"zend", f.method>> => m <= i
    BY <2>2
  <2> QED
    BY <1>1, <1>2, <2>3, <2>4
<1> QED
  BY <1>3, <1>4

\* The beginning of sound data is not damaged, and has the end marker only if
\* it is all of it.
LEMMA BeginningIsSound ==
    ASSUME NEW f, f.method # "stored", NEW s, NEW t, Begins(s, t),
           t # << >>, DecoderEnd(f, t) = Len(t), ~Corrupt(f, t)
    PROVE  ~Corrupt(f, s) /\ (DecoderEnd(f, s) # 0 => s = t)
<1> DEFINE ds == Decodable(f, s)
           dt == Decodable(f, t)
           es == DecoderEnd(f, s)
           et == DecoderEnd(f, t)
<1>1. /\ IsSeq(s) /\ IsSeq(t) /\ Len(s) \in Nat /\ Len(t) \in Nat
      /\ Len(s) <= Len(t) /\ \A j \in 1..Len(s) : s[j] = t[j]
  BY LenIsNat DEF Begins
<1>2. /\ ds \in 0..Len(s) /\ \A i \in 1..ds : IsBlock(f, s[i])
      /\ ds < Len(s) => ~IsBlock(f, s[ds + 1])
      /\ dt \in 0..Len(t) /\ \A i \in 1..dt : IsBlock(f, t[i])
      /\ dt < Len(t) => ~IsBlock(f, t[dt + 1])
  BY <1>1, DecodableCells
<1>3. /\ es \in 0..Len(s) /\ (es # 0 => s[es] = <<"zend", f.method>>)
      /\ \A i \in 1..Len(t) : t[i] = <<"zend", f.method>> => et # 0 /\ et <= i
  BY <1>1, MarkerCells
<1>4. et = Len(t) /\ (dt < Len(t) => dt + 1 = et)
  BY DEF Corrupt
<1> HIDE DEF ds, dt, es, et
<1>5. es # 0 => s = t
  <2> SUFFICES ASSUME es # 0 PROVE s = t
    OBVIOUS
  <2>1. es \in 1..Len(s) /\ es \in 1..Len(t) /\ t[es] = <<"zend", f.method>>
    BY <1>1, <1>3
  <2>2. Len(s) = Len(t)
    BY <1>1, <1>3, <1>4, <2>1
  <2> QED
    BY <2>2, BeginsIsPrefix
<1>6. ~Corrupt(f, s)
  <2> SUFFICES ASSUME Corrupt(f, s) PROVE FALSE
    OBVIOUS
  <2>1. ds < Len(s) /\ ds + 1 # es
    BY DEF Corrupt, ds, es
  <2>2. ds + 1 \in 1..Len(s) /\ ~IsBlock(f, t[ds + 1])
    <3>1. ds + 1 \in 1..Len(s)
      BY <1>1, <1>2, <2>1
    <3> QED
      BY <1>1, <1>2, <2>1, <3>1
  <2>3. ~(ds + 1 \in 1..dt)
    BY <1>2, <2>2
  <2>4. ~(dt < ds)
    <3> SUFFICES ASSUME dt < ds PROVE FALSE
      OBVIOUS
    <3>1. dt + 1 \in 1..ds /\ dt + 1 \in 1..Len(s) /\ dt < Len(t)
      BY <1>1, <1>2
    <3> QED
      BY <1>1, <1>2, <3>1
  <2>5. dt = ds /\ dt < Len(t)
    BY <1>1, <1>2, <2>1, <2>3, <2>4
  <2>6. Len(s) = Len(t)
    BY <1>1, <1>2, <1>4, <2>1, <2>5
  <2>7. s = t
    BY <2>6, BeginsIsPrefix
  <2> QED
    BY <2>7
<1> QED
  BY <1>5, <1>6 DEF es

\* Where there is no more to decrypt, what was is all there is: its checksum is
\* right, or there is none to compare.
LEMMA ChecksumFits ==
    ASSUME NEW f, NEW z, OpenFile(f, z), z.stage # "raw", Safe(f, z)
    PROVE  \/ IsAe2(z)
           \/ Decoded(f, ClearOf(f, Data(disk, f))) = f.crc32
<1>1. KindOK(f, z) /\ IsFile(z) /\ f = Entry(z) /\ SoundData(disk, f)
  BY DEF OpenFile, Lent, Safe
<1>2. CASE f.aes = "ae2"
  <2>1. f.encrypted
    BY <1>1, <1>2 DEF SoundData
  <2>2. z.crypto = "aes"
    BY <1>1, <1>2, <2>1 DEF KindOK, IsFile
  <2> QED
    BY <1>1, <1>2, <2>2 DEF IsAe2
<1>3. CASE f.aes # "ae2"
  BY <1>1, <1>3 DEF SoundData
<1> QED
  BY <1>2, <1>3

\* A step of an open file that keeps it calm.
StaysCalm(f, x, y) ==
    /\ y.index = x.index /\ y.crypto = x.crypto /\ y.password = x.password
    /\ Safe(f, x) => Calm(y)

LEMMA CheckedCalm ==
    ASSUME NEW f, NEW z, IsFile(z), f = Entry(z), NEW n \in Nat,
           NEW out, IsSeq(out), Calm(z),
           out # << >> \/ n = 0 \/ IsAe2(z) \/ z.hasher = f.crc32
    PROVE  Calm(Checked(z, n, out))
<1>1. ~(out = << >> /\ InvalidCheck(z, n))
  BY DEF InvalidCheck
<1>2. CASE out # << >>
  <2> DEFINE y == [z EXCEPT !.hasher = @ \o out, !.seen = "data"]
  <2>1. Checked(z, n, out) = y
    BY <1>2 DEF Checked
  <2>2. y.seen = "data" /\ y.failed = z.failed
    BY DEF IsFile
  <2> QED
    BY <2>1, <2>2 DEF Calm
<1>3. CASE out = << >> /\ n = 0
  BY <1>1, <1>3 DEF Checked
<1>4. CASE out = << >> /\ n # 0
  <2> DEFINE y == [z EXCEPT !.seen = "end"]
  <2>1. Checked(z, n, out) = y
    BY <1>1, <1>4 DEF Checked
  <2>2. y.seen = "end" /\ y.failed = z.failed
    BY DEF IsFile
  <2> QED
    BY <2>1, <2>2 DEF Calm
<1> QED
  BY <1>2, <1>3, <1>4

LEMMA ReadStoredCalm ==
    ASSUME NEW f, NEW x, OpenFile(f, x), x.stage = "decoding",
           f.method = "stored", NEW n \in Nat, NEW o \in CryptoRead(x, n)
    PROVE  StaysCalm(f, x, IF o.ok THEN Checked(o.z, n, o.out) ELSE Failed(o.z))
<1>1. /\ IsFile(x) /\ Reading(f, x) /\ KindOK(f, x)
      /\ InputOK(disk, f, short_reads, x, x.hasher)
      /\ IsSeq(x.hasher) /\ f = Entry(x)
  BY DEF OpenFile, Lent, Reading, Got, IsFile
<1>2. Delivers(f, x, x.hasher, n, o)
  BY <1>1, CryptoReadDelivers
<1>3. /\ IsFile(o.z) /\ SameReader(o.z, x) /\ IsSeq(o.out) /\ o.ok \in BOOLEAN
      /\ o.ok /\ o.out = << >> => n = 0 \/ Exhausted(disk, x)
  BY <1>2 DEF Delivers
<1>4. /\ f = Entry(o.z) /\ o.z.crypto = x.crypto /\ o.z.password = x.password
      /\ o.z.index = x.index /\ o.z.hasher = x.hasher /\ (Calm(x) => Calm(o.z))
      /\ (IsAe2(x) => IsAe2(o.z))
  BY <1>1, <1>3 DEF SameReader, Entry, Calm, IsAe2
<1>5. CASE o.ok
  <2> DEFINE y == Checked(o.z, n, o.out)
  <2>1. PassedOn(f, o.z, n, o.out, y)
    BY <1>3, <1>4, CheckedFields
  <2>2. y.index = x.index /\ y.crypto = x.crypto /\ y.password = x.password
    BY <1>4, <2>1 DEF PassedOn, SameInput
  <2>3. ASSUME Safe(f, x) PROVE Calm(y)
    <3>1. Exhausted(disk, x) => IsAe2(x) \/ x.hasher = f.crc32
      <4> SUFFICES ASSUME Exhausted(disk, x), ~IsAe2(x)
                   PROVE  x.hasher = f.crc32
        OBVIOUS
      <4>1. x.hasher = ClearOf(f, Data(disk, f))
        BY <2>3, WholeAtEnd DEF Got
      <4>2. Decoded(f, ClearOf(f, Data(disk, f))) = f.crc32
        BY <2>3, ChecksumFits
      <4> QED
        BY <4>1, <4>2 DEF Decoded
    <3>2. o.out # << >> \/ n = 0 \/ IsAe2(o.z) \/ o.z.hasher = f.crc32
      BY <1>3, <1>4, <1>5, <3>1
    <3>3. Calm(o.z)
      BY <1>4, <2>3 DEF Safe
    <3> QED
      BY <1>3, <1>4, <3>2, <3>3, CheckedCalm
  <2> QED
    BY <1>5, <2>2, <2>3 DEF StaysCalm
<1>6. CASE ~o.ok
  <2> DEFINE y == Failed(o.z)
  <2>1. SameInput(y, o.z) /\ y.index = o.z.index
    BY <1>3, FailedFields DEF SameAbove
  <2>2. y.index = x.index /\ y.crypto = x.crypto /\ y.password = x.password
    BY <1>4, <2>1 DEF SameInput
  <2>3. ~Safe(f, x)
    BY <1>6, CipherDoesNotFail
  <2> QED
    BY <1>6, <2>2, <2>3 DEF StaysCalm
<1> QED
  BY <1>3, <1>5, <1>6

LEMMA DecoderFillsCalm ==
    ASSUME NEW f, NEW x, OpenFile(f, x), x.stage = "decoding",
           f.method # "stored", NEW o \in CryptoRead(x, DecoderBuffer)
    PROVE  StaysCalm(f, x, IF o.ok THEN [o.z EXCEPT !.fed = @ \o o.out,
                                                    !.eof = o.out = << >>]
                           ELSE Failed(o.z))
<1>1. /\ IsFile(x) /\ Reading(f, x) /\ KindOK(f, x)
      /\ InputOK(disk, f, short_reads, x, x.fed) /\ IsSeq(x.fed)
  BY DecodingFacts
<1>2. DecoderBuffer \in Nat
  BY ReaderAssumption
<1>3. Delivers(f, x, x.fed, DecoderBuffer, o)
  BY <1>1, <1>2, CryptoReadDelivers
<1>4. /\ IsFile(o.z) /\ SameReader(o.z, x) /\ IsSeq(o.out) /\ o.ok \in BOOLEAN
  BY <1>3 DEF Delivers
<1>5. /\ o.z.index = x.index /\ o.z.crypto = x.crypto /\ o.z.password = x.password
      /\ (Calm(x) => Calm(o.z))
  BY <1>4 DEF SameReader, Calm
<1>6. CASE o.ok
  <2> DEFINE y == [o.z EXCEPT !.fed = @ \o o.out, !.eof = o.out = << >>]
  <2>1. /\ IsFile(y) /\ SameInput(y, o.z) /\ y.index = o.z.index
        /\ y.stage = o.z.stage /\ y.fed = o.z.fed \o o.out
        /\ y.eof = (o.out = << >>) /\ y.hasher = o.z.hasher
        /\ y.seen = o.z.seen /\ y.failed = o.z.failed
    BY <1>4, FillFields
  <2> HIDE DEF y
  <2>2. StaysCalm(f, x, y)
    BY <1>5, <2>1 DEF StaysCalm, SameInput, Calm, Safe
  <2> QED
    BY <1>6, <2>2 DEF y
<1>7. CASE ~o.ok
  <2> DEFINE y == Failed(o.z)
  <2>1. SameInput(y, o.z) /\ y.index = o.z.index
    BY <1>4, FailedFields DEF SameAbove
  <2>2. y.index = x.index /\ y.crypto = x.crypto /\ y.password = x.password
    BY <1>5, <2>1 DEF SameInput
  <2>3. ~Safe(f, x)
    BY <1>2, <1>7, CipherDoesNotFail
  <2> QED
    BY <1>7, <2>2, <2>3 DEF StaysCalm
<1> QED
  BY <1>4, <1>6, <1>7

LEMMA DecoderReturnsCalm ==
    ASSUME NEW f, NEW x, OpenFile(f, x), x.stage = "decoding", f.method # "stored",
           NEW y, DecoderPassesOn(x, [x EXCEPT !.eof = FALSE], y)
    PROVE  StaysCalm(f, x, y)
<1> DEFINE z     == [x EXCEPT !.eof = FALSE]
           g     == x.fed
           h     == x.hasher
           all   == Decoded(f, g)
           r     == Ready(z)
           clear == ClearOf(f, Data(disk, f))
<1>1. /\ IsFile(x) /\ IsSeq(g) /\ Begins(h, all) /\ (x.eof => Exhausted(disk, x))
  BY DecodingFacts
<1>2. /\ IsFile(z) /\ SameInput(z, x) /\ SameAbove(z, x)
      /\ z.seen = x.seen /\ z.failed = x.failed
  BY <1>1, EofResetFields
<1>3. /\ f = Entry(x) /\ f = Entry(z) /\ z.hasher = h /\ z.fed = g
      /\ z.index = x.index /\ z.crypto = x.crypto /\ z.password = x.password
      /\ (Calm(x) => Calm(z)) /\ (IsAe2(x) => IsAe2(z))
  BY <1>2 DEF OpenFile, Entry, SameAbove, SameInput, Calm, IsAe2
<1>4. r = SubSeq(all, Len(h) + 1, Len(all))
  BY <1>3 DEF Ready
<1>5. DecoderPassesOn(x, z, y)
  OBVIOUS
<1> HIDE DEF z, r
<1>6. ASSUME Safe(f, x)
      PROVE  /\ Begins(g, clear) /\ (x.eof => g = clear)
             /\ f.method # "stored" /\ clear # << >>
             /\ DecoderEnd(f, clear) = Len(clear) /\ ~Corrupt(f, clear)
             /\ IsAe2(x) \/ Decoded(f, clear) = f.crc32
  <2>1. x.stage # "raw" /\ Got(f, x) = g
    BY DEF Got
  <2>2. Begins(g, clear)
    <3>1. /\ x.password \in {"right", "none"}
          /\ x.crypto = "zipcrypto" => ~short_reads /\ ~x.failed
      BY <1>6 DEF Safe, Trusted, Calm
    <3> QED
      BY <2>1, <3>1, GotIsClear
  <2>3. x.eof => g = clear
    BY <1>1, <1>6, <2>1, WholeAtEnd
  <2>4. IsAe2(x) \/ Decoded(f, clear) = f.crc32
    BY <1>6, <2>1, ChecksumFits
  <2> QED
    BY <1>6, <2>2, <2>3, <2>4 DEF Safe, SoundData
<1>7. ASSUME Safe(f, x)
      PROVE  ~Damaged(x) /\ (DecoderEnd(f, g) # 0 => g = clear)
  <2>1. ~Corrupt(f, g) /\ (DecoderEnd(f, g) # 0 => g = clear)
    <3> HIDE DEF g, clear
    <3> QED
      BY <1>6, <1>7, BeginningIsSound
  <2>2. ~(x.eof /\ CutOff(f, g))
    <3> SUFFICES ASSUME x.eof PROVE DecoderEnd(f, g) # 0
      BY DEF CutOff
    <3>1. g = clear /\ DecoderEnd(f, clear) = Len(clear) /\ clear # << >>
      BY <1>6, <1>7
    <3> HIDE DEF g, clear
    <3>2. IsSeq(clear)
      BY <1>1, <3>1
    <3>3. Len(clear) # 0
      BY <3>1, <3>2, EmptyIffNoLength
    <3> QED
      BY <3>1, <3>3
  <2> QED
    BY <1>3, <2>1, <2>2 DEF Damaged
<1> HIDE DEF clear
<1>8. ASSUME NEW n \in Nat, NEW out, IsSeq(out), y = Checked(z, n, out),
             Safe(f, x) => out # << >> \/ IsAe2(z) \/ h = f.crc32
      PROVE  StaysCalm(f, x, y)
  <2>1. PassedOn(f, z, n, out, y)
    BY <1>2, <1>3, <1>8, CheckedFields
  <2>2. y.index = x.index /\ y.crypto = x.crypto /\ y.password = x.password
    BY <1>3, <2>1 DEF PassedOn, SameInput
  <2>3. ASSUME Safe(f, x) PROVE Calm(y)
    <3>1. Calm(z)
      BY <1>3, <2>3 DEF Safe
    <3>2. out # << >> \/ n = 0 \/ IsAe2(z) \/ z.hasher = f.crc32
      BY <1>3, <1>8, <2>3
    <3> QED
      BY <1>2, <1>3, <1>8, <3>1, <3>2, CheckedCalm
  <2> QED
    BY <2>2, <2>3 DEF StaysCalm
<1>9. /\ IsSeq(h) /\ IsSeq(all) /\ Len(h) \in Nat /\ Len(all) \in Nat
      /\ Len(h) <= Len(all)
  BY <1>1, LenIsNat DEF Begins
<1>10. IsSeq(r) /\ Len(r) = Len(all) - Len(h)
  <2> HIDE DEF all, h
  <2> QED
    BY <1>4, <1>9, PartCells
<1>11. ASSUME NEW k \in 1..Min({Len(r), MaxBuffer}),
              y = Checked(z, k, SubSeq(r, 1, k))
       PROVE  StaysCalm(f, x, y)
  <2> DEFINE out == SubSeq(r, 1, k)
  <2>1. k \in Nat /\ k # 0 /\ k <= Len(r)
    <3>1. Len(r) \in Int /\ MaxBuffer \in Int
      BY <1>9, <1>10, ReaderAssumption
    <3>2. Min({Len(r), MaxBuffer}) =
            IF Len(r) <= MaxBuffer THEN Len(r) ELSE MaxBuffer
      BY <3>1, MinOfTwo
    <3> QED
      BY <3>1, <3>2
  <2>2. IsSeq(out) /\ Len(out) = k
    BY <1>10, <2>1, PrefixCells
  <2>3. y = Checked(z, k, out)
    BY <1>11
  <2> HIDE DEF out
  <2>4. out # << >>
    BY <2>1, <2>2, EmptyIffNoLength
  <2> QED
    BY <1>8, <2>1, <2>2, <2>3, <2>4
<1>12. ASSUME Damaged(x), y = Failed(z) PROVE StaysCalm(f, x, y)
  <2>1. SameInput(y, z) /\ y.index = z.index
    BY <1>2, <1>12, FailedFields DEF SameAbove
  <2>2. y.index = x.index /\ y.crypto = x.crypto /\ y.password = x.password
    BY <1>3, <2>1 DEF SameInput
  <2> QED
    BY <1>7, <1>12, <2>2 DEF StaysCalm
<1>13. ASSUME r = << >>, x.eof \/ AtMarker(z), y = Checked(z, 1, << >>)
       PROVE  StaysCalm(f, x, y)
  <2>1. h = all
    <3>1. Len(r) = 0
      BY <1>13, EmptyIsSeq
    <3>2. Len(h) = Len(all)
      BY <1>9, <1>10, <3>1
    <3> QED
      BY <1>1, <3>2, BeginsIsPrefix
  <2>2. AtMarker(z) => DecoderEnd(f, g) # 0
    BY <1>3 DEF AtMarker
  <2>3. Safe(f, x) => IsAe2(z) \/ h = f.crc32
    <3> SUFFICES ASSUME Safe(f, x) PROVE IsAe2(z) \/ h = f.crc32
      OBVIOUS
    <3>1. g = clear
      BY <1>6, <1>7, <1>13, <2>2
    <3>2. IsAe2(x) \/ Decoded(f, clear) = f.crc32
      BY <1>6
    <3> QED
      BY <1>3, <2>1, <3>1, <3>2
  <2>4. IsSeq(<< >>) /\ 1 \in Nat
    BY EmptyIsSeq
  <2> QED
    BY <1>8, <1>13, <2>3, <2>4
<1> QED
  BY <1>5, <1>11, <1>12, <1>13 DEF DecoderPassesOn, r

LEMMA ReadRawCalm ==
    ASSUME NEW f, NEW z, OpenFile(f, z), NEW n \in Nat,
           NEW o \in PlainRead([z EXCEPT !.stage = "raw"], n)
    PROVE  StaysCalm(f, z, [o.z EXCEPT !.raw = @ \o o.out,
                              !.seen = IF n > 0 /\ o.out = << >> THEN "end" ELSE @])
<1> DEFINE x    == [z EXCEPT !.stage = "raw"]
           seen == IF n > 0 /\ o.out = << >> THEN "end" ELSE o.z.seen
           y    == [o.z EXCEPT !.raw = @ \o o.out, !.seen = seen]
<1>1. IsFile(z) /\ SharedOK /\ IsHeader(f) /\ Located(disk, f, z)
  BY DEF OpenFile, Lent
<1>2. /\ IsFile(x) /\ SameInput(x, z) /\ x.index = z.index /\ x.seen = z.seen /\ x.failed = z.failed
  BY <1>1, ToRawFields
<1> HIDE DEF x
<1>3. Reading(f, x)
  BY <1>1, <1>2 DEF Reading, Located, SameInput
<1>4. ReadsOn(f, x, n, o)
  BY <1>3, PlainReadOn DEF x
<1>5. IsFile(o.z) /\ SameReader(o.z, x) /\ IsSeq(o.out)
  BY <1>4 DEF ReadsOn
<1>6. seen \in {"nothing", "data", "end", "error"} /\ seen \in {"end", o.z.seen}
  BY <1>5 DEF IsFile
<1> HIDE DEF seen
<1>7. RawPassedOn(o.z, o.out, seen, y)
  BY <1>5, <1>6, RawFields
<1> HIDE DEF y
<1>8. /\ y.index = z.index /\ y.crypto = z.crypto /\ y.password = z.password
      /\ y.failed = z.failed /\ y.seen \in {"end", z.seen}
  BY <1>2, <1>5, <1>6, <1>7 DEF RawPassedOn, SameInput, SameReader
<1>9. StaysCalm(f, z, y)
  BY <1>8 DEF StaysCalm, Safe, Calm
<1> QED
  BY <1>9 DEF y, seen

\* What a step does to the file of clone c, as far as it concerns sound entries,
\* as long as no source fails.
CalmStep(c) ==
    \/ faults' # 0 \/ UNCHANGED file
    \/ \E y : SetFile(c, y) /\ CalmFile(disk, files, short_reads, y)

LEMMA NoFileIsCalm == CalmFile(disk, files, short_reads, NoFile)
BY NoFileIsFile DEF CalmFile

LEMMA StaysCalmStep ==
    ASSUME CalmInv, faults = 0, NEW c \in Clones, IsOpen(c),
           NEW y, SetFile(c, y), StaysCalm(Entry(file[c]), file[c], y)
    PROVE  CalmStep(c)
<1>1. CalmFile(disk, files, short_reads, file[c])
  BY DEF CalmInv
<1>2. CalmFile(disk, files, short_reads, y)
  BY <1>1 DEF CalmFile, StaysCalm, Safe, Trusted, Entry, IsOpen
<1> QED
  BY <1>2 DEF CalmStep

\* The first read finds the file as calm as the next ones do.
LEMMA FirstReadCalm ==
    ASSUME NEW f, NEW z, IsFile(z), NEW y, StaysCalm(f, Decoding(z), y)
    PROVE  StaysCalm(f, z, y)
<1> DEFINE x == Decoding(z)
<1>1. /\ SameInput(x, z) /\ x.index = z.index /\ x.seen = z.seen
      /\ x.failed = z.failed
  BY DecodingFields
<1> HIDE DEF x
<1>2. StaysCalm(f, x, y)
  BY DEF x
<1> QED
  BY <1>1, <1>2 DEF StaysCalm, Safe, Calm, Trusted, SameInput

LEMMA OpensCalmly ==
    ASSUME ReaderInv, NEW c \in Clones, NEW i \in DOMAIN files,
           NEW given \in Passwords \cup {"none"}, Open(c, i, given)
    PROVE  CalmStep(c)
<1>1. OpenStep(c, i)
  BY OpenIsStep DEF ReaderInv
<1>2. CASE UNCHANGED file
  BY <1>2 DEF CalmStep
<1>3. CASE \E z : MayLend(i, z) /\ Lends(c, z)
  BY <1>3 DEF MayLend, Lends, CalmStep, CalmFile, Calm
<1> QED
  BY <1>1, <1>2, <1>3 DEF OpenStep

LEMMA OpeningIsCalm ==
    ASSUME ReaderInv, NEW c \in Clones,
           ByIndex(c) \/ ByIndexDecrypt(c) \/ ByName(c) \/ ByIndexRaw(c) \/ OpenFails(c)
    PROVE  CalmStep(c)
<1>1. ASSUME Refuses(c, "err") PROVE CalmStep(c)
  BY <1>1 DEF Refuses, CalmStep
<1>2. CASE ByIndex(c)
  BY <1>2, OpensCalmly DEF ByIndex
<1>3. CASE ByIndexDecrypt(c)
  BY <1>3, OpensCalmly DEF ByIndexDecrypt
<1>4. CASE ByName(c)
  <2>1. PICK n \in Names, password \in Passwords \cup {"none"} :
          \/ Named(n) # {} /\ Open(c, Max(Named(n)), password)
          \/ Named(n) = {} /\ Refuses(c, "err") /\ UNCHANGED data_start
    BY <1>4 DEF ByName
  <2>2. CASE Named(n) # {} /\ Open(c, Max(Named(n)), password)
    <3> DEFINE i == Max(Named(n))
    <3>1. i \in DOMAIN files
      BY <2>2, LastNamed, SharedFacts DEF ReaderInv
    <3>2. Open(c, i, password)
      BY <2>2
    <3> HIDE DEF i
    <3> QED
      BY <3>1, <3>2, OpensCalmly
  <2> QED
    BY <1>1, <2>1, <2>2
<1>5. CASE ByIndexRaw(c)
  <2> DEFINE Z(i) == [Fresh(i, "plain", "none", ContentStart(files[i]),
                            files[i].compressed_size) EXCEPT !.stage = "raw"]
  <2>1. PICK i \in DOMAIN files :
          \/ Refuses(c, "err")
          \/ FindContent(disk, files[i]).ok /\ Lends(c, Z(i))
    BY <1>5 DEF ByIndexRaw
  <2>2. CASE FindContent(disk, files[i]).ok /\ Lends(c, Z(i))
    <3> DEFINE z == Z(i)
    <3>1. MayLend(i, z)
      <4>1. Found(i)
        BY <2>2 DEF Found, ReaderInv
      <4> QED
        BY <4>1, RawLent
    <3>2. Lends(c, z)
      BY <2>2
    <3> HIDE DEF z
    <3> QED
      BY <3>1, <3>2 DEF MayLend, Lends, CalmStep, CalmFile, Calm
  <2> QED
    BY <1>1, <2>1, <2>2
<1>6. CASE OpenFails(c)
  BY <1>1, <1>6 DEF OpenFails
<1> QED
  BY <1>2, <1>3, <1>4, <1>5, <1>6

LEMMA ReadStoredIsCalm ==
    ASSUME ReaderInv, CalmInv, faults = 0, NEW c \in Clones, ReadStored(c)
    PROVE  CalmStep(c)
<1> DEFINE f == Entry(file[c])
           x == Decoding(file[c])
           Y(n, o) == IF o.ok THEN Checked(o.z, n, o.out) ELSE Failed(o.z)
<1>1. PICK n \in 0..MaxBuffer : \E o \in CryptoRead(x, n) : SetFile(c, Y(n, o))
  BY DEF ReadStored
<1>2. PICK o \in CryptoRead(x, n) : SetFile(c, Y(n, o))
  BY <1>1
<1>3. IsOpen(c) /\ IsDecoded(c) /\ f.method = "stored" /\ IsFile(file[c])
  BY OpenFacts DEF ReadStored, IsDecoded
<1>4. n \in Nat
  BY ReaderAssumption
<1>5. StaysCalm(f, x, Y(n, o))
  <2>1. OpenFile(f, x) /\ x.stage = "decoding"
    BY <1>3, DecodingOf
  <2> HIDE DEF f, x
  <2> QED
    BY <1>2, <1>3, <1>4, <2>1, ReadStoredCalm
<1> DEFINE y == Y(n, o)
<1>6. SetFile(c, y) /\ StaysCalm(f, file[c], y)
  BY <1>2, <1>3, <1>5, FirstReadCalm
<1> HIDE DEF y
<1> QED
  BY <1>3, <1>6, StaysCalmStep

LEMMA DecoderFillsIsCalm ==
    ASSUME ReaderInv, CalmInv, faults = 0, NEW c \in Clones, DecoderFills(c)
    PROVE  CalmStep(c)
<1> DEFINE f == Entry(file[c])
           x == Decoding(file[c])
           Y(o) == IF o.ok THEN [o.z EXCEPT !.fed = @ \o o.out, !.eof = o.out = << >>]
                           ELSE Failed(o.z)
<1>1. PICK o \in CryptoRead(x, DecoderBuffer) : SetFile(c, Y(o))
  BY DEF DecoderFills
<1>2. IsOpen(c) /\ IsDecoded(c) /\ f.method \in Decoders /\ IsFile(file[c])
  BY OpenFacts DEF DecoderFills, HasDecoder, IsDecoded
<1>3. StaysCalm(f, x, Y(o))
  <2>1. OpenFile(f, x) /\ x.stage = "decoding" /\ f.method # "stored"
    BY <1>2, DecodingOf
  <2> HIDE DEF f, x
  <2> QED
    BY <1>1, <2>1, DecoderFillsCalm
<1> DEFINE y == Y(o)
<1>4. SetFile(c, y) /\ StaysCalm(f, file[c], y)
  BY <1>1, <1>2, <1>3, FirstReadCalm
<1> HIDE DEF y
<1> QED
  BY <1>2, <1>4, StaysCalmStep

LEMMA DecoderReturnsIsCalm ==
    ASSUME ReaderInv, CalmInv, faults = 0, NEW c \in Clones, DecoderReturns(c)
    PROVE  CalmStep(c)
<1> DEFINE f == Entry(file[c])
           x == file[c]
           z == [x EXCEPT !.eof = FALSE]
<1>1. IsOpen(c) /\ f.method \in Decoders /\ x.stage = "decoding"
  BY DEF DecoderReturns, HasDecoder, IsDecoded
<1>2. PICK y : SetFile(c, y) /\ DecoderPassesOn(x, z, y)
  BY DEF DecoderReturns, DecoderPassesOn
<1>3. StaysCalm(f, x, y)
  <2>1. OpenFile(f, x) /\ f.method # "stored"
    BY <1>1, OpenFileOf, DecodersAssumption DEF ReaderInv
  <2> HIDE DEF f, x
  <2> QED
    BY <1>1, <1>2, <2>1, DecoderReturnsCalm
<1> QED
  BY <1>1, <1>2, <1>3, StaysCalmStep

LEMMA ReadRawIsCalm ==
    ASSUME ReaderInv, CalmInv, faults = 0, NEW c \in Clones, ReadRaw(c)
    PROVE  CalmStep(c)
<1> DEFINE f == Entry(file[c])
           z == file[c]
           Y(n, o) == [o.z EXCEPT !.raw = @ \o o.out,
                         !.seen = IF n > 0 /\ o.out = << >> THEN "end" ELSE @]
<1>1. PICK n \in 0..MaxBuffer :
        \E o \in PlainRead([z EXCEPT !.stage = "raw"], n) : SetFile(c, Y(n, o))
  BY DEF ReadRaw
<1>2. PICK o \in PlainRead([z EXCEPT !.stage = "raw"], n) : SetFile(c, Y(n, o))
  BY <1>1
<1>3. IsOpen(c) /\ n \in Nat
  BY ReaderAssumption DEF ReadRaw
<1>4. StaysCalm(f, z, Y(n, o))
  <2>1. OpenFile(f, z)
    BY <1>3, OpenFileOf DEF ReaderInv
  <2> HIDE DEF f, z
  <2> QED
    BY <1>2, <1>3, <2>1, ReadRawCalm
<1> DEFINE y == Y(n, o)
<1>5. SetFile(c, y) /\ StaysCalm(f, z, y)
  BY <1>2, <1>4
<1> HIDE DEF y
<1> QED
  BY <1>3, <1>5, StaysCalmStep

LEMMA StepIsCalm ==
    ASSUME ReaderInv, CalmInv, faults = 0, Next
    PROVE  \E c \in Clones : CalmStep(c)
<1>1. PICK c \in Clones :
        \/ ByIndex(c) \/ ByIndexDecrypt(c) \/ ByName(c) \/ ByIndexRaw(c)
        \/ OpenFails(c)
        \/ ReadStored(c) \/ DecoderFills(c) \/ DecoderReturns(c)
        \/ MakeReaderPanics(c) \/ ReadFails(c) \/ ReadRaw(c) \/ DropFile(c)
  BY DEF Next
<1>2. ReadFails(c) => CalmStep(c)
  BY DEF ReadFails, CalmStep
<1>3. MakeReaderPanics(c) \/ DropFile(c) => CalmStep(c)
  BY NoFileIsCalm DEF MakeReaderPanics, DropFile, CalmStep
<1>4. CalmStep(c)
  BY <1>1, <1>2, <1>3, OpeningIsCalm, ReadStoredIsCalm, DecoderFillsIsCalm,
     DecoderReturnsIsCalm, ReadRawIsCalm
<1> QED
  BY <1>4

\* A source that has failed has failed for good.
LEMMA FaultsGrow ==
    ASSUME faults \in Nat, [Next]_vars
    PROVE  UNCHANGED shared /\ (faults' = 0 => faults = 0)
<1>1. CASE UNCHANGED vars
  BY <1>1 DEF vars
<1>2. CASE Next
  <2>1. PICK c \in Clones :
          \/ ByIndex(c) \/ ByIndexDecrypt(c) \/ ByName(c) \/ ByIndexRaw(c)
          \/ OpenFails(c)
          \/ ReadStored(c) \/ DecoderFills(c) \/ DecoderReturns(c)
          \/ MakeReaderPanics(c) \/ ReadFails(c) \/ ReadRaw(c) \/ DropFile(c)
    BY <1>2 DEF Next
  <2>2. UNCHANGED shared /\ (UNCHANGED faults \/ faults' = faults + 1)
    BY <2>1 DEF ByIndex, ByIndexDecrypt, ByName, ByIndexRaw, OpenFails, ReadStored,
       DecoderFills, DecoderReturns, MakeReaderPanics, ReadFails, ReadRaw, DropFile
  <2> QED
    BY <2>2
<1> QED
  BY <1>1, <1>2

LEMMA CalmKept == ReaderInv /\ CalmInv /\ [Next]_vars => CalmInv'
<1> SUFFICES ASSUME ReaderInv, CalmInv, [Next]_vars, faults' = 0, NEW d \in Clones
             PROVE  CalmFile(disk', files', short_reads', file'[d])
  BY DEF CalmInv
<1>1. faults \in Nat /\ DOMAIN file = Clones
  BY ReaderAssumption DEF ReaderInv, ResultsOK, FilesOK
<1>2. UNCHANGED shared /\ faults = 0
  BY <1>1, FaultsGrow
<1>3. /\ CalmFile(disk, files, short_reads, file[d])
      /\ \A z : CalmFile(disk', files', short_reads', z)
                  <=> CalmFile(disk, files, short_reads, z)
  BY <1>2 DEF CalmInv, shared
<1>4. CASE UNCHANGED file
  BY <1>3, <1>4
<1>5. CASE Next
  <2>1. PICK c \in Clones : CalmStep(c)
    BY <1>2, <1>5, StepIsCalm
  <2>2. CASE \E y : SetFile(c, y) /\ CalmFile(disk, files, short_reads, y)
    <3>1. PICK y : SetFile(c, y) /\ CalmFile(disk, files, short_reads, y)
      BY <2>2
    <3>2. file'[d] = IF d = c THEN y ELSE file[d]
      BY <1>1, <3>1 DEF SetFile
    <3> QED
      BY <1>3, <3>1, <3>2
  <2> QED
    BY <1>4, <2>1, <2>2 DEF CalmStep
<1> QED
  BY <1>4, <1>5 DEF vars

LEMMA CalmInitially == Init => CalmInv
<1>1. ASSUME NEW d, NEW fs, NEW s PROVE CalmFile(d, fs, s, NoFile)
  BY NoFileIsFile DEF CalmFile
<1> QED
  BY <1>1 DEF Init, CalmInv

\* Sound says so of its data.
LEMMA SoundIsData ==
    ASSUME SharedOK, NEW i \in DOMAIN files, Sound(i)
    PROVE  SoundData(disk, files[i])
<1> DEFINE f     == files[i]
           raw   == Data(disk, f)
           clear == ClearOf(f, raw)
           dl    == DataLength(f)
<1>1. /\ Content(i) = raw /\ Clear(i) = clear /\ Plain(i) = Decoded(f, clear)
  BY StatelessIsState DEF Plain
<1>2. /\ Len(raw) = f.compressed_size
      /\ f.method # "stored" => clear # << >> /\ DecoderEnd(f, clear) = Len(clear)
      /\ ~Corrupt(f, clear) /\ (f.aes # "ae2" => Decoded(f, clear) = f.crc32)
      /\ f.aes # "none" =>
           /\ f.encrypted /\ f.compressed_size > AES_OVERHEAD
           /\ raw[Len(raw)] = <<"mac", SubSeq(raw, 3, Len(raw) - 1)>>
  BY <1>1 DEF Sound, Last
<1>3. IsHeader(f) /\ FindContent(disk, f).ok
  BY SharedFacts DEF Sound
<1>4. ASSUME f.aes # "none" PROVE dl > 0 /\ dl + AES_OVERHEAD = Len(raw)
  <2> DEFINE n == f.compressed_size
  <2>1. /\ IsSeq(raw) /\ Len(raw) = n /\ n \in Nat /\ n < U64_MODULUS
        /\ U64_MODULUS \in Nat \ {0}
    BY <1>2, <1>3, DataCells, ReaderAssumption DEF IsHeader
  <2>2. AES_OVERHEAD = 3
    BY DEF AES_OVERHEAD, SALT_LENGTH, PWD_VERIFY_LENGTH, AUTH_CODE_LENGTH
  <2>3. n > 3
    BY <1>2, <1>4, <2>1, <2>2
  <2>4. dl = (n - 3) % U64_MODULUS
    BY <1>4, <2>2 DEF DataLength
  <2> HIDE DEF n, raw
  <2>5. dl = n - 3
    BY <2>1, <2>3, <2>4
  <2> QED
    BY <2>1, <2>2, <2>3, <2>5
<1> QED
  BY <1>2, <1>4 DEF SoundData

LEMMA CalmReadsWhole == ReaderInv /\ CalmInv => SoundEntriesReadWhole
<1> SUFFICES ASSUME ReaderInv, CalmInv, faults = 0, NEW c \in Clones, IsOpen(c),
                    file[c].password \in {"right", "none"},
                    Sound(file[c].index),
                    file[c].crypto = "zipcrypto" => ~short_reads
             PROVE  file[c].seen # "error"
  BY DEF SoundEntriesReadWhole
<1>1. file[c].index \in DOMAIN files /\ SharedOK
  BY OpenFacts DEF ReaderInv
<1>2. SoundData(disk, files[file[c].index])
  BY <1>1, SoundIsData
<1> QED
  BY <1>2 DEF CalmInv, CalmFile, Calm, Trusted, IsOpen

\* Nothing but a failing source keeps a caller with the right password from an
\* entry that is as its writer left it: no read of it returns an error, however
\* the reads are cut and whatever the source delivers at a time (with ZipCrypto,
\* all it is asked for), and whatever is wrong with the entries next to it.
THEOREM SoundEntriesAreRead == Spec => []SoundEntriesReadWhole
<1> QED
  BY CalmInitially, CalmKept, CalmReadsWhole, ReaderInvariance, PTL DEF Spec
==============================================================================

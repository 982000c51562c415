--------------------------- MODULE ArchiveReader ---------------------------
(***************************************************************************)
(* Reading through zip::ZipArchive (src/read.rs): clones of one archive,   *)
(* each with a source of its own and at most one open ZipFile, and the     *)
(* pipeline below a ZipFile: the source, io::Take, a cipher (zipcrypto.rs, *)
(* aes.rs), a decoder and the checksum (crc32.rs).                         *)
(*                                                                         *)
(* A read may be of any size, deliver less than asked, or fail and be      *)
(* tried again; a decoder fills its buffer in reads of its own.  What the  *)
(* clones share is the directory, and in it the data_start of each entry,  *)
(* which every opening stores.                                             *)
(*                                                                         *)
(* Cells of an encrypted entry: <<"crypthdr", check>> and <<"enc", cell>>; *)
(* with AES <<"salt">>, <<"pwverify">>, <<"sealed", key byte, cell>> and      *)
(* <<"mac", cells>>; what is decrypted with the wrong key is garbage.      *)
(***************************************************************************)
EXTENDS Decoder, AesCtr

CONSTANTS
    Disks,          \* what the source may contain
    Clones,         \* ZipArchives that share one directory
    Names,          \* names that are looked up
    Passwords,      \* "right", "wrong", and "lucky": wrong, but passes the check
    ShortReads,     \* may a source deliver less than it is asked for: a set
                    \* of answers, of which each behaviour has one
    OverflowChecks, \* whether the build panics on integer overflow
    U64_MODULUS,    \* 2^64, scaled: above every size of the run
    DecoderBuffer,  \* what a decoder asks for at once
    MaxBuffer,      \* bound: cells a caller asks for at once
    MaxFaults       \* bound: failures of the sources

ASSUME ReaderAssumption ==
    /\ Passwords \subseteq {"right", "wrong", "lucky"}
    /\ ShortReads \subseteq BOOLEAN /\ OverflowChecks \in BOOLEAN
    /\ DecoderBuffer \in Nat \ {0} /\ MaxBuffer \in Nat /\ MaxFaults \in Nat
    /\ U64_MODULUS \in Nat \ {0}

VARIABLES
    disk,           \* the content of the sources
    short_reads,    \* what kind of source it is
    files,          \* Shared::files, the directory
    data_start,     \* of each entry, 0 until some clone has opened it
    file,           \* of each clone, the ZipFile it has lent, or NoFile
    result,         \* of each clone, what its last opening returned
    faults

shared == <<disk, short_reads, files>>
vars == <<shared, data_start, file, result, faults>>

-----------------------------------------------------------------------------
(***************************************************************************)
(* ZipArchive::new: the directory, with the AES records of its entries.    *)
(***************************************************************************)
SALT_LENGTH == 1
PWD_VERIFY_LENGTH == 1
AUTH_CODE_LENGTH == 1
AES_OVERHEAD == SALT_LENGTH + PWD_VERIFY_LENGTH + AUTH_CODE_LENGTH

\* The 0x9901 arm of parse_extra_field, over a record <<"aes", version, method>>.
WithAes(f) ==
    LET i == SelectLastInSeq(f.extra_field, LAMBDA c : c[1] = "aes")
    IN  IF i = 0 THEN [aes |-> "none"] @@ f
        ELSE [aes |-> f.extra_field[i][2], method |-> f.extra_field[i][3]] @@ f

\* "Invalid AES vendor version", "AES encryption without AES extra data field"
AesRecordsValid(fs) ==
    \A i \in DOMAIN fs :
        /\ fs[i].aes \in {"none", "ae1", "ae2"}
        /\ fs[i].method = "aes" => fs[i].aes # "none"

Directory(d) ==
    LET fs == OpenArchive(d).files IN [i \in 1..Len(fs) |-> WithAes(fs[i])]

\* The numbers on a disk are unsigned, the methods those of CompressionMethod
\* (compression.rs), and blocks and what is encrypted are data.
IsHeader(f) ==
    /\ f.header_start \in Nat
    /\ f.compressed_size \in Nat /\ f.compressed_size < U64_MODULUS
    /\ f.encrypted \in BOOLEAN
    /\ f.method \in Decoders \cup {"stored", "aes", "unsupported"}

IsData(cell) == cell[1] = "z" => IsSeq(cell[3])

IsCell(cell) ==
    /\ IsData(cell)
    /\ cell[1] = "extralen" => cell[2] \in Nat
    /\ cell[1] = "enc" => IsData(cell[2]) /\ cell[2] # <<"garbage">>
    /\ cell[1] = "sealed" => IsData(cell[3]) /\ cell[3] # <<"garbage">>

ASSUME DisksAssumption ==
    \A d \in Disks :
        /\ IsSeq(d) /\ \A p \in 1..Len(d) : IsCell(d[p])
        /\ OpenArchive(d).ok =>
             /\ IsSeq(Directory(d))
             /\ \A i \in 1..Len(Directory(d)) : IsHeader(Directory(d)[i])

\* names_map: the last of several entries with one name.
Named(n) == {i \in DOMAIN files : files[i].name = n}

-----------------------------------------------------------------------------
(***************************************************************************)
(* A ZipFile.  `stage' is "fresh" while it holds a crypto_reader and no    *)
(* reader (NoReader), then "raw" or "decoding".                            *)
(***************************************************************************)
Fresh(i, crypto, password, start, limit) ==
    [index |-> i, crypto |-> crypto, password |-> password, stage |-> "fresh",
     pos |-> start, limit |-> limit,        \* the source, and Take's limit
     synced |-> TRUE,                       \* ZipCrypto: the keys fit the data
     ks |-> NewKeyStream, remaining |-> 0, mac |-> << >>,   \* AesReaderValid
     fed |-> << >>, eof |-> FALSE,          \* the decoder's input
     hasher |-> << >>,                      \* what was passed on
     raw |-> << >>,                         \* what a raw reader passed on
     seen |-> "nothing", failed |-> FALSE]  \* the last read, and any before

NoFile == Fresh(0, "plain", "none", 0, 0)

IsOpen(c) == file[c].index # 0
Entry(z)  == files[z.index]
IsAe2(z)  == z.crypto = "aes" /\ Entry(z).aes = "ae2"

SetFile(c, z) == file' = [file EXCEPT ![c] = z]

-----------------------------------------------------------------------------
(***************************************************************************)
(* find_content and make_crypto_reader.                                    *)
(***************************************************************************)
\* A slip: the extra field is taken to be as long as in the directory.
ContentStartByDirectory(f) == f.header_start + HEADER_LEN + Len(f.extra_field)

ContentStart(f) ==
    f.header_start + HEADER_LEN + At(disk, f.header_start + EXTRA_LEN_OFFSET)[2]

\* A slip: the offset of the header is stored.
StoredHeaderStart(i) == files[i].header_start

StoredDataStart(i) == ContentStart(files[i])

Content(i) == Region(disk, ContentStart(files[i]), files[i].compressed_size)

StoreDataStart(i) == data_start' = [data_start EXCEPT ![i] = StoredDataStart(i)]

Returns(c, r) == result' = [result EXCEPT ![c] = r]

Lends(c, z) == SetFile(c, z) /\ Returns(c, "ok")

Refuses(c, r) == Returns(c, r) /\ UNCHANGED file

\* Ok(Err(InvalidPassword)), which by_index and by_name, that have no password
\* to give, unwrap.
RefusesPassword(c, given) ==
    Refuses(c, IF given = "none" THEN "panic" ELSE "invalid_password")

OpensPlain(c, i) ==
    Lends(c, Fresh(i, "plain", "none", ContentStart(files[i]),
                   files[i].compressed_size))

\* ZipCryptoReader::validate reads the header; the last byte of it must be
\* the checksum's, or the time's.
CheckPasses(i, password) ==
    \/ password = "lucky"
    \/ password = "right" /\ Content(i)[1] = <<"crypthdr",
         IF files[i].using_data_descriptor THEN MsdosTime ELSE files[i].crc32>>

OpensZipCrypto(c, i, password) ==
    \/ /\ Content(i) = << >>
       /\ Refuses(c, "err")
    \/ /\ Content(i) # << >> /\ CheckPasses(i, password)
       /\ Lends(c, Fresh(i, "zipcrypto", password, ContentStart(files[i]) + 1,
                         files[i].compressed_size - 1))
    \/ /\ Content(i) # << >> /\ ~CheckPasses(i, password)
       /\ RefusesPassword(c, password)

\* AesReader::new subtracts without a check; validate reads salt and
\* verification value and compares the latter.
DataLength(f) == (f.compressed_size - AES_OVERHEAD) % U64_MODULUS

AesCheckPasses(i, password) ==
    \/ password = "lucky"
    \/ password = "right" /\ SubSeq(Content(i), 1, 2) = << <<"salt">>, <<"pwverify">> >>

OpensAes(c, i, password) ==
    LET underflows == files[i].compressed_size < AES_OVERHEAD /\ OverflowChecks
        whole      == Len(Content(i)) >= SALT_LENGTH + PWD_VERIFY_LENGTH
        start      == ContentStart(files[i]) + SALT_LENGTH + PWD_VERIFY_LENGTH
        limit      == files[i].compressed_size - SALT_LENGTH - PWD_VERIFY_LENGTH
    IN  \/ underflows /\ Refuses(c, "panic")
        \/ ~underflows /\ ~whole /\ Refuses(c, "err")
        \/ /\ ~underflows /\ whole /\ AesCheckPasses(i, password)
           /\ Lends(c, [Fresh(i, "aes", password, start, limit)
                          EXCEPT !.remaining = DataLength(files[i])])
        \/ /\ ~underflows /\ whole /\ ~AesCheckPasses(i, password)
           /\ RefusesPassword(c, password)

\* `password' is what is left of the one that was given.
MakeCryptoReader(c, i, password, given) ==
    LET aes == files[i].aes # "none" IN
    \/ files[i].method = "unsupported" /\ Refuses(c, "err")
    \/ /\ files[i].method # "unsupported"
       /\ \/ password # "none" /\ aes /\ OpensAes(c, i, password)
          \/ password # "none" /\ ~aes /\ OpensZipCrypto(c, i, password)
          \/ password = "none" /\ aes /\ RefusesPassword(c, given)
          \/ password = "none" /\ ~aes /\ OpensPlain(c, i)

-----------------------------------------------------------------------------
(***************************************************************************)
(* The calls that open a file.  A clone lends one file at a time; a panic  *)
(* is the end of it.                                                       *)
(***************************************************************************)
Idle(c) == ~IsOpen(c) /\ result[c] # "panic"

\* A slip: no check for a missing password.
NeverRequired(f, password) == FALSE

\* PASSWORD_REQUIRED
PasswordRequired(f, password) == f.encrypted /\ password = "none"

\* by_index_with_optional_password
Open(c, i, given) ==
    LET f == files[i]
        password == IF f.encrypted THEN given ELSE "none"   \* none needed
    IN  \/ /\ PasswordRequired(f, given)
           /\ Refuses(c, "err") /\ UNCHANGED data_start
        \/ /\ ~PasswordRequired(f, given) /\ ~FindContent(disk, f).ok
           /\ Refuses(c, "err") /\ UNCHANGED data_start
        \/ /\ ~PasswordRequired(f, given) /\ FindContent(disk, f).ok
           /\ StoreDataStart(i)
           /\ MakeCryptoReader(c, i, password, given)

ByIndex(c) ==
    /\ Idle(c)
    /\ \E i \in DOMAIN files : Open(c, i, "none")
    /\ UNCHANGED <<shared, faults>>

ByIndexDecrypt(c) ==
    /\ Idle(c)
    /\ \E i \in DOMAIN files, password \in Passwords : Open(c, i, password)
    /\ UNCHANGED <<shared, faults>>

ByName(c) ==
    /\ Idle(c)
    /\ \E n \in Names, password \in Passwords \cup {"none"} :
         \/ Named(n) # {} /\ Open(c, Max(Named(n)), password)
         \/ Named(n) = {} /\ Refuses(c, "err") /\ UNCHANGED data_start
    /\ UNCHANGED <<shared, faults>>

ByIndexRaw(c) ==
    /\ Idle(c)
    /\ \E i \in DOMAIN files :
         \/ /\ ~FindContent(disk, files[i]).ok
            /\ Refuses(c, "err") /\ UNCHANGED data_start
         \/ /\ FindContent(disk, files[i]).ok
            /\ StoreDataStart(i)
            /\ Lends(c, [Fresh(i, "plain", "none", ContentStart(files[i]),
                               files[i].compressed_size) EXCEPT !.stage = "raw"])
    /\ UNCHANGED <<shared, faults>>

\* The source fails while the header, or that of the cipher, is read.
OpenFails(c) ==
    /\ Idle(c)
    /\ faults < MaxFaults /\ faults' = faults + 1
    /\ \E i \in DOMAIN files :
         \/ UNCHANGED data_start
         \/ FindContent(disk, files[i]).ok /\ StoreDataStart(i)
    /\ Refuses(c, "err")
    /\ UNCHANGED shared

-----------------------------------------------------------------------------
(***************************************************************************)
(* One read of n cells through Take and the cipher: the possible outcomes. *)
(***************************************************************************)
\* What the source has for a read of n cells, and how much of it it delivers.
Available(z, n) == Min({n, z.limit, Max({0, Len(disk) - z.pos})})

Delivered(z, n) ==
    IF short_reads THEN Min({1, Available(z, n)})..Available(z, n)
    ELSE {Available(z, n)}

Taken(z, k) == [z EXCEPT !.pos = @ + k, !.limit = @ - k]

Outcome(z, out, ok) == [z |-> z, out |-> out, ok |-> ok]

PlainRead(z, n) ==
    {Outcome(Taken(z, k), Region(disk, z.pos, k), TRUE) : k \in Delivered(z, n)}

Garbage == <<"garbage">>

\* The keys depend on every byte decrypted before.
ZipCryptoDecrypted(z, cells) ==
    [i \in 1..Len(cells) |->
       IF /\ z.synced /\ z.password = "right"
          /\ \A j \in 1..i : cells[j][1] = "enc"
       THEN cells[i][2] ELSE Garbage]

\* read() decrypts the whole buffer, whatever was read into it.
KeysInStep(z, k, n) == z.synced /\ k = n

ZipCryptoRead(z, n) ==
    {LET cells == Region(disk, z.pos, k)
         out   == ZipCryptoDecrypted(z, cells)
     IN  Outcome([Taken(z, k) EXCEPT !.synced =
                    KeysInStep(z, k, n) /\ \A i \in 1..k : out[i] # Garbage],
                 out, TRUE)
     : k \in Delivered(z, n)}

\* A slip: each read starts its key stream anew.
RestartedKeyStream(z) == NewKeyStream

KeyStream(z) == z.ks

AesDecrypted(z, cells) ==
    LET key == CryptInPlace(KeyStream(z), Len(cells)).used
    IN  [i \in 1..Len(cells) |->
           IF z.password = "right" /\ cells[i][1] = "sealed" /\ cells[i][2] = key[i]
           THEN cells[i][3] ELSE Garbage]

\* A slip: the code is read but not compared.
AnyAuthCode(z) == z.limit > 0 /\ z.pos < Len(disk)

\* The authentication code is there and fits what was read.
AuthCodeMatches(z) ==
    /\ z.limit > 0 /\ z.pos < Len(disk)
    /\ At(disk, z.pos) = <<"mac", z.mac>> /\ z.password = "right"

AfterAuthCode(z) == Taken(z, Available(z, AUTH_CODE_LENGTH))

\* A slip: the buffer is not cut to the data that remains.
WholeBuffer(z, n) == n

BytesToRead(z, n) == Min({z.remaining, n})

\* The data is lost when the code that follows its last byte is not right.
AesRead(z, n) ==
    IF z.remaining = 0 THEN {Outcome(z, << >>, TRUE)} ELSE
    {LET cells == Region(disk, z.pos, k)
         read  == [Taken(z, k) EXCEPT
                     !.remaining = @ - k, !.mac = @ \o cells,
                     !.ks = CryptInPlace(KeyStream(z), k).ks]
     IN  IF read.remaining > 0 THEN Outcome(read, AesDecrypted(z, cells), TRUE)
         ELSE IF AuthCodeMatches(read)
           THEN Outcome(AfterAuthCode(read), AesDecrypted(z, cells), TRUE)
           ELSE Outcome(AfterAuthCode(read), << >>, FALSE)
     : k \in Delivered(z, BytesToRead(z, n))}

CryptoRead(z, n) ==
    IF z.crypto = "plain" THEN PlainRead(z, n)
    ELSE IF z.crypto = "zipcrypto" THEN ZipCryptoRead(z, n) ELSE AesRead(z, n)

\* The source fails: nothing was read, or with AES only the code was not.
CryptoReadFails(z, n) ==
    IF Min({z.limit, n}) = 0 THEN {}
    ELSE IF z.crypto = "plain" THEN {z}
    ELSE IF z.crypto = "zipcrypto" THEN {[z EXCEPT !.synced = FALSE]}
    ELSE IF z.remaining = 0 THEN {}
    ELSE {z} \cup {[o.z EXCEPT !.pos = z.pos + z.remaining,
                               !.limit = z.limit - z.remaining]
                   : o \in {o \in AesRead(z, n) : o.z.remaining = 0}}

-----------------------------------------------------------------------------
(***************************************************************************)
(* Crc32Reader: what a caller with a buffer of n cells is given when the   *)
(* reader below returned `out', or failed.                                 *)
(***************************************************************************)
InvalidCheck(z, n) == n > 0 /\ ~IsAe2(z) /\ z.hasher # Entry(z).crc32

Failed(z) == [z EXCEPT !.seen = "error", !.failed = TRUE]

Checked(z, n, out) ==
    IF out # << >> THEN [z EXCEPT !.hasher = @ \o out, !.seen = "data"]
    ELSE IF InvalidCheck(z, n) THEN Failed(z)
    ELSE IF n = 0 THEN z ELSE [z EXCEPT !.seen = "end"]

-----------------------------------------------------------------------------
(***************************************************************************)
(* Reading a file.  get_reader makes the decoder at the first read.        *)
(***************************************************************************)
Decoding(z) == [z EXCEPT !.stage = "decoding"]

IsDecoded(c) == IsOpen(c) /\ file[c].stage \in {"fresh", "decoding"}

ReadStored(c) ==
    /\ IsDecoded(c) /\ Entry(file[c]).method = "stored"
    /\ \E n \in 0..MaxBuffer : \E o \in CryptoRead(Decoding(file[c]), n) :
         SetFile(c, IF o.ok THEN Checked(o.z, n, o.out) ELSE Failed(o.z))
    /\ UNCHANGED <<shared, data_start, result, faults>>

HasDecoder(c) == IsDecoded(c) /\ Entry(file[c]).method \in Decoders

AtMarker(z) == DecoderEnd(Entry(z), z.fed) # 0

\* Within a read() the decoder fills its buffer, any number of times until
\* there is no more to get.  An error is passed on at once.
DecoderFills(c) ==
    /\ HasDecoder(c) /\ ~AtMarker(file[c]) /\ ~file[c].eof
    /\ \E o \in CryptoRead(Decoding(file[c]), DecoderBuffer) :
         SetFile(c, IF o.ok THEN [o.z EXCEPT !.fed = @ \o o.out,
                                             !.eof = o.out = << >>]
                            ELSE Failed(o.z))
    /\ UNCHANGED <<shared, data_start, result, faults>>

\* What the decoder has made of its input and not passed on.
Ready(z) ==
    LET out == Decoded(Entry(z), z.fed)
    IN  SubSeq(out, Len(z.hasher) + 1, Len(out))

Damaged(z) == Corrupt(Entry(z), z.fed) \/ (z.eof /\ CutOff(Entry(z), z.fed))

DecoderReturns(c) ==
    LET z == [file[c] EXCEPT !.eof = FALSE] IN
    /\ HasDecoder(c) /\ file[c].stage = "decoding"
    /\ \/ \E k \in 1..Min({Len(Ready(z)), MaxBuffer}) :
            SetFile(c, Checked(z, k, SubSeq(Ready(z), 1, k)))
       \/ /\ Ready(z) = << >> /\ Damaged(file[c])
          /\ SetFile(c, Failed(z))
       \/ /\ Ready(z) = << >> /\ ~Damaged(file[c])
          /\ file[c].eof \/ AtMarker(z)
          /\ SetFile(c, Checked(z, 1, << >>))
    /\ UNCHANGED <<shared, data_start, result, faults>>

\* "Compression method not supported"
MakeReaderPanics(c) ==
    /\ IsOpen(c) /\ file[c].stage = "fresh"
    /\ Entry(file[c]).method \notin Decoders \cup {"stored"}
    /\ SetFile(c, NoFile) /\ Returns(c, "panic")
    /\ UNCHANGED <<shared, data_start, faults>>

ReadFails(c) ==
    /\ IsDecoded(c) /\ Entry(file[c]).method \in Decoders \cup {"stored"}
    /\ faults < MaxFaults /\ faults' = faults + 1
    /\ \E n \in 1..MaxBuffer \cup {DecoderBuffer} :
         /\ Entry(file[c]).method \in Decoders =>
              n = DecoderBuffer /\ ~AtMarker(file[c])
         /\ \E z \in CryptoReadFails(Decoding(file[c]), n) :
              SetFile(c, Failed([z EXCEPT !.eof = FALSE]))
    /\ UNCHANGED <<shared, data_start, result>>

\* by_index_raw, and get_raw_reader on a file that was not read from: what is
\* left of the data below the cipher.  (A read that fails changes nothing.)
ReadRaw(c) ==
    /\ IsOpen(c) /\ file[c].stage \in {"fresh", "raw"}
    /\ \E n \in 0..MaxBuffer, raw \in {[file[c] EXCEPT !.stage = "raw"]} :
         \E o \in PlainRead(raw, n) :
           SetFile(c, [o.z EXCEPT !.raw = @ \o o.out,
                         !.seen = IF n > 0 /\ o.out = << >> THEN "end" ELSE @])
    /\ UNCHANGED <<shared, data_start, result, faults>>

\* The data of an archive on disk needs no draining.
DropFile(c) ==
    /\ IsOpen(c)
    /\ SetFile(c, NoFile)
    /\ UNCHANGED <<shared, data_start, result, faults>>

-----------------------------------------------------------------------------
Init ==
    /\ disk \in Disks /\ short_reads \in ShortReads
    /\ OpenArchive(disk).ok /\ AesRecordsValid(Directory(disk))
    /\ files = Directory(disk)
    /\ data_start = [i \in DOMAIN files |-> 0]
    /\ file = [c \in Clones |-> NoFile]
    /\ result = [c \in Clones |-> "none"]
    /\ faults = 0

Next ==
    \E c \in Clones :
        \/ ByIndex(c) \/ ByIndexDecrypt(c) \/ ByName(c) \/ ByIndexRaw(c)
        \/ OpenFails(c)
        \/ ReadStored(c) \/ DecoderFills(c) \/ DecoderReturns(c)
        \/ MakeReaderPanics(c) \/ ReadFails(c) \/ ReadRaw(c) \/ DropFile(c)

Spec == Init /\ [][Next]_vars

-----------------------------------------------------------------------------
(***************************************************************************)
(* Properties.                                                             *)
(***************************************************************************)
\* The fields have their types; what is read stays within the entry, and what
\* AesReader takes for data within that.
TypeOK ==
    /\ data_start \in [DOMAIN files -> Nat]
    /\ faults \in 0..MaxFaults
    /\ \A c \in Clones :
         /\ result[c] \in {"none", "ok", "err", "invalid_password", "panic"}
         /\ file[c].index \in {0} \cup DOMAIN files
         /\ file[c].stage \in {"fresh", "decoding", "raw"}
         /\ file[c].seen \in {"nothing", "data", "end", "error"}
         /\ file[c].limit \in Nat /\ file[c].remaining \in Nat
         /\ IsOpen(c) => file[c].pos + file[c].limit =
              ContentStart(Entry(file[c])) + Entry(file[c]).compressed_size

\* What an entry contains, taken as a whole, without buffers or key streams:
\* what its data decrypts to with the right password ...
Clear(i) ==
    LET f   == files[i]
        raw == Content(i)
        aes == SubSeq(raw, 3, Min({Len(raw), 2 + DataLength(f)}))
    IN  IF ~f.encrypted THEN raw
        ELSE IF f.aes = "none"
          THEN [j \in 1..Len(raw) - 1 |->
                  IF \A k \in 2..j + 1 : raw[k][1] = "enc"
                  THEN raw[j + 1][2] ELSE Garbage]
          ELSE [j \in 1..Len(aes) |->
                  IF aes[j][1] = "sealed" /\ aes[j][2] = KeyAt(j)
                  THEN aes[j][3] ELSE Garbage]

\* ... and that decompresses to.
Plain(i) == Decoded(files[i], Clear(i))

\* With the right password, a caller is given the beginning of what the entry
\* contains: however the reads are cut, whichever of them fail and are tried
\* again, whatever the other clones do.  ZipCrypto needs a source that neither
\* fails nor delivers less than it is asked for.
ReadsAreFaithful ==
    \A c \in Clones :
        LET z == file[c] IN
        /\ IsOpen(c) /\ z.password \in {"right", "none"}
        /\ z.crypto = "zipcrypto" => ~short_reads /\ ~z.failed
        => IsPrefix(z.hasher, Plain(z.index))

\* The data ends with its end: its authentication code has been reached, or
\* there is none to reach, because the source or the decoder ended before.
Authenticated(z) == ~z.failed /\ z.remaining = 0 /\ DataLength(Entry(z)) > 0

\* A caller is told of the end of a file only behind a check of all it was
\* given: the checksum, whatever failed before and with whatever password; and
\* with AE-2, which has none, the authentication code, if no read failed.
EndIsVerified ==
    \A c \in Clones :
        LET z == file[c] IN
        IsOpen(c) /\ z.stage = "decoding" /\ z.seen = "end" =>
            /\ ~IsAe2(z) => z.hasher = Entry(z).crc32
            /\ IsAe2(z) /\ Authenticated(z) =>
                 z.password = "right" /\ z.hasher = Plain(z.index)

\* An entry that is as its writer left it.
Sound(i) ==
    LET f == files[i]
        raw == Content(i)
        clear == Clear(i)
    IN  /\ FindContent(disk, f).ok /\ f.method \in Decoders \cup {"stored"}
        /\ f.aes # "none" => f.encrypted
        /\ Len(raw) = f.compressed_size
        /\ \A j \in DOMAIN clear : clear[j] # Garbage
        /\ f.method # "stored" =>
             clear # << >> /\ DecoderEnd(f, clear) = Len(clear)
        /\ ~Corrupt(f, clear)
        /\ f.aes # "ae2" => Plain(i) = f.crc32
        /\ f.encrypted /\ f.aes = "none" => CheckPasses(i, "right")
        /\ f.aes # "none" =>
             /\ f.compressed_size > AES_OVERHEAD
             /\ AesCheckPasses(i, "right")
             /\ Last(raw) = <<"mac", SubSeq(raw, 3, Len(raw) - 1)>>

\* Nothing but a failing source keeps a caller from a sound entry: with the
\* right password no read returns an error, whatever its neighbours are like,
\* however the reads are cut and whatever the source delivers at a time.
SoundEntriesRead ==
    \A c \in Clones :
        LET z == file[c] IN
        /\ IsOpen(c) /\ z.password \in {"right", "none"} /\ faults = 0
        /\ Sound(z.index)
        => z.seen # "error"

\* The same where ZipCrypto's source delivers all it is asked for.
SoundEntriesReadWhole ==
    \A c \in Clones :
        LET z == file[c] IN
        /\ IsOpen(c) /\ z.password \in {"right", "none"} /\ faults = 0
        /\ Sound(z.index)
        /\ z.crypto = "zipcrypto" => ~short_reads
        => z.seen # "error"

\* What raw_copy_file copies of a file that was opened without a password and
\* not read from, is the data of the entry as it is in the archive, and all of
\* it when it ends.
RawIsVerbatim ==
    \A c \in Clones :
        LET z == file[c] IN
        IsOpen(c) /\ z.stage = "raw" /\ z.password = "none" =>
            /\ IsPrefix(z.raw, FindContent(disk, Entry(z)).data)
            /\ z.seen = "end" => z.raw = FindContent(disk, Entry(z)).data

\* The AES entries no writer makes: not marked as encrypted, shorter than
\* their salt and codes, or compressed by "AES" once more.
Malformed(f) ==
    /\ f.aes # "none"
    /\ ~f.encrypted \/ f.compressed_size < AES_OVERHEAD \/ f.method = "aes"

\* No call panics: the unwrap of by_index (574) and by_name (533) never finds
\* an InvalidPassword, make_reader (290) never an unsupported method and
\* AesReader::new (aes.rs 49) never too few bytes, but for malformed entries.
NoPanic ==
    (\A i \in DOMAIN files : ~Malformed(files[i])) =>
        \A c \in Clones : result[c] # "panic"

\* data_start(), which all clones store and read, is 0 or where the entry's
\* data begins, and not 0 while any clone has the file open.
DataStartKnown ==
    \A i \in DOMAIN files :
        LET size == files[i].compressed_size IN
        \/ data_start[i] = 0 /\ \A c \in Clones : file[c].index # i
        \/ Region(disk, data_start[i], size) = FindContent(disk, files[i]).data
=============================================================================

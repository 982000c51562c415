----------------------------- MODULE ZipStream -----------------------------
(***************************************************************************)
(* Reading an archive from a stream that cannot seek: ZipStreamReader's    *)
(* visit (src/read/stream.rs), read_zipfile_from_stream and the Drop of    *)
(* the ZipFile it lends to the visitor (src/read.rs).                      *)
(*                                                                         *)
(* The reader, the visitor and the ZipFile share one thing, the position   *)
(* of the stream.  The visitor reads as much of a file as it likes, in     *)
(* pieces of its choice, through a checksum and perhaps a decoder that     *)
(* reads ahead; when it returns, or panics, the drop of the file must      *)
(* leave the stream at the next header.  The stream may deliver less than  *)
(* it is asked for, end early, or fail.                                    *)
(***************************************************************************)
EXTENDS Decoder

CONSTANTS
    Streams,        \* what the stream may contain
    MaxBuffer,      \* bound: cells a visitor asks for at once
    MaxFaults       \* bound: failures of the stream

ASSUME StreamBoundsAssumption == MaxBuffer \in Nat /\ MaxFaults \in Nat

\* The numbers of a stream are unsigned.
IsCell(cell) ==
    /\ cell[1] = "sizes" => cell[2] \in Nat /\ cell[3] \in Nat
    /\ cell[1] = "extralen" => cell[2] \in Nat
    /\ cell[1] = "zip64" => cell[2] \in Seq(Nat)
    /\ cell[1] = "central" =>
         cell[2].extra_len \in Nat /\ cell[2].comment_len \in Nat
    /\ cell[1] = "end" => \A i \in 2..5 : cell[i] \in Nat
    /\ cell[1] \in {"end64", "loc64"} => cell[2] \in Nat

ASSUME StreamsAssumption ==
    \A s \in Streams : IsSeq(s) /\ \A p \in 1..Len(s) : IsCell(s[p])

VARIABLES
    stream, pos,    \* the content of the stream and how much was consumed
    signature_read, \* the signature of the cell at pos was consumed
    phase,          \* what visit is doing
    file,           \* the entry lent to the visitor
    hasher,         \* what Crc32Reader has passed on of it
    seen,           \* what the visitor's last read returned
    verdict,        \* how visit_file ended
    visited,        \* history: the files the visitor was given
    metadata,       \* history: calls of visit_additional_metadata
    faults

streamVars == <<stream, pos, signature_read>>
fileVars   == <<file, hasher, seen, verdict>>
historyVars == <<visited, metadata>>
vars == <<streamVars, phase, fileVars, historyVars, faults>>

Ended == {"ok", "err", "panic", "abort"}

-----------------------------------------------------------------------------
(***************************************************************************)
(* read_zipfile_from_stream.                                               *)
(***************************************************************************)
\* The fixed part and the extra field of the local header at p are there.
HeaderWhole(p) ==
    /\ At(stream, p)[1] = "local"
    /\ At(stream, p + CRC32_OFFSET)[1] = "crc"
    /\ At(stream, p + SIZES_OFFSET)[1] = "sizes"
    /\ At(stream, p + EXTRA_LEN_OFFSET)[1] = "extralen"
    /\ p + HEADER_LEN + At(stream, p + EXTRA_LEN_OFFSET)[2] <= Len(stream)

DataStart(p) == p + HEADER_LEN + At(stream, p + EXTRA_LEN_OFFSET)[2]

FixedPart(p) ==
    LET local == At(stream, p)
        sizes == At(stream, p + SIZES_OFFSET)
    IN  [name |-> local[2], method |-> local[3], encrypted |-> local[4],
         using_data_descriptor |-> local[5],
         crc32 |-> At(stream, p + CRC32_OFFSET)[2],
         compressed_size |-> sizes[2], uncompressed_size |-> sizes[3],
         header_start |-> 0, large_file |-> FALSE, data_start |-> DataStart(p)]

\* A slip: the sizes of a large file are not looked up.
FixedPartOnly(p) == FixedPart(p)

LocalExtra(p) ==
    Region(stream, p + HEADER_LEN, At(stream, p + EXTRA_LEN_OFFSET)[2])

\* The 0x9901 arm of parse_extra_field, over records <<"aes", version, method>>.
\* The method of the last one is the method of the file, encrypted or not.
\* (That a ZIP64 record too short for its markers takes an AES record behind it
\* for numbers is left out.)
AesMethod(extra, method) ==
    LET i == SelectLastInSeq(extra, LAMBDA c : c[1] = "aes")
    IN  IF i = 0 THEN method ELSE extra[i][3]

AesRecordsValid(extra) ==
    \A i \in 1..Len(extra) : extra[i][1] = "aes" => extra[i][2] \in {"ae1", "ae2"}

\* The entry a local header describes.
LocalHeaderToZipFile(p) ==
    [ParseExtraField(FixedPart(p), LocalExtra(p))
        EXCEPT !.method = AesMethod(LocalExtra(p), @)]

\* A header whose AES records are damaged, "Encrypted files are not supported",
\* "The file length is not available in the local header" and "Compression
\* method not supported" are errors.
Accepted(p) ==
    LET f == LocalHeaderToZipFile(p) IN
    /\ AesRecordsValid(LocalExtra(p))
    /\ ~f.encrypted /\ ~f.using_data_descriptor
    /\ f.method \in Decoders \cup {"stored", "aes"}

LendFile ==
    /\ phase = "header" /\ HeaderWhole(pos) /\ Accepted(pos)
    /\ LocalHeaderToZipFile(pos).method # "aes"
    /\ file' = LocalHeaderToZipFile(pos)
    /\ pos' = DataStart(pos)
    /\ phase' = "visit" /\ hasher' = << >> /\ seen' = "nothing"
    /\ UNCHANGED <<stream, signature_read, verdict, historyVars, faults>>

\* make_reader panics over a file that is not encrypted and yet compressed by
\* "AES" (read.rs 290).
NoReader ==
    /\ phase = "header" /\ HeaderWhole(pos) /\ Accepted(pos)
    /\ LocalHeaderToZipFile(pos).method = "aes"
    /\ phase' = "panic"
    /\ UNCHANGED <<streamVars, fileVars, historyVars, faults>>

\* A file that is not accepted, a wrong signature, a stream that ends inside
\* the header.
RefuseFile ==
    /\ phase = "header" /\ At(stream, pos)[1] # "central"
    /\ HeaderWhole(pos) => ~Accepted(pos)
    /\ phase' = "err"
    /\ UNCHANGED <<streamVars, fileVars, historyVars, faults>>

\* Ok(None): the signature of the first central header is consumed.
ReachDirectory ==
    /\ phase = "header" /\ At(stream, pos)[1] = "central"
    /\ signature_read' = TRUE
    /\ phase' = "metadata"
    /\ UNCHANGED <<stream, pos, fileVars, historyVars, faults>>

HeaderReadFails ==
    /\ phase \in {"header", "metadata"}
    /\ faults < MaxFaults /\ faults' = faults + 1
    /\ phase' = "err"
    /\ UNCHANGED <<streamVars, fileVars, historyVars>>

-----------------------------------------------------------------------------
(***************************************************************************)
(* The visitor has the file.                                               *)
(***************************************************************************)
\* A slip: the data is not limited to the size of the entry.
ToEndOfStream(f) == Len(stream) - pos

\* What the io::Take around the stream still lets through.
Available(f) ==
    Min({f.data_start + f.compressed_size, Len(stream)}) - pos

\* A slip: the checksum is not compared.
NeverInvalid == FALSE

\* Crc32Reader compares before it reads: data still to come is no harm.
InvalidCheck == hasher # file.crc32

\* read() takes m cells, has `new' to pass on, or finds the data damaged or at
\* its end.
ReadOutcome(m, new, damaged, end) ==
    \/ \E k \in 1..Min({Len(new), MaxBuffer}) :
         /\ file.method = "stored" => k = m
         /\ hasher' = hasher \o SubSeq(new, 1, k)
         /\ seen' = "data"
    \/ /\ new = << >> /\ damaged
       /\ seen' = "error" /\ UNCHANGED hasher
    \/ /\ new = << >> /\ ~damaged /\ end
       /\ seen' = IF InvalidCheck THEN "error" ELSE "end"
       /\ UNCHANGED hasher

\* read() of a non-empty buffer.  A decoder reads as far ahead as it likes;
\* without one every cell taken is passed on.
VisitorReads ==
    /\ phase = "visit"
    /\ \E m \in 0..Available(file) :
         LET raw == Region(stream, file.data_start, pos + m - file.data_start)
             out == Decoded(file, raw)
             new == SubSeq(out, Len(hasher) + 1, Len(out))
             damaged == \/ Corrupt(file, raw)
                        \/ m = Available(file) /\ CutOff(file, raw)
             end == \/ m = Available(file)
                    \/ file.method # "stored" /\ DecoderEnd(file, raw) # 0
         IN  pos' = pos + m /\ ReadOutcome(m, new, damaged, end)
    /\ UNCHANGED <<stream, signature_read, phase, file, verdict, historyVars,
                   faults>>

\* The stream fails; a decoder may have filled its buffer before.
VisitorReadFails ==
    /\ phase = "visit"
    /\ faults < MaxFaults /\ faults' = faults + 1
    /\ \E m \in 0..Available(file) :
         /\ m > 0 => file.method # "stored"
         /\ pos' = pos + m
    /\ seen' = "error"
    /\ UNCHANGED <<stream, signature_read, phase, file, hasher, verdict,
                   historyVars>>

VisitorReturns ==
    /\ phase = "visit"
    /\ verdict' \in {"ok", "err", "panic"}
    /\ visited' = Append(visited, [name |-> file.name, crc32 |-> file.crc32,
                                   data |-> hasher, seen |-> seen])
    /\ phase' = "drop"
    /\ UNCHANGED <<streamVars, file, hasher, seen, metadata, faults>>

-----------------------------------------------------------------------------
(***************************************************************************)
(* The drop of the file consumes what the visitor left, below the checksum *)
(* and the decoder.                                                        *)
(***************************************************************************)
\* Slips: a drop that only looks at the size of the entry, and one that
\* leaves what the visitor did not read.
DrainedBySize == pos = file.data_start + file.compressed_size

DrainedAtOnce == TRUE

\* read() returned Ok(0).
Drained == Available(file) = 0

Drain ==
    /\ phase = "drop" /\ ~Drained
    /\ \E k \in 1..Available(file) : pos' = pos + k
    /\ UNCHANGED <<stream, signature_read, phase, fileVars, historyVars, faults>>

DropFile ==
    /\ phase = "drop" /\ Drained
    /\ phase' = IF verdict = "ok" THEN "header" ELSE verdict
    /\ UNCHANGED <<streamVars, fileVars, historyVars, faults>>

\* "Could not consume all of the output of the current ZipFile".
DrainPanics ==
    /\ phase = "drop"
    /\ faults < MaxFaults /\ faults' = faults + 1
    /\ phase' = IF verdict = "panic" THEN "abort" ELSE "panic"
    /\ UNCHANGED <<streamVars, fileVars, historyVars>>

-----------------------------------------------------------------------------
\* parse_central_directory, and the visitor's answer to what it found.  The
\* signature is looked for where the stream is, which need not be the start
\* of a header.
ParseCentralDirectory ==
    LET found == ~signature_read /\ CentralHeaderOk(stream, pos) IN
    /\ phase = "metadata"
    /\ IF found
       THEN /\ metadata' = Append(metadata, At(stream, pos)[2].name)
            /\ pos' = CentralHeaderEnd(stream, pos)
            /\ phase' \in {"metadata", "err"}
       ELSE /\ phase' = IF pos = Len(stream) THEN "err" ELSE "ok"
            /\ UNCHANGED <<pos, metadata>>
    /\ UNCHANGED <<stream, signature_read, fileVars, visited, faults>>

-----------------------------------------------------------------------------
NoFile == [name |-> "none", method |-> "stored", encrypted |-> FALSE,
           using_data_descriptor |-> FALSE, crc32 |-> << >>,
           compressed_size |-> 0, uncompressed_size |-> 0, header_start |-> 0,
           large_file |-> FALSE, data_start |-> 0]

Init ==
    /\ stream \in Streams /\ pos = 0 /\ signature_read = FALSE
    /\ phase = "header" /\ file = NoFile /\ hasher = << >>
    /\ seen = "nothing" /\ verdict = "ok"
    /\ visited = << >> /\ metadata = << >> /\ faults = 0

Next ==
    \/ LendFile \/ NoReader \/ RefuseFile \/ ReachDirectory \/ HeaderReadFails
    \/ VisitorReads \/ VisitorReadFails \/ VisitorReturns
    \/ Drain \/ DropFile \/ DrainPanics
    \/ ParseCentralDirectory

\* visit is a loop of one thread, which the scheduler runs; the visitor is
\* assumed to return once a file gives it nothing new.
Spec == Init /\ [][Next]_vars /\ WF_vars(Next)

-----------------------------------------------------------------------------
(***************************************************************************)
(* Properties.                                                             *)
(***************************************************************************)
\* The control state is well formed, and nothing of the stream is consumed
\* past its end or past the entry lent to the visitor.
TypeOK ==
    /\ phase \in Ended \cup {"header", "visit", "drop", "metadata"}
    /\ seen \in {"nothing", "data", "end", "error"}
    /\ verdict \in {"ok", "err", "panic"}
    /\ signature_read \in BOOLEAN
    /\ pos \in 0..Len(stream) /\ faults \in 0..MaxFaults
    /\ phase \in {"visit", "drop"} =>
         pos \in file.data_start..file.data_start + file.compressed_size

\* Where the k-th local header begins, going by the headers alone.
EntryStarts ==
    LET start[k \in 1..Len(stream) + 1] ==
          IF k = 1 THEN 0
          ELSE LET p == start[k - 1] IN
               IF ~HeaderWhole(p) THEN p
               ELSE Min({DataStart(p) + LocalHeaderToZipFile(p).compressed_size,
                         Len(stream)})
    IN  start

\* "The Drop implementation of ZipFile ensures that the reader will be
\* correctly positioned after the structure is done" (read.rs 1027): however
\* much of a file was read, and however far ahead, the next one is found.
Positioned == phase = "header" => pos = EntryStarts[Len(visited) + 1]

\* A visitor that was told a file is at its end has read what its checksum
\* says, even when reads failed and were tried again.
EndIsVerified ==
    \A i \in 1..Len(visited) :
        visited[i].seen = "end" => visited[i].data = visited[i].crc32

\* A visit that succeeds has shown the files of the central directory, in its
\* order, and the bytes that ZipArchive reads.
AgreesWithDirectory ==
    LET fs == OpenArchive(stream).files IN
    phase = "ok" /\ OpenArchive(stream).ok =>
        /\ Len(visited) = Len(fs)
        /\ \A i \in 1..Len(fs) :
             /\ visited[i].name = fs[i].name
             /\ visited[i].seen = "end" /\ ReadEntry(stream, fs[i]).ok =>
                  visited[i].data = ReadEntry(stream, fs[i]).data

\* Every visit comes to an end, on every stream: truncated, corrupt, failing.
Terminates == <>(phase \in Ended)

\* "This function is guranteed to be called after all `visit_file`s"
\* (stream.rs 119): a visit that succeeds has shown the metadata of each file.
MetadataVisited ==
    phase = "ok" => [i \in 1..Len(visited) |-> visited[i].name] = metadata
=============================================================================

----------------------------- MODULE ZipFormat -----------------------------
(***************************************************************************)
(* The archive as the crate lays it out and reads it back.                 *)
(*                                                                         *)
(* A disk (the Write + Seek sink, or the Read + Seek source) is a sequence *)
(* of cells.  A cell is a tuple whose first element is its tag: one cell   *)
(* stands for one field or group of fields that the code writes in one     *)
(* place, so that overwriting, overlapping, truncated and stale structures *)
(* can happen in the model where they can happen in the bytes.             *)
(*                                                                         *)
(*   local header    <<"local", name, method, encrypted, data descriptor>> *)
(*                   <<"crc", crc>>                                        *)
(*                   <<"sizes", c, u>>  <<"extralen", n>>                  *)
(*                   <<"zip64", <<u, c>>>>             only for large files*)
(*   extra field     <<"extra", kind>> or <<"zip64", payload>>             *)
(*   entry data      <<"byte", b>>, <<"z", method, bytes>>, <<"zend", m>>, *)
(*                   <<"crypthdr", check>>, <<"enc", cell>>                *)
(*   central header  <<"central", fields>>, its extra field, its comment   *)
(*   end records     <<"end64", ...>>, <<"loc64", pos>>, <<"end", ...>>    *)
(*                   and the archive comment, <<"comment", c>>             *)
(*                                                                         *)
(* Positions are file offsets, counted from 0 like the code's.             *)
(***************************************************************************)
EXTENDS Zip64Fields, Vectors, SequencesExt

CONSTANT ZIP64_ENTRY_THR    \* u16::MAX in the code: the largest 16-bit value

ASSUME EntryThrAssumption == ZIP64_ENTRY_THR \in Nat

-----------------------------------------------------------------------------
(***************************************************************************)
(* Offsets, in cells, of the parts of a local header that are patched      *)
(* after it is written (14, 18, 28 and 30 + name length in the bytes).     *)
(***************************************************************************)
CRC32_OFFSET     == 1
SIZES_OFFSET     == 2
EXTRA_LEN_OFFSET == 3
ZIP64_OFFSET     == 4
HEADER_LEN       == 4

\* Seeking to p and writing cells there: what lies beyond survives, and a
\* gap after the end of the file is filled.
Holes(n) == IF n > 0 THEN [i \in 1..n |-> <<"hole">>] ELSE << >>

WriteAt(disk, p, cells) ==
    SubSeq(disk, 1, Min({p, Len(disk)})) \o Holes(p - Len(disk))
        \o cells \o SubSeq(disk, p + Len(cells) + 1, Len(disk))

\* The cell at file offset p, or a hole at and beyond the end of the file.
At(disk, p) == IF p >= 0 /\ p < Len(disk) THEN disk[p + 1] ELSE <<"hole">>

\* At most n cells from file offset p: io::Take over a seeked reader.
Region(disk, p, n) == SubSeq(disk, p + 1, Min({p + n, Len(disk)}))

-----------------------------------------------------------------------------
(***************************************************************************)
(* What the writer emits.                                                  *)
(***************************************************************************)
ZeroOrOne(b) == IF b THEN 1 ELSE 0

\* A slip: only the ZIP64 record is counted.
LocalExtraLenZip64Only(f) == ZeroOrOne(f.large_file)

\* `20 (if large) + extra_field.len() as u16', kept in sixteen bits
LocalExtraLen(f) ==
    (ZeroOrOne(f.large_file) + Len(f.extra_field)) % (ZIP64_ENTRY_THR + 1)

LocalSizes(f) == <<"sizes", f.compressed_size, f.uncompressed_size>>

LocalZip64(f) == <<"zip64", <<f.uncompressed_size, f.compressed_size>>>>

\* The data descriptor flag is never set: the sizes are patched instead.
LocalHeader(f) ==
    << <<"local", f.name, f.method, f.encrypted, FALSE>>,
       <<"crc", f.crc32>>,
       IF f.large_file THEN <<"sizes", ZIP64_BYTES_THR, ZIP64_BYTES_THR>>
                       ELSE LocalSizes(f),
       <<"extralen", LocalExtraLen(f)>> >>
    \o (IF f.large_file THEN <<LocalZip64(f)>> ELSE << >>)

CentralExtra(f) ==
    LET payload == Zip64Payload(f.uncompressed_size, f.compressed_size,
                                f.header_start)
    IN  (IF payload = << >> THEN << >> ELSE << <<"zip64", payload>> >>)
        \o f.extra_field

\* The file comment is never written back and its length is always 0;
\* neither is the data descriptor flag.
CentralHeader(f) ==
    << <<"central",
         [name |-> f.name, encrypted |-> f.encrypted, method |-> f.method,
          using_data_descriptor |-> FALSE, crc32 |-> f.crc32,
          compressed_size |-> Clip32(f.compressed_size),
          uncompressed_size |-> Clip32(f.uncompressed_size),
          offset |-> Clip32(f.header_start),
          extra_len |-> Len(CentralExtra(f)) % (ZIP64_ENTRY_THR + 1),
          comment_len |-> 0]>> >>
    \o CentralExtra(f)

\* The records after a central directory of `size' cells that starts at
\* `start': the ZIP64 pair when a 16- or 32-bit field cannot hold its value.
\* The length of the comment is cut to sixteen bits, the comment is not.
EndRecords(nfiles, start, size, comment) ==
    (IF nfiles > ZIP64_ENTRY_THR \/ Max({size, start}) > ZIP64_BYTES_THR
       THEN << <<"end64", nfiles, size, start>>, <<"loc64", start + size>> >>
       ELSE << >>)
    \o << <<"end", Min({nfiles, ZIP64_ENTRY_THR}), Clip32(size),
            Clip32(start), Len(comment) % (ZIP64_ENTRY_THR + 1)>> >>
    \o comment

-----------------------------------------------------------------------------
(***************************************************************************)
(* What a reader makes of a disk.                                          *)
(***************************************************************************)
\* File offsets at which CentralDirectoryEnd::find_and_parse finds an end
\* record.  It searches backwards, over no more than the longest comment, and
\* takes the last signature.
EndOffsets(disk) ==
    {p \in Max({0, Len(disk) - 1 - ZIP64_ENTRY_THR})..Len(disk) - 1 :
        disk[p + 1][1] = "end"}

\* Zip64CentralDirectoryEnd::find_and_parse: the first record at or after
\* `nominal' that leaves room for the locator and the end record.
End64Offsets(disk, nominal, bound) ==
    {p \in nominal..bound : At(disk, p)[1] = "end64"}

NoDirectory == [ok |-> FALSE, archive_offset |-> 0, start |-> 0, nfiles |-> 0,
                comment |-> << >>]

\* get_directory_counts.  The locator is looked for relative to the END of
\* the file, not to the end record that was found.
GetDirectoryCounts(disk) ==
    IF EndOffsets(disk) = {} THEN NoDirectory ELSE
    LET cde     == Max(EndOffsets(disk))
        footer  == At(disk, cde)
        comment == Region(disk, cde + 1, footer[5])
        locator == At(disk, Len(disk) - 2 - footer[5])
        shift   == cde - footer[3] - footer[4]
        found   == End64Offsets(disk, locator[2], cde - 2)
        end64   == Min(found)
        Dir(offset, start, n) ==
            [ok |-> TRUE, archive_offset |-> offset, start |-> start,
             nfiles |-> n, comment |-> comment]
    IN  IF Len(comment) < footer[5] THEN NoDirectory
        ELSE IF locator[1] # "loc64"
          THEN IF shift < 0 THEN NoDirectory
               ELSE Dir(shift, footer[4] + shift, footer[2])
          ELSE IF found = {} THEN NoDirectory
               ELSE Dir(end64 - locator[2],
                        At(disk, end64)[4] + (end64 - locator[2]),
                        At(disk, end64)[2])

\* What a cell of an extra field reads as when a ZIP64 record in front of it is
\* too short for the markers: one number (the cell stands for eight bytes),
\* which is not the marker again.
AsNumbers(n) == [i \in 1..n |-> ZIP64_BYTES_THR + 1]

\* One turn of the loop of parse_extra_field, at the i-th cell.  Cells that a
\* ZIP64 record took for its own numbers are behind the cursor: `skip' of them
\* are still to come.  Only a ZIP64 record changes the file, and only when a
\* field is a marker.  (A read that fails ends the loop; by then no cell is
\* left.)
ParseExtraRecord(st, extra, i) ==
    LET f == st.file
        z == ParseZip64(f.uncompressed_size, f.compressed_size,
                        f.header_start, extra[i][2], AsNumbers(Len(extra) - i))
        marked == ZIP64_BYTES_THR \in
                    {f.uncompressed_size, f.compressed_size, f.header_start}
    IN  IF st.skip > 0 THEN [st EXCEPT !.skip = @ - 1]
        ELSE IF extra[i][1] # "zip64" \/ ~marked THEN st
        ELSE [skip |-> z.beyond,
              file |-> [f EXCEPT
                !.uncompressed_size = z.uncompressed_size,
                !.compressed_size = z.compressed_size,
                !.header_start = z.header_start,
                !.large_file = \/ f.large_file
                               \/ f.uncompressed_size = ZIP64_BYTES_THR
                               \/ f.compressed_size = ZIP64_BYTES_THR]]

ParseExtraField(f, extra) ==
    FoldLeftDomain(LAMBDA st, i : ParseExtraRecord(st, extra, i),
                   [file |-> f, skip |-> 0], extra).file

\* central_header_to_zip_file at file offset p, and the offset after it.
CentralHeaderEnd(disk, p) ==
    p + 1 + At(disk, p)[2].extra_len + At(disk, p)[2].comment_len

CentralHeaderOk(disk, p) ==
    At(disk, p)[1] = "central" /\ CentralHeaderEnd(disk, p) <= Len(disk)

CentralHeaderToZipFile(disk, p, archive_offset) ==
    LET h     == At(disk, p)[2]
        extra == Region(disk, p + 1, h.extra_len)
        raw   == [name |-> h.name, encrypted |-> h.encrypted,
                  method |-> h.method, level |-> "none",
                  using_data_descriptor |-> h.using_data_descriptor,
                  crc32 |-> h.crc32, compressed_size |-> h.compressed_size,
                  uncompressed_size |-> h.uncompressed_size,
                  header_start |-> h.offset, data_start |-> 0,
                  extra_field |-> extra, large_file |-> FALSE]
        f     == ParseExtraField(raw, extra)
    IN  [f EXCEPT !.header_start = @ + archive_offset]

NoArchive == [ok |-> FALSE, files |-> << >>, comment |-> << >>, start |-> 0]

\* ZipArchive::new.
OpenArchive(disk) ==
    LET dir == GetDirectoryCounts(disk)
        \* starts[k]: where the k-th header begins, -1 once one was bad
        starts[k \in 1..dir.nfiles + 1] ==
            IF k = 1 THEN dir.start
            ELSE IF starts[k - 1] >= 0 /\ CentralHeaderOk(disk, starts[k - 1])
              THEN CentralHeaderEnd(disk, starts[k - 1]) ELSE -1
    IN  IF ~dir.ok \/ starts[dir.nfiles + 1] < 0 THEN NoArchive
        ELSE [ok |-> TRUE, comment |-> dir.comment, start |-> dir.start,
              files |-> [k \in 1..dir.nfiles |->
                  CentralHeaderToZipFile(disk, starts[k], dir.archive_offset)]]

-----------------------------------------------------------------------------
(***************************************************************************)
(* Reading one entry with the right password: find_content, decryption,    *)
(* decompression and the checksum.                                         *)
(***************************************************************************)
NoContent == [ok |-> FALSE, data |-> << >>]

\* find_content: the local header's own extra length locates the data.
FindContent(disk, f) ==
    IF \/ At(disk, f.header_start)[1] # "local"
       \/ At(disk, f.header_start + EXTRA_LEN_OFFSET)[1] # "extralen"
    THEN NoContent
    ELSE [ok |-> TRUE,
          data |-> Region(disk,
              f.header_start + HEADER_LEN
                + At(disk, f.header_start + EXTRA_LEN_OFFSET)[2],
              f.compressed_size)]

\* ZipCryptoReader::validate: the last byte of the crypto header must match
\* the checksum, or the time of day of an entry with a data descriptor.
MsdosTime == << <<"time">> >>

Decrypt(f, raw) ==
    IF ~f.encrypted THEN [ok |-> TRUE, data |-> raw]
    ELSE IF /\ raw # << >>
            /\ raw[1] = <<"crypthdr", IF f.using_data_descriptor
                                       THEN MsdosTime ELSE f.crc32>>
            /\ \A i \in 2..Len(raw) : raw[i][1] = "enc"
    THEN [ok |-> TRUE, data |-> [i \in 1..Len(raw) - 1 |-> raw[i + 1][2]]]
    ELSE NoContent

\* The decoder stops at its own end marker.  (Some decoders also take data
\* that is cut off in front of it; a writer must not rely on that.)
Decompress(f, cells) ==
    LET end == SelectInSeq(cells, LAMBDA c : c = <<"zend", f.method>>)
    IN  IF f.method = "stored" THEN [ok |-> TRUE, data |-> cells]
        ELSE IF \/ end = 0
                \/ \E i \in 1..end - 1 : \/ cells[i][1] # "z"
                                         \/ cells[i][2] # f.method
        THEN NoContent
        ELSE [ok |-> TRUE,
              data |-> FlattenSeq([i \in 1..end - 1 |-> cells[i][3]])]

\* The bytes an entry reads as; the checksum is injective on them.
ReadEntry(disk, f) ==
    LET raw   == FindContent(disk, f)
        clear == Decrypt(f, raw.data)
        plain == Decompress(f, clear.data)
    IN  IF raw.ok /\ clear.ok /\ plain.ok /\ plain.data = f.crc32
        THEN plain ELSE NoContent

IsCustomExtra(cell) == cell[1] # "zip64"

\* An extra field without its ZIP64 record.
CustomExtra(extra) ==
    FlattenSeq([i \in 1..Len(extra) |->
                  IF IsCustomExtra(extra[i]) THEN <<extra[i]>> ELSE << >>])

\* What a reader sees of an archive: per entry its name, extra field (the
\* ZIP64 record apart) and bytes.
Contents(disk) ==
    LET a == OpenArchive(disk)
    IN  [i \in 1..Len(a.files) |->
           [name  |-> a.files[i].name,
            extra |-> CustomExtra(a.files[i].extra_field),
            read  |-> ReadEntry(disk, a.files[i])]]
=============================================================================

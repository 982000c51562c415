# A verification development for the `zip` crate

TLA+ models of the ZIP writer and reader in `src/`, the TLC runs that check them on
small instances and the theorems TLAPS proves for every value of the constants.
Source positions below are lines of `src/src/*.rs` in the repository.

## 1. Inventory

| Component | Code | State it keeps | Operations | Status |
|---|---|---|---|---|
| `ZipWriter` | `write.rs` | `inner` (the sink inside its encoders, or `Closed`), `files`, `stats`, four `writing_*` flags, `comment` | `new`, `new_append`, `start_file`, `start_file_with_extra_data`, `start_file_aligned`, `end_extra_data`, `end_local_start_central_extra_data`, `write`, `flush`, `add_directory`, `add_symlink`, `raw_copy_file(_rename)`, `set_comment`, `finish`, `Drop` | modelled: `ZipWriter`; what it promises: `Archive` |
| Headers and end records, written | `write.rs` 1085-1330, `spec.rs` | bytes of the sink | local and central headers, ZIP64 records, end records | modelled: `ZipFormat`, `Zip64Fields` |
| Archive reader | `read.rs`, `spec.rs` | `Shared` (files, name index, offset, comment), the position of the source, `data_start` of each entry | `new`, `by_index*`, `by_name*`, `clone`, `data_start` | modelled: `ZipFormat` (opening), `ArchiveReader` |
| Read pipeline | `crc32.rs`, `aes.rs`, `read.rs` 76-292, 821-836 | running checksum or MAC, bytes left, the decoder's buffer | `read` under short reads and errors, `get_reader`, `get_raw_reader` | modelled: `ArchiveReader`, `Decoder` |
| ZipCrypto | `zipcrypto.rs` | keys; the writer's buffer | write, finish, validate, read | partly: all but the arithmetic of the keys |
| AES key stream | `aes_ctr.rs` | counter, block, position in the block | `crypt_in_place` | modelled: `AesCtr` |
| Stream reader | `read.rs` 984-1128, `read/stream.rs` | position, remaining data of the entry | `read_zipfile_from_stream`, `visit`, draining `Drop` | modelled: `ZipStream` |
| Extraction | `read.rs` 448-480, `read/stream.rs` 60-107 | the entry it is at; the file system | `ZipArchive::extract`, `ZipStreamReader::extract` | modelled: `Extract` |
| Entry metadata | `types.rs` | none | `DateTime`, `enclosed_name`, `unix_mode`, ... | partly: `EntryMetadata` |
| Methods | `compression.rs` | none | which methods can be written and read | constants of `ZipWriter` and `Decoder` |
| CP437, errors, re-exports | `cp437.rs`, `result.rs`, `lib.rs`, `unstable.rs` | none | tables and types | not modelled |
| Encoders, decoders, ciphers, hashes | libraries | theirs | external | what `write.rs` and `read.rs` rely on |

**Interactions.** A caller owns the `ZipWriter` (`&mut self`) and calls it in any order
it likes, ignoring errors if it likes, and dropping it whenever it likes. The writer
drives a stack: compressor, `ZipCryptoWriter`, sink. The sink can fail in any of its
operations; each `?` leaves the object in the state it had reached. The sink's position is
shared state: headers are written first and patched later, so `write.rs` seeks back, and
every size is a difference of positions. `raw_copy_file` takes an open entry of a
`ZipArchive` as its input. `new_append` opens an archive with the reader and carries on
over its directory. The reader goes the other way, from the end record to the directory
to local headers; clones of a `ZipArchive` share the directory and write each entry's
`data_start` into it. An open entry is a stack again: source, `Take`, cipher, decoder,
checksum, each with state of its own that a short or failed read leaves somewhere.
`extract` drives the reader and the file system by turns, one entry after the other.

**What is hard.** Nothing runs concurrently but clones of a reader, and they share one
field. The difficulty is protocol and failure:
about fifteen calls legal in any order, flags that select what an implicit
`finish_file` does at the start of each, `mem::replace` and `get_plain` on a writer
that may not be plain, errors half-way through a header that is being patched, calls
retried after an error, a `Drop` that finalizes while the caller unwinds, limits at 16
and 32 bits with two encodings each, stale bytes behind a rewritten directory; and for
the reader, key streams and checksums that must stay in step with data that arrives in
portions of any size, reads repeated after an error, and names and modes that lock an
extraction out of what it has just made.
`PROJECT.json` lists each hazard at its line.

**What makes each component correct.**
- Writer: an archive whose `finish` succeeds reads back as what was accepted, through the
  directory and through the local headers; calls never panic, drops least of all; finished
  entries are never overwritten; a lost sink is never used again.
- Format: what is written for a size, offset or count is what is read.
- Archive reader: opening entry *i* gives its data whatever was opened, read or dropped
  before, by this clone or another; no call panics on an archive that makes sense.
- Read pipeline: what is read is a beginning of what the entry contains; the end is
  reported only after the checksum or MAC of all of it was compared; a sound entry is
  never refused, whatever the sizes of the reads.
- AES key stream: decryption in portions equals decryption at once.
- Stream reader: each entry is visited once, however much of it is read; the data reported
  complete was verified; the metadata after the entries is found; the visit ends.
- Extraction: nothing outside the directory changes; success means that every entry is
  there with its data and mode; the two extractors leave the same files.
- Metadata: times survive an archive and a copy; a name that is let through stays below
  the directory at each of its components.

## 2. Modules

```
Zip64Fields, Vectors <-- ZipFormat
ZipFormat            <-- ZipWriter <-- ZipWriterHistory <-- ZipWriterArchive
                                       (INSTANCE Archive WITH entries <- promised)
ZipFormat            <-- Decoder <-- ZipStream
Decoder, AesCtr      <-- ArchiveReader
EntryMetadata, Vectors <-- Extract
runs:   MCZipWriter, MCZipWriterHistory, MCZipWriterArchive, MCZipStream,
        MCArchiveReader, MCExtract
proofs: Vectors_proofs <-- ZipWriter_proofs <-- ZipWriterSink_proofs <-- ZipWriterArchive_proofs
        Vectors_proofs <-- AesCtr_proofs <-- ArchiveReader_proofs
        Vectors_proofs <-- ZipStream_proofs
        Vectors_proofs <-- Extract_proofs
```

(`A <-- B`: B extends A.)

- **`Zip64Fields`** models how three sizes of a central header are split between its
  32-bit fields and the ZIP64 record (`write.rs` 1293-1330) and put together again
  (`parse_extra_field`, `read.rs` 753-801). The reader's cursor runs over the whole extra
  field: nothing holds it at the end of the record, so what is `behind` it, read as numbers,
  is a parameter.
- **`ZipFormat`** models the archive as a sequence of *cells*, one for each field or group of
  fields the code writes in one place. Overwriting, seeking, holes, truncation and
  stale structures exist in cells as in bytes. It has the writer's half (headers, end
  records) and the reader's half (`OpenArchive`, `ReadEntry`, `Contents`): the end record
  searched from the back, over the length of the longest comment, the ZIP64 locator relative
  to the end of the file, prepended data, directory entries in sequence, the loop of
  `parse_extra_field` with the cells that a short ZIP64 record takes for its numbers, the local header's own extra length, decryption,
  decompression up to the decoder's end marker, checksum.
- **`ZipWriter`** models the struct and every public operation. A call is a chain of
  steps named by `pc`, cut where the handler can fail and leave a different state. Each
  step that touches the sink gives its *trace*, the states the sink goes through;
  it ends in the last, or the sink fails and it ends in an earlier one (`Fails`).
  `finish_file`, which runs implicitly at the start of most calls, is therefore the same
  chain whoever calls it: `[finish_extra] [switch_stored] [finish_crypto] update_header`.
- **`ZipWriterHistory`** puts one bit beside `ZipWriter`: whether an entry's compressed size
  was ever counted above what its options allow (`outgrown`). The writer forgets it when a
  later finish counts again, and `RoundTrip` needs it.
- **`Archive`** is what the writer promises, without headers, offsets or a sink: a list of
  entries that grows at its end, of which only the last can still be written to, and that
  becomes an archive in one step. **`ZipWriterArchive`** puts an observer beside
  `ZipWriterHistory` that opens the sink after every step once a finish has succeeded, and
  maps the accepted entries and what the observer finds to `Archive`
  (`ImplementsArchive`). Every intermediate step (a header half patched, a directory half
  written) must map to a step that `Archive` allows, or to none.
- **`Decoder`** is what the readers rely on of flate2, bzip2 and zstd: blocks that may be
  handed out in any portions, an end marker, damaged and cut off data.
- **`AesCtr`** models `AesCtrZipKeyStream`: the counter, the block it was last made from and
  the position in it. A byte of the key stream is named by counter and place; the cipher
  itself is a function of the two.
- **`ArchiveReader`** models clones of one `ZipArchive`, each with a source of its own and
  at most one `ZipFile` (a `ZipFile` borrows its archive). A file is a record with the state of
  every layer: the source's position and `Take`'s limit, whether ZipCrypto's keys are in
  step, AES's key stream, bytes remaining and MAC, the decoder's input, the checksum's
  history. One action per call that opens (`ByIndex`, `ByIndexDecrypt`, `ByName`,
  `ByIndexRaw`) with the refusals in their order, and one per step of a read: the
  decoder fills its buffer as often as it likes (`DecoderFills`) and returns
  (`DecoderReturns`), so that an error or a short read may come between any two fills.
- **`EntryMetadata`** has the functions of `types.rs`: `DateTime` from and to the two 16-bit
  fields, `enclosed_name` over path components, `unix_mode`.
- **`Extract`** models the two extractors, step by step (open, directories, create, copy
  cell by cell, permissions), over a file system of paths with kinds, content and modes,
  in which directories must be searchable and writable to be used. The two run on
  copies of the same file system, one after the other, so that they can be compared.
- **`ZipStream`** models `ZipStreamReader::visit`. `phase` says whether `visit` looks for a
  header, has lent a file to the visitor, drops it, or collects metadata. The position of
  the stream is the state all of them share; a flag tells that the four bytes of a signature
  were consumed and the rest of the cell was not. The visitor reads pieces of any
  size through `Crc32Reader` and a decoder that may read ahead, retries after errors, and
  returns `Ok`, `Err` or a panic whenever it likes. The local header carries the data
  descriptor flag, which the writer never sets and the stream reader refuses, and AES records,
  which decide the method of a file whether or not it is encrypted: damaged ones are errors
  (`Accepted`), and "AES" as the method of an unencrypted file reaches the panic of `make_reader`
  (`NoReader`).
- **`Vectors`** says what a sequence of unknown elements is.
- **`MC*`** have the small values the configurations refer to.
- **`*_proofs`** have the theorems.

| Rust | TLA+ |
|---|---|
| the sink and its position | `disk`, `pos` |
| `GenericZipWriter`, `MaybeEncrypted` | `inner` = method (`"closed"` for `Closed`, `"stored"` for `Storer`), `encrypted`, what the cipher (`buffer`) and the compressor (`pending`) hold back |
| `files`, `stats`, `comment`, `writing_*` | variables of the same names |
| local variables alive across steps (arguments, the loop of `finalize`) | fields of `call` |
| `Ok`, `Err`, panic | `result`; `status` says whether the object is still there |
| the entries a successful call accepted | `promised` (history, read by properties only) |

Each operation has an action that begins its call (`StartFile`, ..., `Finish`,
`Drop`) and the handlers they share have one action per step: `ExtraRefused`,
`EndCentralExtra`, `EndLocalExtra`, `EndLocalExtraPanics` for `end_extra_data`;
`SwitchStored`, `FinishCrypto`, `KeepHeader`, `UpdateHeader` for `finish_file`;
`StartEntry`, `CopyRaw`, `WriteTarget` for what follows it; `WriteCentralHeader`,
`WriteEndRecords` for `finalize`.

For the reader: `Shared::files` is `files`, the `AtomicU64` of each entry `data_start`;
`ZipFile` is `file[c]`, with `ZipFileReader::NoReader`, `Raw` and the others as
`stage` (`"fresh"`, `"raw"`, `"decoding"`), `CryptoReader` as `crypto`, `io::Take` as `limit`,
`ZipCryptoKeys` as `synced`, `AesReaderValid` as `remaining`, `mac` and `ks`, `Crc32Reader`
as `hasher` (the bytes instead of their sum). `seen` is what the last read returned. For
extraction: the loop's index is `at.entry`, the place in its body `at.step`.

**Abstractions.** CRC32 is injective; ciphers are the wrapper `<<"enc", cell>>`, and the
writer's oracle has the right password. In `ArchiveReader` passwords are right, wrong, or
wrong and lucky enough to pass the one-byte check; the wrong key decrypts to `Garbage`,
a MAC is the cells it was computed over. To the writer and the reader, names are
single values: spelling, encoding and the truncation of their length to 16 bits are left out.
A comment is a sequence of cells, whose length the end record has modulo 2^16 (`spec.rs` 105).
A cell of extra data that is read as a number (behind a ZIP64 record that is too short for the
markers) is one number above the 32-bit limit (`AsNumbers`); `ReadBackExact` has any numbers.
Left out are timestamps, permissions and attributes, which
`EntryMetadata` and `Extract` are about. A compressor may pass on what it held, or nothing,
at each write; on `flush` it passes on everything. A write hands over one cell; a short
write of the sink is a write of fewer cells. When an encoder is lost because its sink
failed, what its own destructor may still try to write is not modelled: the sink has been
given up and the writer is `Closed`. In `ZipStream` a decoder is tolerant or not of data
cut off before its end marker (`Tolerant`), as the libraries differ; reads of empty buffers
change nothing and are left out. A failing operation of the sink does nothing, or did
the whole of its write of a cell; failures inside one group of fields are not told apart.
A header that a panic cuts short (`write.rs` 1191: the sum of two lengths is taken when half of
it is written) leaves a cell of its own, `HeaderBegun`, which nothing reads as a header.
`Extract` takes of an entry its name as path components, its data, which extractors
open it and whether it can be read to its end; the process is an unprivileged owner on
Unix, and the file system has no symbolic links. An empty name joins to `directory/`, which
no file can be created at (`NamesFile`). A name of nothing but `.`, or with a last `.`, is left
out (`ExtractAssumption`): `std::path` and the file system disagree about them.

## 3. Runs

Runs use `Spec`, `HistorySpec`, which adds `outgrown` to it, or `ObservedSpec`, which adds an
observer to that. Constants scale the
format: a cell is the unit of length, so that
`ZIP64_BYTES_THR` (2^32-1) and `ZIP64_ENTRY_THR` (2^16-1) are 1 or 2 where a run is about
crossing them and 100 where it is not. `U64_MODULUS` (2^64) is above every position.
`MaxEntries`, `MaxWrites`, `MaxAlign` and `MaxFaults` bound the entries, the cells
written, the alignments asked and the failures. Two entries are enough for everything that
depends on an entry being last, first or sealed; each write is one cell, and two or three
tell "none", "one held back" and "more than the limit" apart; one failure at any point
followed by any calls is the case the retry hazards are about.

| Run | Checks | Question |
|---|---|---|
| `entries` | `TypeOK`, `FinishedReadsBack`, `LocalHeadersAgree`, `NoPanic`, `ImplementsArchive` | files, directories, symlinks, raw copies; stored, deflated, large, encrypted; methods and levels the crate refuses; every order of these calls, `set_comment`, `finish` and the drop (`flush` is among the calls of `limits` and `faults`) |
| `extra` | `FinishedReadsBack`, `NoPanic`, `DataAligned` (of each call that returns), `ImplementsArchive` | extra data whole, torn, completed later, reserved or too long; local and central; alignments 0 to 4 |
| `limits` | `RoundTrip`, `LocalHeadersAgree` | the 32-bit limit at 2, the 16-bit limit at 1: sizes, offsets, entry counts, directory position, extra data, comments; writes behind a raw copy; finishes refused for size and what comes after them; length computations that overflow |
| `faults` | `RoundTrip`, `DirectoryReads`, `LastFileExists`, `GetPlainSafe`, `SealedBytesUntouched`, `ClosedIsFinal` | `new_append` on archives with prepended data or a comment, and new ones; one failure of the sink or the copied source, anywhere; a method the crate cannot write, with extra data or without; no overflow checks, as in a release build |
| `abort` | `NoAbort`: violated | encrypted entry with extra data, then the drop |
| `retry` | `FinishedReadsBack`: violated | a finish that fails inside a header, a write, and a finish again |
| `append_comment` | `RoundTrip`: violated | appending to an archive whose entries have comments |
| `visit` | `TypeOK`, `Positioned`, `EndIsVerified`, `AgreesWithDirectory`, `Terminates` | streams of two entries: sound, refused, damaged, with AES records, truncated at each kind of place; one failure of the stream anywhere; any visitor |
| `metadata` | `MetadataVisited`: violated | a visit of a sound archive |
| `read` | `TypeOK`, `ReadsAreFaithful`, `EndIsVerified`, `SoundEntriesReadWhole`, `RawIsVerbatim`, `NoPanic`, `DataStartKnown` | two clones; plain, ZipCrypto and AES entries, stored and deflated, sound, damaged and malformed; right, wrong and lucky passwords; sources with and without short reads; one failure anywhere |
| `short_reads` | `SoundEntriesRead`: violated | a ZipCrypto entry from a source with short reads |
| `extract` | `TypeOK`, `StaysInside`, `EntriesDelivered`, `ModesApplied`, `PlainArchivesExtract`, `ExtractorsAgree` | archives of three entries whose names and modes meet, and the one without entries; four targets; names that escape or are empty, damaged entries; one failure of the file system anywhere |

`RoundTrip` is the main property: whenever `finish`, or the drop of a live writer, has
succeeded and the sink never failed, opening the disk yields the names, extra fields,
bytes and comment that successful calls were given, whatever calls were refused in between.
It has three exceptions, each of them something the code does not keep (below): an entry
whose sizes are ambiguous, a comment that does not fit sixteen bits, and what is finished after
an entry has *outgrown* its options. The limits of `limits` are such that all three happen: TLC
finds `RoundTrip` violated without any one of them. Without the third it finds a deflated
entry that is flushed until `finish` refuses it (1143), two writes over its header, and a
second `finish` that succeeds.
`FinishedReadsBack` is the same without exceptions. It is what the code does not keep after
a failure (`retry`); `entries` and `extra`, where nothing fails and no size meets the
32-bit limit, show that it is kept otherwise. Section 4 proves `RoundTrip`, and from it the
refinement.
Two properties are about what survives failures. `DirectoryReads`: whenever a finish
succeeds, after torn directories, retries and panics, `ZipArchive::new` finds *this*
directory, with the entries in their order and the sizes, offsets and comment the writer
has for them. Its exceptions (`DirectoryReadable`) are those described below: what
is left of a longer old directory behind the new one, a comment that does not fit sixteen bits
or contains the signature of an end record, ambiguous sizes, an extra field that does not fit the
central header, and an empty archive behind something that passes for its
ZIP64 locator. `SealedBytesUntouched`: whatever fails and is retried, nothing in
front of the last local header is written again. `ImplementsArchive` says the same of
contents, over every step: no call changes any entry but the last, and what a reader
finds appears in one step and stays.

`ReadsAreFaithful` compares what the layers pass on, read by read, with `Plain`, which
takes the entry as a whole, without buffers or key streams. `EndIsVerified` is what
callers rely on to trust data; `SoundEntriesReadWhole` is its converse, that nothing but a
failing source keeps a caller from a sound entry. AES blocks are two bytes there and
entries have three, so that every read may cross a block, end within it or at its end;
the decoder asks for two cells of three. Two clones are enough for one to open what the
other is reading; they are symmetric.

In `extract`, `EntriesDelivered` and `ModesApplied` hold at every moment, so that a failure
anywhere leaves the entries before it whole. `PlainArchivesExtract` and `ExtractorsAgree`
say that ordinary archives are not refused, and that the two extractors, separate code,
agree; both except the archive without entries, which the stream's extractor takes for
invalid (`read.rs` 1040). Three entries let one make what the next is locked out of and a third overwrite
the first.

**Stopping and fairness.** `CHECK_DEADLOCK FALSE` is used because a writer really stops:
after it was dropped or aborted there is nothing left to call, and the bounds stop it
as well. No liveness is stated of it: calls run to their end by themselves, but
nothing obliges a caller to make one. The readers of `ArchiveReader` stop after a panic, and
`Extract` when both extractions have ended. `ZipStream` stops when the visit has ended. Its
liveness, `Terminates`, assumes weak fairness of `Next`: `visit` is a loop in one thread
that the scheduler runs, a reading visitor cannot read for ever (what it can change by
reading is bounded by the entry), and it is assumed to return once nothing new comes.
Two entries let one be left half read and the next be looked for; a buffer of two cells
reads an entry in one piece or several.

### What the code does not keep

The five violation runs are the `findings` of `PROJECT.json`, each against a sentence of
the documentation:

1. **abort.** `end_extra_data` calls `get_plain()` (631) on an encrypted writer and
   panics; unwinding drops the writer, whose `finalize` does the same and aborts.
2. **retry.** `finish_file` takes the current position for the end of the data (447).
   After a failure between the seeks at 1137 and 450 that position is inside the header. A
   write that follows is accepted and goes over the rest of the header; once it has come to
   `stats.start`, a second `finish`, or the drop, takes the distance from there for the size,
   writes the directory over the data and succeeds. The write is needed: a second `finish` that
   follows at once finds the position in front of the data, and the subtraction underflows,
   which is a panic with overflow checks and without them a wrapped size that 1143 refuses,
   unless the entry has `large_file`.
3. **short_reads.** `ZipCryptoReaderValid::read` decrypts its whole buffer, whatever was
   read into it (`zipcrypto.rs` 163), so a source that delivers less than it is asked for,
   which `Read` allows, advances the keys past bytes that were not read yet. Over
   such a source the unwrap of `tests/zip_crypto.rs` 99 fails for a sound entry.
4. **append_comment.** `new_append` drops the entries' comments, the new directory is
   shorter, and the old end record stays behind it.
5. **metadata.** `read_zipfile_from_stream` consumes the signature of the first central
   header (`read.rs` 1039), the loop of `visit` looks for it again (`stream.rs` 31, 48): the
   visit succeeds without a call of `visit_additional_metadata`.

Some behaviours are kept out of the passing runs by the values of the constants, or are in
them without a property that forbids them. They are stated here so that nobody takes those
runs to exclude them:

- A *size or offset equal to the 32-bit limit*: the writer puts a value in the ZIP64
  record if it is *above* `0xFFFFFFFF` (1299), the reader expects one there if the field
  *equals* it (`read.rs` 760). It then takes the next number: that of a later field or, since its
  cursor does not stop at the end of the record, the next eight bytes of the caller's
  extra data (1207). `RoundTrip` leaves out the entries this makes ambiguous
  (`AmbiguousEntry`); section 4 has theorems for every value.
- A *comment longer than 65535 bytes* is accepted (`set_raw_comment`, 352), its length is cut to
  sixteen bits (`spec.rs` 105), and the reader searches no further than the longest
  comment (`spec.rs` 71): the archive does not open, or its comment is cut. `RoundTrip` and
  `DirectoryReads` except it; `limits` has such comments.
- Extra data for a *method the crate cannot write*: `end_extra_data` fails in `switch_to`
  (648) and returns before it clears `writing_to_extra_field`; the next call that ends
  the extra data panics in `get_plain` (1027). Runs that check `NoPanic` give extra data
  only to methods that can be written, unencrypted; `faults` has such entries, and shows
  that the writer stays closed and publishes nothing.
- Extra data of *maximal length on a large file*: the 16-bit length overflows (643; in the
  central header, 1191). No run that checks `NoPanic` has a large file with extra data;
  `limits` has, with the panics of a build with overflow checks, and shows that what is published
  afterwards reads back. No property forbids the panics.
- A *compressed size above the limit* without `large_file`: the refused `finish` (1143) has
  left the sink inside the header. Writes that follow go over the header, and a second `finish`
  counts from there and succeeds: `limits` has such behaviours, `RoundTrip` excepts them
  (`outgrown`), and `FinishedReadsBack` is not checked there. `LocalHeadersAgree` holds in them, but
  is only about checksum and sizes: those are patched once more.
- `raw_copy_file` of an *encrypted* entry drops the flag (687): the copy is unreadable.
  `Sources` has no encrypted entry. An encrypted entry with a *data descriptor* in an archive that
  is appended to loses the flag for that when the directory is written anew, and with it
  the byte its password is checked against (`ExistingEntries`).
- A *write behind `raw_copy_file`* is accepted (703) and its bytes are lost: the entry keeps
  the sizes of its source. The runs include such writes; the copied entry and those
  after it still read back.
- The stream of an *empty archive* begins with the end record, and is refused as invalid
  (`read.rs` 1040), although line 1021 has `Ok(None)` for the start of the directory. So the two
  extractors disagree about it (`Finish`), and `PlainArchivesExtract` and `ExtractorsAgree`
  are about archives with entries; `extract` has the empty one.
- A stream that *fails while a file is dropped* panics (`read.rs` 1008), and aborts when
  the visitor panicked before. `visit` explores both; no doc says what should happen.
- A compression *level with `Stored`* is accepted, although line 151 says only `None` is
  (899 compares the method alone). It has no effect on the archive.
- *AES entries no writer makes* (`Malformed`, excepted by `NoPanic`): an AES record on an
  entry without the encryption flag makes `by_index` unwrap an `InvalidPassword` (574); a
  compressed size below salt and codes underflows (`aes.rs` 49); "AES" as the method
  within the AES record reaches the panic of `make_reader` (290). The `read` run
  has such entries. In a stream, method 99 on a file that is not encrypted reaches that panic
  through 1128, with a record or without (`NoReader`, which `visit` has): `read_zipfile_from_stream`
  makes no check for it.
- The end of an *AE-2* entry, which has no checksum, is not authenticated when the
  source ends early, an earlier read failed (the next returns `Ok(0)`, `aes.rs` 139), the
  decoder stops before the end of the data, or there is no data. `EndIsVerified` says what
  is left (`Authenticated`).
- The *raw copy* of a file that was read from, or was opened with a password, is not what
  the archive holds: `get_raw_reader` (831) hands out what is there. `RawIsVerbatim` is
  about files opened without a password and not read from.
- `ZipArchive::extract` sets *permissions as it goes* (475), so it is locked out of its own
  read-only directories, and of those with mode 0, which a Unix entry with attributes but
  no mode has (`types.rs` 407); `PlainArchivesExtract` excepts this (`LockedOut`). The
  stream extractor sets no modes at all, which follows from finding 5.
- A name with `..` inside makes the directory it passes through (`a/../b` makes `a`). A
  name that ends with a backslash is a directory for `is_dir` and a file for `extract`.

### Mutants

Every property of every passing run has a mutant in `PROJECT.json`: a slip one could make
in that code, which TLC must find to violate the property under the run's own configuration.
The operators marked "A slip" in the modules serve only that purpose.

## 4. Proofs

Checked by `tlapm`, for every value of the constants that the named assumptions allow:
names, data, sources, archives, buffers, limits, and the number of clones, entries, writes
and failures are arbitrary. The assumptions say no more than the types of the code do, but for
those on archives that are appended to (`Existing...`) and entries that are copied:

| Assumption | Says | Because |
|---|---|---|
| `BytesThrAssumption`, `EntryThrAssumption`, `BlockSizeAssumption` | the limits are naturals, a cipher block is not empty | constants of `spec.rs`, `aes_ctr.rs` |
| `BoundsAssumption`, `StreamBoundsAssumption`, `ReaderAssumption` | the bounds of the model are naturals; passwords, overflow checks and kinds of source are those described in section 2 | bounds of the model |
| `EncodersAssumption`, `DecodersAssumption` | "stored", "closed", "aes" and "unsupported" name no library codec | `compression.rs` |
| `OptionsAssumption`, `VectorsAssumption` | what `FileOptions` can hold; comments and data are sequences | types of the arguments |
| `ExistingAssumption`, `DisksAssumption`, `StreamsAssumption` | archives and streams are sequences of the cells of `ZipFormat`, and numbers read from them are naturals, compressed sizes below `U64_MODULUS`, lengths of extra fields at most `ZIP64_ENTRY_THR` | fields are unsigned integers, sizes `u64`, lengths `u16` |
| `ExtractAssumption` | file systems are trees of nodes with twelve-bit modes; names and the directory are sequences of components as `std::path` gives them (a `.` only in front); data are sequences; attributes have sixteen bits | what a file system is; the documentation of `Path::components`; `u32` |
| `ExistingLayout` | the last entry of an archive that is appended to lies in front of its directory | true of every archive a writer leaves; `new_append` does not check it |
| `ExistingHeaders` | the local headers of such an archive agree with its directory, and lie in front of the last and of the directory | the same; only `LocalHeadersAreSound` and `CallsDoNotPanic` need it |
| `ExistingEntries` | the entries of such an archive read well and lie, with their data, in front of the last and of the directory; none is encrypted with a data descriptor | the same, but for the last (section 3); only `FinishedArchivesReadBack` and `WriterImplementsArchive` need it |
| `ExtraCellsAssumption` | no cell of extra data that a caller writes is a ZIP64 record | its kind is reserved (1236) |
| `SourcesAssumption` | a copied entry is sound: its checksum and size are those of its data | damaged data is copied as it is |

`ExistingLayout` is the one that an input can break: appending to a file whose directory
stands in front of its last entry overwrites that entry.

Some theorems have hypotheses on the behaviour besides, where the property is not true of all:

| Hypothesis | Says | Needed by |
|---|---|---|
| `FitsU64` | no data starts within `ZIP64_BYTES_THR` of 2^64 | `LocalHeadersAreSound` |
| `RoomForZip64` | the extra field of an entry that gets a ZIP64 record has room for it within sixteen bits | `FinishedArchivesReadBack`, `WriterImplementsArchive` |
| `DirectoryReadable` | the exceptions of `DirectoryReads` (section 3) | the same two, of finished archives |
| `~outgrown`, `faults = 0` | no entry outgrew its options; no failure of the sink | `WriterImplementsArchive`; they are premises of `RoundTrip` |
| `FinishedReadsBack` | section 3, `retry` | `ArchiveImplemented` |
| `ExtraForWritable` | extra data is given only to entries that are not encrypted, with a method and level the crate has (finding 1, and section 3) | `CallsDoNotPanic` |
| `NothingOverflows` | in a build with overflow checks: `FitsU64`, `RoomForZip64`, no failure of the sink, no entry larger than its options say (`SizesFit`). Nothing in a build without | `CallsDoNotPanic` |
| `Packed` | the files stand one behind the other from the start of the stream, in the order of the directory, and the name, checksum and compressed size of each local header are those of its central header | `PackedStreamsAgree` |

`ExtraForWritable` and `NothingOverflows` hold in every behaviour of the runs `entries` and
`extra`, which check `NoPanic`; `Packed` holds of every stream of `visit` that `ZipArchive` opens.

### The writer

**`ZipWriter_proofs`**
- `Invariance`: `Spec => []IInv`, with
  `IInv == TypeOK /\ GetPlainSafe /\ LastFileExists /\ CallFits`.
- `TypeCorrect` (`TypeOK`), `FinishFileHasPlainWriter` (`GetPlainSafe`), `LastFileFound`
  (`LastFileExists`): its conjuncts.
- `ClosedStaysClosed` (`ClosedIsFinal`): an action property that rests on the invariant.

The four conjuncts need each other. That the type of `inner` is kept by a step depends on
what writer the step finds: `UpdateHeader` reaches `get_plain()` only from a step
that left a plain `Storer` (`GetPlainSafe`). `write()` assigns through `files.last_mut()`,
so the type of `files` depends on there being one (`LastFileExists`). What `StartEntry`
returns to depends on the call under way, and a drop never runs on a closed writer, which is
why a closed writer cannot report a finished archive (`CallFits`). There is one lemma per
action; under it, one step per way the action ends (success, refusal, failure, panic).

**`ZipWriterSink_proofs`**
- `SealedUntouched` (`SealedBytesUntouched`): whatever fails and whatever is called next,
  no step changes the sink in front of the last local header.
- `SinkInvariance`: `Spec => []SinkInv`, with
  `SinkInv == IInv /\ VectorsOK /\ LastFileLocated`: where the last header starts, where its
  data starts, where the position is, and that they are in this order.

The invariant is needed because the writer seeks back: `update_local_file_header`
writes at `header_start` plus an offset, the extra field's end seeks to its length field,
and only the order of positions tells that these are behind what is sealed. After a failure
the position is anywhere the trace of the step went (`Fails`), so each handler is proved
by a lemma on its trace: all of its states agree with the sink before it below `Sealed`
(`KeepingTrace`). Those lemmas rest on what overwriting, seeking behind the end and truncation
do to a sequence of cells (`WriteAtKeeps`, `WriteTraceKeeps`, `ConcatTraceKeeps`).

- `LocalHeadersAreSound`: `Spec /\ []FitsU64 => []LocalHeadersAgree`. In the archive that a
  finish or a drop completes each local header has the checksum and the sizes of the directory, which
  is what a stream reader needs of it, if the sink never failed; whatever calls were refused,
  panicked or repeated.
- `EntriesAreAligned` (`DataAligned`): when `start_file_aligned` has returned `Ok`, the data starts
  at a multiple of the alignment and the position is there, whatever failed before.
- `CallsDoNotPanic`: `Spec /\ []ExtraForWritable /\ []NothingOverflows => []NoPanic`. In a release
  build the first hypothesis is all: whatever fails and is retried, no call panics.

`LocalHeadersAgree` speaks of finished archives, so its invariant (`HeadersInv`) must say of every
step which headers agree already. All but the last do (`EarlierHeaders`), and lie in front of it.
The last does once the entry is `Settled`, by `finish_file` or from the beginning in a raw copy. Until
then its sizes are those of the empty entry, and what matters is where the writer will look for
them: the header ends in front of `stats.start`, and the position is behind that (`PositionKnown`).
The exception is an entry refused for its size (1143), which leaves the position inside the header.
As long as it is in front of the data, the difference of positions in the next `finish_file` is
negative and wraps, counts as a large size, and is refused again (`FitsU64`); when writes have
brought it behind, the header is patched with the new size, wrong as it is for the data. A drop that follows a panic comes to
headers whose data nobody located (`Untied`), those of an archive that was appended to.
The lemmas say what a write over a part of a header leaves of it (`WriteAtCells`), and that
`update_local_file_header` makes a header that agrees from one that was written for the
same entry.

`CallsDoNotPanic` uses that invariant, because the subtraction at 447 underflows
unless the position is behind the start of the data, and one of its own: while local extra
data is written the writer is plain and `end_extra_data` can switch to the method
of the entry, and an extra field is longer than 16 bits can say only while it is written, when it is
refused (`PanicInv`). Both build on `PromiseInv`, which adds to `SinkInv` that what was
accepted is a vector of promises, that extra data is not accepted after its end, and that a
writer that has ended has no call under way.

- `ReadBackExact`: sizes and offset in a central header and its ZIP64 record read back
  exactly, for all values and every threshold and whatever extra data follows, except when one
  is exactly the threshold and there is something for the reader to take in its place: a later
  value above it or, behind a record, extra data (`Ambiguous`). `RoundTrip` leaves out
  exactly those entries. It also says that the cursor stops at the end of the record.
- `AmbiguousReadsBackWrong`: in that case they never do, unless the extra data happens to read
  as the threshold itself. The exception is as narrow as it can be.
- `DirectoryIsRead`: `Spec => []DirectoryReads`. Whenever a finish succeeds, whatever failed
  before, the reader opens the file and finds the writer's entries and comment, through ZIP64
  records where one of the three limits is crossed, for every limit and number of entries.

`DirectoryIsRead` meets in the middle. On the side of the writer, `CentralInv` says where the
directory is while it is written: nothing of it before "central"; after `i` headers, these
and nothing else from `CentralStart` to the position, as `CentralHeader` makes them; after the
commit, the end records behind them, up to the position. It does not mind what is in
front, which may be the torn directory of an earlier finish. On the side of the reader are facts
about cells only: the search from the end of the file meets the end record before any other
(`EndRecordsAreFound`, where `DirectoryReadable` is needed), one central header reads back as
it was written, through `parse_extra_field`'s loop and by `ReadBackExact`
(`CentralHeaderReadsBack`), and headers that stand one behind the other are opened in
that order (`HeadersAreOpened`). `ArchiveOpens` joins the two.

**`ZipWriterArchive_proofs`**
- `FinishedArchivesReadBack`: `HistorySpec /\ []RoomForZip64 => [](DirectoryReadable => RoundTrip)`.
  Whatever is put into an archive, and whatever calls are refused in between, is what a reader
  finds in it.
- `WriterImplementsArchive`: while the sink does not fail, `ImplementsArchive`. Between two calls the
  list of entries grows only at its end and changes only in its last entry, through
  implicit finishes, refusals and drops, and the archive appears in one step and stays.
- `ArchiveImplemented`: `ObservedSpec /\ []FinishedReadsBack => ImplementsArchive`, with failures
  anywhere. The condition is the property that `retry` shows the code not to keep: after a failed
  and repeated finish, what the observer finds is not what was accepted, and then nothing
  is an implementation of `Archive`.

For `RoundTrip` one must know at every step where the data of the entry that is being written is,
because it is in three places: on the disk, in the cipher's buffer and in the compressor.
- `Coding(m, cells, pending, data)`: what the compressor has passed on and what it holds
  back make up what it was given. Once it ends, a decoder makes that data of it (`Coded`).
- `Carries(f, cells, data)`: so does a reader of the cells on the disk, which are the former with
  ZipCrypto's header in front and encrypted one by one, if the entry is.
- `EntryOn(d, f, data, end)`: the local header of `f` is there, the data behind it, by the header's
  own extra length, carries `data`, and ends by `end`. `EntryReads` says that then `ReadEntry`
  returns it, and `EntryKept` that nothing written behind `end` changes it; that nothing in front is
  written again is `SealedUntouched`.
- `LiveData`: of an open writer, all entries but the last are on the disk, in front of the last
  header; the last is as its step has it (`LastData`): placed and empty while extra data is
  collected, `Flowing` between `data_start` and the position while data is written, complete
  in a raw copy, `Recorded` once its header was patched.
- `CommittedData`: of a finished archive, all entries are on the disk, with the extra data
  that was accepted.

`DataInv` says these two as long as nothing failed. There is one lemma per action (`...Data`), under
a common premise (`DataStep`). `CommittedReadsBack` puts the parts together: `DirectoryIsRead`
gives the reader the entries, `CentralExtraIsCustom` the extra data of each, `EntryReads` its bytes.
`HistoryInv` is `~outgrown => SizesFit /\ DataInv`: a refusal at 1143 leaves the position inside
the header, `Flowing` is false from then on, and nothing brings it back.

### The reader

**`ArchiveReader_proofs`**
- `ReaderInvariance`: `Spec => []ReaderInv`.
- `TypeCorrect` (`TypeOK`), `DataStartIsKnown` (`DataStartKnown`), `RawCopiesAreVerbatim`
  (`RawIsVerbatim`), `CallersReadTheData` (`ReadsAreFaithful`), `EndsAreVerified`
  (`EndIsVerified`), `SoundEntriesAreRead` (`SoundEntriesReadWhole`), `NoCallPanics`
  (`NoPanic`): what the callers of any number of clones rely on, for any archive, reads of any
  sizes, short reads and failures anywhere.

`ReadsAreFaithful` compares what was read with the entry as a whole. It is not inductive:
one must know what each layer has done. `ReaderInv` describes every open file, layer by layer:
- `Located`: position and `Take`'s limit add up to the end of the data.
- `KindOK`: which cipher and method belong to which entry (`make_crypto_reader`, `make_reader`).
- `FreshOK`, `RawOK`: a file without a reader has passed on nothing; a raw one, a beginning
  of the data, and the position is behind that.
- `InputOK`: what the cipher has passed on is the beginning of what the data decrypts to. For
  ZipCrypto this needs that its keys have met all of the data so far, which holds
  without short reads only (finding 3). For AES, that the MAC is over exactly the cells up
  to the position, the key stream has moved as many places, and the bytes remaining are the
  rest; once none remain, the code was compared.
- `DecoderOK`: what was delivered is a beginning of what the decoder makes of the cells it
  was fed, and when it was told of the end of its input, there is no more.
- `EndOK`: behind a reported end, all of the input was decoded and the checksum compared.
- `DataStartOK`: an entry's `data_start` is 0 or what `find_content` finds, whichever clone
  wrote it. That is why clones may race for it.

Each layer has a lemma for its `read` (`PlainReadDelivers`, `ZipCryptoReadDelivers`,
`AesReadDelivers`), with one conclusion, `Delivers`, from which the lemmas on decoder and
checksum are proved once. That decoding a beginning gives a beginning of the decoded
(`DecoderOK`) rests on what `FlattenSeq` does to a prefix.

`SoundEntriesAreRead` is the converse of `EndsAreVerified`, and needs an invariant of its own on
top of `ReaderInv`: while no source has failed, no read of a sound file has (`CalmInv`). `ReaderInv`
says where each layer stands, and a lemma for each way a read can fail shows that it does
not stand there: the authentication code is found behind the data and is the one over what was read
(`AesDoesNotFail`); the decoder meets no damage in a beginning of sound data, and its end marker
before the data ends (`BeginningIsSound`, `MarkerCells`); what the checksum is compared with
is then all of the content (`WholeAtEnd`, `ChecksumFits`). `CalmInv` must say more than the
property, that the file is not marked as failed either: a failed read leaves the layers apart,
and the next one might fail because of it.

**`AesCtr_proofs`**
- `CryptInPlaceInStep`: whatever was encrypted before, `crypt_in_place` on a target of any
  length pairs its bytes with the key bytes that follow, for every block size.
- `PortionsInStep`: so does any sequence of calls; decryption in portions equals decryption
  at once. The invariant says what the fields of a key stream are (`KeyStreamOK`): the
  buffer was made from the counter before the current one, and at the start there is none.

### The stream reader

**`ZipStream_proofs`**
- `EndOfDataIsVerified` (`EndIsVerified`): whatever the stream delivers, whatever fails and
  is retried. The invariant adds that the file in the visitor's hands satisfies the same
  (`Verified`), and that the history is a vector, so that what is in it was appended.
- `VisitFindsHeaders` (`Positioned`): when `visit` looks for the next header, the stream
  stands where the entries before it end, for any stream, whatever part of each file the
  visitor read and however it ended. `VisitIsTypeCorrect` (`TypeOK`) comes with it.

`Positioned` is about one phase only; `PositionInvariance` proves
`PositionInv == StreamOK /\ VisitedIsSeq /\ TypeOK /\ Positioned /\ Lending`. `Lending` says
which entry is lent (`Lent(k)`: the k-th place of the stream holds its header, whole), and
`TypeOK` keeps the position between the start of its data and the end of it, or of the
stream, so that what `Drop` drains is exactly the rest. `EntryStarts` is a recursive function over
the stream; that it is what its definition says at each index is proved first
(`StartsAreEntryStarts`).
- `PackedStreamsAgree`: `Spec => [](Packed => AgreesWithDirectory)`. A visit that succeeds
  has shown the files of the directory, all of them, in its order, with the bytes that
  `ZipArchive` reads.

`visit` goes by the local headers and `ZipArchive` by the central ones, so nothing makes them
agree on a stream where these differ, or where something that looks like a file stands between
the files and the directory; `Packed` rules out that and no more. The invariant (`ShownInv`) adds to
`PositionInv` that the i-th file in the history is the entry of the i-th header, and that `visit`
leaves the files only at a central header. Induction along the directory shows that its i-th
file is where `EntryStarts` says (`PackedPlaces`); so a visit can stop neither in front of a
file of the directory nor behind the last. The bytes agree through the checksum: `EndIsVerified` on
one side, `ReadEntry`'s comparison on the other.

### Extraction and the fields of an entry

**`Extract_proofs`**
- `ExtractionStaysInside` (`StaysInside`): for every archive, directory and file
  system, and whatever fails, what is outside the directory is as it was; only what an
  entry names is changed, and only what it passes through is new.
- `ExtractIsTypeCorrect` (`TypeOK`): the trees stay file systems, with each node in a
  directory.
- `ExtractInvariance`: `Spec => []ExtractInv`, with
  `ExtractInv == TypeOK /\ (tree is a function) /\ Going /\ StaysInside`. `Going` says that an
  entry past its opening has a name that `enclosed_name` let through; without it nothing is known
  of the paths that the later steps use.

The argument has three parts. By name: the loop of `enclosed_name` and the walk along the path
are two folds over the same components, and after any number of them the place is as deep
below the directory as the loop has counted (`EnclosedInside`); since the count never
fell below zero (`NeverAbove`), every place that is passed is in the directory, or on the way
to it (`PassedPlaces`). On the file system: a path that can be walked leads
to its place by name (`ReachedIsNormal`; this is where a symbolic link would make a
difference, and the model has none), and `create_dir_all`, `File::create`, a write and `chmod` change
that place only, or add places that are passed (`Touched`, one lemma for each call). By action: each
moves forward in the archive and touches the tree by its entry (`Advances`, `Changes`), and
one lemma derives the invariant from that (`StepKeepsInv`).

- `EntriesAreDelivered` (`EntriesDelivered`): what an extractor has gone past is there and of its
  kind, and the last file of each place has all its data, at every moment and whatever failed.
- `ModesAreApplied` (`ModesApplied`): a node has the mode of the last entry gone past that gives it
  one, or that it had, or that of a new node.
- `DeliveryInvariance`: `Spec => []DeliverInv`, on top of `ExtractInv`. `Past` says of the entries
  gone past that they are held, with the data of the last of each place; `InHand` that the path of
  the entry that is written still leads to its own place, with what was copied so far; `ModesDue`
  that every mode is the one that is due.

`InHand` is what the properties lack to be inductive: `CopyCell` and `SetPermissions` go by path
again, and without it a cell could land in another file than the one `CreateFile` emptied.
It holds because from the opening of a file to the end of its data no kind and no mode changes
and no node goes (`ReachedKept`). Entries gone past are undisturbed because every call
changes its own place only, never a kind, and what it adds is a new directory with the mode of one
(`Touched`, `Careful`). That `create_dir_all` leaves a directory at the end of its path when it
succeeds is an induction over the components (`DirectoriesMade`).

- `PlainArchivesAreExtracted` (`PlainArchivesExtract`) and `ExtractorsDoAgree`
  (`ExtractorsAgree`): that extraction succeeds, and that what the archive's extractor gets
  through the stream's does too, with the same nodes but for modes. `Plain` and `Accessible`
  are premises of the properties and not assumptions: archives of ordinary entries
  satisfy the one, and every file system of which all may be written to the other.
- `PassInvariance`: `Spec => []PassInv`. `Filed` says of a tree that old nodes kept their kind,
  that a new one is a directory that some entry needs or some entry's file, and that
  nothing but an entry's file has new content; `Passes` that the directories of the entries
  gone past are there (`Laid`), that these entries could be opened and read (`Fine`), and that
  the path of the one under way can be walked where the next step needs it.
- `EndInvariance`: `Spec => []EndInv`: an extractor ends well only after the last entry, and
  badly, where the entries fit and nothing else fails, only locked out.

Both theorems go through `Fitting`, which no extractor occurs in: every path leads to a place, and no
place has to be a directory for one entry and a file for another, or for what was there.
A plain archive fits (`PlainIsFitting`), and so does one that the archive's extractor got
through (`ExtractedIsFitting`, from `PassInv` and `DeliverInv`: all that its entries need is there at
once, so nothing can conflict). Where the entries fit, a call can fail only at a node that is `Shut`: a directory on
the way that nothing can be put into, or a file that cannot be written to. For `create_dir_all`
this is an induction along the path (`ClearIsMade`, `PathStuck`). By `ModesDue` a node can be shut
only if an earlier entry gave it the mode, which only the archive's extractor does, and
since entries fit it is an entry for that very node (`ShutIsLockedOut`). The trees of two extractors
that got through agree because `Filed` and `Laid` determine places and kinds, and `Past` and
`Filed` the content (`SameExtracted`).

- `TimeSurvivesArchive`: the fields of every `DateTime` fit sixteen bits, and read back as they
  were, to an even second; `DateTime` is what the constructors and `from_msdos` can make.
- `FieldsSurviveCopy`: any two 16-bit fields go through a `DateTime` unchanged, as they do
  in `raw_copy_file`. Both rest on lemmas about quotients and remainders by the powers
  of two of the shifts.

### What the proofs share

**`Vectors_proofs`** has the facts about sequences of unknown elements (`IsSeq`), the least
element of a set of naturals (`SmallestNat`) and, from it, induction over a *set* of
naturals (`Induction`). The library's induction theorems take an operator as their parameter,
which the installed provers cannot instantiate; a set is a value, so what a fold or a
recursive function computes is proved by showing that the set of lengths for which it holds
is all of `Nat`. `CryptInPlace` (a fold over blocks), the loop of `parse_extra_field`, `FlattenSeq`, and the folds over the
components of a path are treated in this way.

### Only model-checked

- `FinishedReadsBack`, which is not true of every behaviour (`retry`), in the runs `entries` and
  `extra`; `RoundTrip` and `FinishedArchivesReadBack` say how far it is.
- Liveness (`Terminates`) and `ENABLED`, which are out of the provers' reach, and the
  violated properties.

## 5. Not modelled

CP437 is a table, and the errors and re-exports are types. In the modelled components:
`file_name_sanitized` and the conversions to and from the `time` crate; the numeric codes of
`CompressionMethod` and `version_needed`; the 16-bit truncation of name lengths; bytes within a group of fields; the arithmetic of ciphers and checksums;
accessors that return a field. Clones whose sources share one position (`ZipArchive<&File>`)
are not modelled: here each has a position of its own, as with `io::Cursor`. `raw_copy_file` of a file opened for decryption is described above and not a
transition of `ZipWriter`. Windows paths, symbolic links and privileged
processes are outside `Extract`.

## 6. Plan

What is left is what no module has yet: sources that share one position between clones, Windows
paths and symbolic links in `Extract`, and the read side of archives whose parts overlap,
about which no property of the crate says anything. Of what is proved, `ArchiveImplemented`
could do with a hypothesis about failures in the place of `FinishedReadsBack`: which steps a
failure may hit without a later finish going wrong.

----------------------------- MODULE ZipWriter -----------------------------
(***************************************************************************)
(* zip::ZipWriter (src/write.rs): the state machine that turns a sequence  *)
(* of API calls into an archive on a Write + Seek sink that may fail.      *)
(*                                                                         *)
(* A call takes `&mut self', so calls do not interleave; what can happen   *)
(* inside one is that the sink fails between two of its writes.  A call    *)
(* is therefore a short chain of steps, named by `pc', one per stretch of  *)
(* the handler between two points where it can fail and leave the writer   *)
(* in a different state; the next call starts when pc is "idle" again.     *)
(* Every step that touches the sink lists the states the sink goes         *)
(* through (its trace): the step ends in the last one, or fails in an      *)
(* earlier one.                                                            *)
(*                                                                         *)
(*   call                 chain of steps                                   *)
(*   start_file & co      finish_file steps, local_header [, copy|target]  *)
(*   finish, drop         finish_file steps, central                       *)
(*   end_extra_data, end_local_start_central_extra_data   end_extra        *)
(*   finish_file          [end_extra,] [switch_stored,] [finish_crypto,]   *)
(*                        update_header                                    *)
(***************************************************************************)
EXTENDS ZipFormat

CONSTANTS
    Names,          \* entry names
    Bytes,          \* data cells a caller may write
    ExtraCells,     \* extra field cells a caller may write
    Options,        \* FileOptions: [method, level, large_file, encrypted]
    Sources,        \* entries of other archives, for raw_copy_file
    Comments,       \* archive comments, sequences of cells
    Existing,       \* disks new_append may be given
    Encoders,       \* compression methods the crate can write, "stored" apart
    Calls,          \* the public operations the caller uses
    OverflowChecks, \* whether the build panics on integer overflow
    U64_MODULUS,    \* 2^64, scaled: above every position of the run
    MaxAlign,       \* bound: alignments asked of start_file_aligned
    MaxEntries,     \* bound: entries in the archive
    MaxWrites,      \* bound: data and extra cells accepted by write()
    MaxFaults       \* bound: failures of the sink or of a copied source

ASSUME BoundsAssumption ==
    /\ MaxEntries \in Nat /\ MaxWrites \in Nat /\ MaxFaults \in Nat
    /\ MaxAlign \in Nat
    /\ OverflowChecks \in BOOLEAN
ASSUME EncodersAssumption == Encoders \cap {"stored", "closed"} = {}

\* CompressionMethod: the methods the crate can write, and one it cannot.
Methods == Encoders \cup {"stored", "unsupported"}

ASSUME OptionsAssumption ==
    Options \subseteq [method : Methods, level : {"none", "valid", "invalid"},
                       large_file : BOOLEAN, encrypted : BOOLEAN]

\* Comments and copied data are vectors.
ASSUME VectorsAssumption ==
    /\ \A c \in Comments : IsSeq(c)
    /\ \A s \in Sources : IsSeq(s.cells) /\ IsSeq(s.plain)

\* A ZIP64 record among the caller's extra data is a "reserved" one.
ASSUME ExtraCellsAssumption == \A c \in ExtraCells : IsCustomExtra(c)

\* The entries that are copied are sound: what is damaged is copied as it is.
ASSUME SourcesAssumption ==
    \A s \in Sources :
        /\ s.compressed_size = Len(s.cells) /\ s.crc32 = s.plain
        /\ Decompress(s, s.cells) = [ok |-> TRUE, data |-> s.plain]

VARIABLES
    disk, pos,                              \* the sink and its stream position
    inner,                                  \* GenericZipWriter
    files, stats, comment,
    writing_to_file, writing_to_extra_field,
    writing_to_central_extra_field_only, writing_raw,
    call, pc,                               \* the call in progress and its step
    result,                                 \* what the last call returned
    status,                                 \* live, finished, dropped, aborted
    faults, writes,                         \* how much of the bounds is used
    promised                                \* history: the entries accepted

sinkVars  == <<disk, pos>>
flagVars  == <<writing_to_file, writing_to_extra_field,
               writing_to_central_extra_field_only, writing_raw>>
dataVars  == <<files, stats, comment>>
callVars  == <<call, pc, result, status>>
ghostVars == <<faults, writes, promised>>
vars == <<sinkVars, inner, dataVars, flagVars, callVars, ghostVars>>

-----------------------------------------------------------------------------
(***************************************************************************)
(* GenericZipWriter<W>.  `method' is the variant ("closed" for Closed,     *)
(* "stored" for Storer); `encrypted' tells whether the sink is wrapped in  *)
(* a ZipCryptoWriter, which holds all it is given in `buffer' until the    *)
(* entry ends; `pending' is what a compressor has not emitted yet.         *)
(***************************************************************************)
Closed == [method |-> "closed", encrypted |-> FALSE, buffer |-> << >>,
           pending |-> << >>]
Plain  == [Closed EXCEPT !.method = "stored"]

IsClosed(w) == w.method = "closed"
IsPlain(w)  == w.method = "stored" /\ ~w.encrypted      \* get_plain's pattern

\* A slip in switch_to: no check of the method.
SwitchToAnyMethod(w, method, level) ==
    IF level # "invalid" THEN [w EXCEPT !.method = method] ELSE Closed

\* switch_to, from a Storer: the writer that results, Closed for an error.
\* The level is looked at only when the method changes.
SwitchTo(w, method, level) ==
    IF w.method = method THEN w
    ELSE IF method \in Encoders /\ level # "invalid"
      THEN [w EXCEPT !.method = method] ELSE Closed

\* A slip: the tail of the compressor is forgotten.
NothingPending(w) == << >>

\* What a compressor holds back, as it will appear in the entry's data.
Pending(w) ==
    IF w.pending = << >> THEN << >> ELSE << <<"z", w.method, w.pending>> >>

Encrypted(cells) == [i \in 1..Len(cells) |-> <<"enc", cells[i]>>]

\* A slip: the data is taken to start one cell late.
NewStatsLate(start) ==
    [hasher |-> << >>, start |-> start + 1, bytes_written |-> 0]

NewStats(start) == [hasher |-> << >>, start |-> start, bytes_written |-> 0]

\* ZipWriterStats::update
Update(cells) ==
    [stats EXCEPT !.hasher = @ \o cells, !.bytes_written = @ + Len(cells)]

\* A slip: files.first() where files.last() is meant.
FirstFile == files[1]

LastFile == files[Len(files)]

SetLastFile(f) == [files EXCEPT ![Len(files)] = f]

-----------------------------------------------------------------------------
(***************************************************************************)
(* I/O.  A trace is the sequence of <<disk, pos>> a stretch of code takes  *)
(* the sink through.                                                       *)
(***************************************************************************)
WriteTrace(d, p, cells) ==
    [i \in 1..Len(cells) + 1 |->
        <<WriteAt(d, p, SubSeq(cells, 1, i - 1)), p + i - 1>>]

MoveSink(state) == disk' = state[1] /\ pos' = state[2]

Succeeds(trace) ==
    /\ MoveSink(trace[Len(trace)])
    /\ UNCHANGED faults

\* The I/O call that leads from trace[i] to trace[i + 1] fails.
FailsAt(trace, i) ==
    /\ faults < MaxFaults
    /\ faults' = faults + 1
    /\ MoveSink(trace[i])

Fails(trace) == \E i \in 1..Len(trace) - 1 : FailsAt(trace, i)

\* One more call that can fail but moves nothing: flush, stream_position.
Still(trace) == Append(trace, trace[Len(trace)])

\* The sink below a writer gets cells, unless a ZipCryptoWriter keeps them.
SinkTrace(w, cells) ==
    IF w.encrypted THEN << <<disk, pos>> >> ELSE WriteTrace(disk, pos, cells)

Kept(w, cells) == IF w.encrypted THEN w.buffer \o cells ELSE w.buffer

-----------------------------------------------------------------------------
(***************************************************************************)
(* Calls begin, step and return.                                           *)
(***************************************************************************)
Idle == pc = "idle" /\ status \in {"live", "finished"} /\ result # "panic"

Goto(step) == pc' = step /\ UNCHANGED <<call, result, status>>

Return(r) == pc' = "idle" /\ result' = r /\ UNCHANGED <<call, status>>

\* `?' in the middle of a call.  Drop discards the error and the writer.
Fail ==
    /\ pc' = "idle" /\ result' = "err" /\ UNCHANGED call
    /\ status' = IF call.op = "drop" THEN "dropped" ELSE status

\* A panic unwinds through the caller, whose ZipWriter is then dropped; a
\* panic in that drop aborts the process.
Panic ==
    /\ pc' = "idle" /\ result' = "panic" /\ UNCHANGED call
    /\ status' = IF call.op # "drop" THEN status
                 ELSE IF call.unwinding THEN "aborted" ELSE "dropped"

\* Slips in finish_file's matches: no arm for a closed writer, no arm for an
\* encrypted one.
AfterExtraOpen(w) ==
    IF w.method \in Encoders THEN "switch_stored"
    ELSE IF w.encrypted THEN "finish_crypto" ELSE "update_header"

AfterExtraClear(w) ==
    IF w.method # "stored" THEN "switch_stored" ELSE "update_header"

\* Where finish_file, and with it every call that runs it, begins.
AfterExtra(w) ==
    IF w.method # "stored" THEN "switch_stored"
    ELSE IF w.encrypted THEN "finish_crypto" ELSE "update_header"

FinishFile ==
    IF writing_to_extra_field THEN "finish_extra" ELSE AfterExtra(inner)

Begin(c, step) ==
    /\ Idle /\ c.op \in Calls
    /\ call' = c /\ pc' = step /\ result' = "none"
    /\ UNCHANGED <<sinkVars, inner, dataVars, flagVars, status, ghostVars>>

-----------------------------------------------------------------------------
(***************************************************************************)
(* end_extra_data, called by the user or by finish_file.                   *)
(***************************************************************************)
ExtraSteps == {"finish_extra", "end_extra"}

WholeRecords(extra) ==
    \A i \in 1..Len(extra) :
        /\ extra[i][2] # "reserved"
        /\ extra[i][2] = "torn" => i < Len(extra) /\ extra[i + 1][2] = "rest"
        /\ extra[i][2] = "rest" => i > 1 /\ extra[i - 1][2] = "torn"

\* A slip: the length is not checked.
ValidAtAnyLength(extra) == WholeRecords(extra)

\* validate_extra_data: not too long, no reserved header id, and every
\* record whole.  A record may be written in parts: "torn" is a record
\* header whose body is missing and "rest" that body.
ValidExtra(extra) == Len(extra) <= ZIP64_ENTRY_THR /\ WholeRecords(extra)

EntersCentral == pc = "end_extra" /\ call.op = "end_local_start_central"

\* A slip: end_extra_data does not reset the central-only flag.
CentralOnlySticks == EntersCentral \/ writing_to_central_extra_field_only

CentralOnlyNext == EntersCentral

\* A slip: what was written for the local header stays for the central one.
ForBothHeaders(f) == f

\* extra_field.clear(): what was written is for the local header only.
ForLocalHeader(f) == [f EXCEPT !.extra_field = << >>]

\* The flags and the extra field after a successful end_extra_data, and
\* what end_local_start_central_extra_data does next.  start_file_aligned
\* runs both when it padded; the padding is for the local header only.
ExtraEnded(f, w) ==
    LET aligned == pc = "end_extra" /\ call.op = "start_file_aligned"
    IN  /\ files' = SetLastFile(IF EntersCentral \/ aligned
                                THEN ForLocalHeader(f) ELSE f)
        /\ writing_to_extra_field' = EntersCentral
        /\ writing_to_central_extra_field_only' = CentralOnlyNext
        /\ IF pc = "end_extra" THEN Return("ok") ELSE Goto(AfterExtra(w))
        /\ promised' = IF EntersCentral
                       THEN [promised EXCEPT ![Len(promised)].extra = << >>]
                       ELSE promised
        /\ UNCHANGED <<comment, writing_to_file, writing_raw, writes>>

ExtraAccepted == writing_to_extra_field /\ ValidExtra(LastFile.extra_field)

ExtraRefused ==
    /\ pc \in ExtraSteps /\ ~ExtraAccepted
    /\ Fail
    /\ UNCHANGED <<sinkVars, inner, dataVars, flagVars, ghostVars>>

EndCentralExtra ==
    /\ pc \in ExtraSteps /\ ExtraAccepted
    /\ writing_to_central_extra_field_only
    /\ ExtraEnded(LastFile, inner)
    /\ UNCHANGED <<sinkVars, inner, stats, faults>>

\* The guard of the steps that move local extra data to the sink.
EndingLocalExtra ==
    /\ pc \in ExtraSteps /\ ExtraAccepted
    /\ ~writing_to_central_extra_field_only

\* get_plain() on an encrypted or closed writer.
EndLocalExtraPanics ==
    /\ EndingLocalExtra /\ ~IsPlain(inner)
    /\ Panic
    /\ UNCHANGED <<sinkVars, inner, dataVars, flagVars, ghostVars>>

\* Append the extra field, patch its length, come back to the data.
ExtraTrace(f, end) ==
    LET grown   == WriteAt(disk, pos, f.extra_field)
        length  == <<"extralen", LocalExtraLen(f)>>
        patched == WriteAt(grown, f.header_start + EXTRA_LEN_OFFSET, <<length>>)
    IN  WriteTrace(disk, pos, f.extra_field)
        \o << <<grown, f.header_start + EXTRA_LEN_OFFSET>>,
              <<patched, f.header_start + EXTRA_LEN_OFFSET + 1>>,
              <<patched, end>> >>

LocalExtraOverflows(f) ==
    /\ OverflowChecks
    /\ ZeroOrOne(f.large_file) + Len(f.extra_field) > ZIP64_ENTRY_THR

EndLocalExtra ==
    LET end   == LastFile.data_start + Len(LastFile.extra_field)
        moved == [LastFile EXCEPT !.data_start = end]
        w     == SwitchTo(inner, moved.method, moved.level)
        trace == ExtraTrace(LastFile, end)
        n     == Len(LastFile.extra_field)
    IN  /\ EndingLocalExtra /\ IsPlain(inner)
        /\ \/ /\ ~LocalExtraOverflows(moved)
              /\ Succeeds(trace)
              /\ stats' = [stats EXCEPT !.start = end]
              /\ inner' = w
              /\ IF IsClosed(w)
                 THEN /\ files' = SetLastFile(moved) /\ Fail
                      /\ UNCHANGED <<comment, flagVars, writes, promised>>
                 ELSE ExtraEnded(moved, w)
           \/ \* the length does not fit sixteen bits
              /\ LocalExtraOverflows(moved)
              /\ MoveSink(trace[n + 1])
              /\ stats' = [stats EXCEPT !.start = end]
              /\ files' = SetLastFile(moved)
              /\ Panic
              /\ UNCHANGED <<inner, comment, flagVars, ghostVars>>
           \/ \E i \in 1..Len(trace) - 1 :
              /\ i > n => ~LocalExtraOverflows(moved)
              /\ FailsAt(trace, i)
              /\ stats' = IF i > n THEN [stats EXCEPT !.start = end] ELSE stats
              /\ files' = IF i > n THEN SetLastFile(moved) ELSE files
              /\ Fail
              /\ UNCHANGED <<inner, comment, flagVars, writes, promised>>

-----------------------------------------------------------------------------
(***************************************************************************)
(* finish_file: back to a plain Storer, then the last entry's sizes.       *)
(***************************************************************************)
\* switch_to(Stored): the compressor emits its tail, or takes the sink with
\* it when it cannot.
SwitchStored ==
    LET tail  == Append(Pending(inner), <<"zend", inner.method>>)
        after == [inner EXCEPT !.method = "stored", !.pending = << >>,
                               !.buffer = Kept(inner, tail)]
    IN  /\ pc = "switch_stored"
        /\ \/ /\ IsClosed(inner) /\ Fail
              /\ UNCHANGED <<sinkVars, inner, faults>>
           \/ /\ ~IsClosed(inner) /\ Succeeds(SinkTrace(inner, tail))
              /\ inner' = after /\ Goto(AfterExtra(after))
           \/ /\ ~IsClosed(inner) /\ Fails(SinkTrace(inner, tail))
              /\ inner' = Closed /\ Fail
        /\ UNCHANGED <<dataVars, flagVars, writes, promised>>

\* ZipCryptoWriter::finish: everything held back, behind its header.
FinishCrypto ==
    LET trace == Still(WriteTrace(disk, pos,
                    <<<<"crypthdr", stats.hasher>>>> \o Encrypted(inner.buffer)))
    IN  /\ pc = "finish_crypto"
        /\ \/ /\ Succeeds(trace) /\ inner' = Plain /\ Goto("update_header")
           \/ /\ Fails(trace) /\ inner' = Closed /\ Fail
        /\ UNCHANGED <<dataVars, flagVars, writes, promised>>

\* The rest of the call that runs finish_file.
EndOps == {"finish", "drop"}
AfterFinishFile == IF call.op \in EndOps THEN "central" ELSE "local_header"

\* Nothing to patch: a raw copy, an archive opened for append, or no entry
\* at all (the early return, which leaves the flags alone).
KeepHeader ==
    /\ pc = "update_header"
    /\ writing_raw \/ files = << >>
    /\ IF writing_raw THEN writing_to_file' = FALSE /\ writing_raw' = FALSE
                      ELSE UNCHANGED <<writing_to_file, writing_raw>>
    /\ Goto(AfterFinishFile)
    /\ UNCHANGED <<sinkVars, inner, dataVars, writing_to_extra_field,
                   writing_to_central_extra_field_only, ghostVars>>

U64(x) == IF x < 0 THEN x + U64_MODULUS ELSE x

TooLarge(f) == ~f.large_file /\ f.compressed_size > ZIP64_BYTES_THR

\* A slip: a large file's sizes go where those of others are.
SizesOffset32(f) == SIZES_OFFSET

SizesOffset(f) == IF f.large_file THEN ZIP64_OFFSET ELSE SIZES_OFFSET

\* update_local_file_header and the seek back to the end of the data.
HeaderTrace(f) ==
    LET summed  == WriteAt(disk, f.header_start + CRC32_OFFSET,
                           << <<"crc", f.crc32>> >>)
        offset  == f.header_start + SizesOffset(f)
        sized   == WriteAt(summed, offset,
                     <<IF f.large_file THEN LocalZip64(f) ELSE LocalSizes(f)>>)
    IN  << <<disk, pos>>, <<disk, f.header_start + CRC32_OFFSET>>,
           <<summed, f.header_start + SIZES_OFFSET>> >>
        \o (IF TooLarge(f) THEN << >>
            ELSE (IF f.large_file THEN << <<summed, offset>> >> ELSE << >>)
                 \o << <<sized, offset + 1>>, <<sized, pos>> >>)

Summed == [LastFile EXCEPT !.crc32 = stats.hasher,
                           !.uncompressed_size = stats.bytes_written]

UpdateHeader ==
    LET f     == [Summed EXCEPT !.compressed_size = U64(pos - stats.start)]
        trace == HeaderTrace(f)
        underflows == OverflowChecks /\ pos < stats.start
    IN  /\ pc = "update_header" /\ ~writing_raw /\ files # << >>
        /\ \/ /\ ~underflows /\ ~TooLarge(f)
              /\ Succeeds(trace)
              /\ files' = SetLastFile(f)
              /\ writing_to_file' = FALSE /\ writing_raw' = FALSE
              /\ Goto(AfterFinishFile)
           \/ \* "Large file option has not been set"
              /\ ~underflows /\ TooLarge(f)
              /\ Succeeds(trace)
              /\ files' = SetLastFile(f)
              /\ Fail /\ UNCHANGED <<writing_to_file, writing_raw>>
           \/ /\ underflows
              /\ files' = SetLastFile(Summed)
              /\ Panic
              /\ UNCHANGED <<sinkVars, faults, writing_to_file, writing_raw>>
           \/ \* stream_position fails before compressed_size is known
              /\ FailsAt(trace, 1)
              /\ files' = SetLastFile(Summed)
              /\ Fail /\ UNCHANGED <<writing_to_file, writing_raw>>
           \/ /\ ~underflows /\ Fails(trace)
              /\ files' = SetLastFile(f)
              /\ Fail /\ UNCHANGED <<writing_to_file, writing_raw>>
        /\ UNCHANGED <<inner, stats, comment, writing_to_extra_field,
                       writing_to_central_extra_field_only, writes, promised>>

-----------------------------------------------------------------------------
(***************************************************************************)
(* start_entry after finish_file, and what its callers do with the entry.  *)
(***************************************************************************)
Raw == call.source

NewFile ==
    LET o == call.options
        z == [name |-> call.name, encrypted |-> o.encrypted,
              using_data_descriptor |-> FALSE, method |-> o.method,
              level |-> o.level, crc32 |-> << >>, compressed_size |-> 0,
              uncompressed_size |-> 0, extra_field |-> << >>,
              header_start |-> pos, data_start |-> 0,
              large_file |-> o.large_file]
    IN  IF call.op # "raw_copy_file" THEN z
        ELSE [z EXCEPT !.crc32 = Raw.crc32,
                       !.compressed_size = Raw.compressed_size,
                       !.uncompressed_size = Raw.uncompressed_size]

\* A slip: the header of the padding record is not counted.
PaddingForgetsHeader(data_start, align) ==
    IF align > 1 /\ data_start % align # 0
    THEN LET pad_length == align - (data_start % align)
         IN  [i \in 1..pad_length + 1 |-> <<"extra", "pad">>]
    ELSE << >>

\* start_file_aligned's padding record: a header and pad_length zeros.
Padding(data_start, align) ==
    IF align > 1 /\ data_start % align # 0
    THEN LET pad_length == (align - ((data_start + 1) % align)) % align
         IN  [i \in 1..pad_length + 1 |-> <<"extra", "pad">>]
    ELSE << >>

\* The entry as the caller was promised it will read back.
Promise ==
    [name |-> call.name, extra |-> << >>,
     data |-> IF call.op = "raw_copy_file" THEN Raw.plain ELSE << >>]

\* What each caller of start_entry does next with the writer w.
FileStarted(w) ==
    LET switched == SwitchTo(w, call.options.method, call.options.level)
    IN  /\ call.op = "start_file"
        /\ inner' = switched
        /\ IF IsClosed(switched) THEN Fail /\ UNCHANGED writing_to_file
           ELSE Return("ok") /\ writing_to_file' = TRUE
        /\ UNCHANGED <<writing_to_extra_field, writing_raw>>

ExtraDataStarted(w) ==
    /\ call.op \in {"start_file_with_extra_data", "start_file_aligned"}
    /\ inner' = w
    /\ writing_to_file' = TRUE /\ writing_to_extra_field' = TRUE
    /\ IF call.op = "start_file_aligned" THEN Goto("end_extra")
       ELSE Return("ok")
    /\ UNCHANGED writing_raw

DirectoryAdded(w) ==
    /\ call.op = "add_directory"
    /\ inner' = w /\ Return("ok")
    /\ writing_to_file' = FALSE
    /\ UNCHANGED <<writing_to_extra_field, writing_raw>>

SymlinkStarted(w) ==
    /\ call.op = "add_symlink"
    /\ inner' = w /\ Goto("target")
    /\ writing_to_file' = TRUE
    /\ UNCHANGED <<writing_to_extra_field, writing_raw>>

RawCopyStarted(w) ==
    /\ call.op = "raw_copy_file"
    /\ inner' = w /\ Goto("copy")
    /\ writing_to_file' = TRUE /\ writing_raw' = TRUE
    /\ UNCHANGED writing_to_extra_field

Started(w) ==
    \/ FileStarted(w) \/ ExtraDataStarted(w) \/ DirectoryAdded(w)
    \/ SymlinkStarted(w) \/ RawCopyStarted(w)

StartEntry ==
    LET trace == Still(WriteTrace(disk, pos, LocalHeader(NewFile)))
        end   == pos + Len(LocalHeader(NewFile))
        pad   == IF call.op = "start_file_aligned" THEN Padding(end, call.align)
                                                   ELSE << >>
    IN  /\ pc = "local_header"
        /\ \/ /\ Succeeds(trace)
              /\ files' = Append(files, [NewFile EXCEPT !.data_start = end,
                                                        !.extra_field = pad])
              /\ stats' = NewStats(end)
              /\ promised' = Append(promised, Promise)
              /\ Started([Plain EXCEPT !.encrypted = call.options.encrypted])
           \/ /\ Fails(trace) /\ Fail
              /\ UNCHANGED <<inner, files, stats, promised, writing_to_file,
                             writing_to_extra_field, writing_raw>>
        /\ UNCHANGED <<comment, writes, writing_to_central_extra_field_only>>

\* io::copy of the raw data of an entry of another archive, whose reader
\* can fail as well.
CopyRaw ==
    LET trace == Still(WriteTrace(disk, pos, Raw.cells))
    IN  /\ pc = "copy"
        /\ \/ /\ Succeeds(trace) /\ stats' = Update(Raw.cells) /\ Return("ok")
           \/ /\ \E i \in 1..Len(trace) - 1 :
                   /\ FailsAt(trace, i)
                   /\ stats' = Update(SubSeq(Raw.cells, 1, i - 1))
              /\ Fail
        /\ UNCHANGED <<inner, files, comment, flagVars, writes, promised>>

-----------------------------------------------------------------------------
(***************************************************************************)
(* write and flush.                                                        *)
(***************************************************************************)
\* What a write of `cell' passes on at once, and what it holds back: a
\* Storer passes everything on, a compressor at most what it held before.
Splits(cell) ==
    IF inner.method = "stored" THEN { << <<cell>>, << >> >> }
    ELSE { << << >>, Append(inner.pending, cell) >>,
           << Pending(inner), <<cell>> >> }

\* write() of one cell of entry data.  Data beyond the 32-bit limit of an
\* entry that is not a large file closes the writer, sink and all.  A write
\* behind a raw copy is accepted but not accounted for: the entry keeps the
\* sizes of its source, and is promised to read back as the source did.
WriteData(cell, writing) ==
    \E split \in Splits(cell) :
        LET w == [inner EXCEPT !.buffer = Kept(inner, split[1]),
                               !.pending = split[2]]
            over == /\ stats.bytes_written + 1 > ZIP64_BYTES_THR
                    /\ ~LastFile.large_file
        IN  \/ /\ Succeeds(SinkTrace(inner, split[1]))
               /\ stats' = Update(<<cell>>)
               /\ inner' = IF over THEN Closed ELSE w
               /\ IF over THEN Fail /\ UNCHANGED writing_to_file
                  ELSE Return("ok") /\ writing_to_file' = writing
               /\ promised' = IF writing_raw THEN promised
                    ELSE [promised EXCEPT
                            ![Len(promised)].data = Append(@, cell)]
            \/ /\ Fails(SinkTrace(inner, split[1]))
               /\ Fail
               /\ UNCHANGED <<inner, stats, promised, writing_to_file>>

WriteTarget ==
    /\ pc = "target"
    /\ WriteData(call.cell, FALSE)
    /\ UNCHANGED <<files, comment, writing_to_extra_field, writing_raw,
                   writing_to_central_extra_field_only, writes>>

Write ==
    /\ Idle /\ "write" \in Calls /\ writes < MaxWrites
    /\ writing_to_file /\ ~IsClosed(inner)
    /\ writes' = writes + 1
    /\ \/ /\ writing_to_extra_field
          /\ \E cell \in ExtraCells :
               /\ files' = SetLastFile([LastFile EXCEPT
                              !.extra_field = Append(@, cell)])
               /\ promised' = [promised EXCEPT
                                 ![Len(promised)].extra = Append(@, cell)]
          /\ Return("ok")
          /\ UNCHANGED <<sinkVars, inner, stats, faults, writing_to_file>>
       \/ /\ ~writing_to_extra_field
          /\ \E b \in Bytes : WriteData(b, TRUE)
          /\ UNCHANGED files
    /\ UNCHANGED <<comment, writing_to_extra_field, writing_raw,
                   writing_to_central_extra_field_only>>

\* "No file has been started", "ZipWriter was already closed".
WriteRefused ==
    /\ Idle /\ "write" \in Calls
    /\ ~writing_to_file \/ IsClosed(inner)
    /\ Return("err")
    /\ UNCHANGED <<sinkVars, inner, dataVars, flagVars, ghostVars>>

\* A compressor emits what it holds and a sync marker, an empty block; a
\* ZipCryptoWriter does nothing.
SyncFlush(w) ==
    IF w.method = "stored" THEN << >>
    ELSE Append(Pending(w), <<"z", w.method, << >>>>)

Flush ==
    LET out == SyncFlush(inner) IN
    /\ Idle /\ "flush" \in Calls /\ writes < MaxWrites
    /\ writes' = writes + 1
    /\ \/ /\ IsClosed(inner) /\ Return("err")
          /\ UNCHANGED <<sinkVars, inner, faults>>
       \/ /\ ~IsClosed(inner) /\ Return("ok")
          /\ Succeeds(SinkTrace(inner, out))
          /\ inner' = [inner EXCEPT !.pending = << >>,
                                    !.buffer = Kept(inner, out)]
       \/ \* what was emitted before the failure is not emitted again
          /\ ~IsClosed(inner) /\ ~inner.encrypted /\ Return("err")
          /\ \E i \in 1..Len(SinkTrace(inner, out)) :
               /\ FailsAt(Still(SinkTrace(inner, out)), i)
               /\ inner' = [inner EXCEPT !.pending = IF i = 1 THEN @ ELSE << >>]
    /\ UNCHANGED <<dataVars, flagVars, promised>>

-----------------------------------------------------------------------------
(***************************************************************************)
(* finalize after finish_file: the central directory and the end records.  *)
(***************************************************************************)
\* A slip: the start of the directory is taken anew with each header.
CentralStartAnew == pos

CentralStart == IF call.headers = 0 THEN pos ELSE call.central_start

\* The fields of a header in front of the length of its extra field.
HeaderBegun == << <<"begun">> >>

\* The next header of the directory.  Its extra field is the ZIP64 record and
\* the custom fields, whose joint length may not fit sixteen bits: their sum
\* is taken when half of the header is written.
WriteCentralHeader ==
    LET f         == files[call.headers + 1]
        overflows == OverflowChecks /\ Len(CentralExtra(f)) > ZIP64_ENTRY_THR
        trace     == WriteTrace(disk, pos, IF overflows THEN HeaderBegun
                                           ELSE CentralHeader(f))
    IN  /\ pc = "central" /\ call.headers < Len(files)
        /\ \/ /\ ~overflows /\ Succeeds(trace)
              /\ call' = [call EXCEPT !.headers = @ + 1,
                                      !.central_start = CentralStart]
              /\ UNCHANGED <<pc, result, status>>
           \/ overflows /\ Succeeds(trace) /\ Panic
           \/ Fails(trace) /\ Fail
        /\ UNCHANGED <<inner, dataVars, flagVars, writes, promised>>

\* A slip: finish does not take the writer out of the ZipWriter.
StillHeld(w) == w

\* finish hands the sink back to the caller; drop does not get that far.
HandedBack(w) == IF call.op = "finish" THEN Closed ELSE w

WriteEndRecords ==
    LET trace == Still(WriteTrace(disk, pos,
                   EndRecords(Len(files), CentralStart, pos - CentralStart,
                              comment)))
    IN  /\ pc = "central" /\ call.headers = Len(files)
        /\ \/ /\ Succeeds(trace)
              /\ pc' = "idle" /\ result' = "ok" /\ UNCHANGED call
              /\ inner' = HandedBack(inner)
              /\ status' = IF call.op = "finish" THEN "finished" ELSE "dropped"
           \/ Fails(trace) /\ Fail /\ UNCHANGED inner
        /\ UNCHANGED <<dataVars, flagVars, writes, promised>>

-----------------------------------------------------------------------------
(***************************************************************************)
(* The public operations.                                                  *)
(***************************************************************************)
StoredOptions == [method |-> "stored", level |-> "none", large_file |-> FALSE,
                  encrypted |-> FALSE]

NoSource == [name |-> "none", method |-> "stored", crc32 |-> << >>,
             compressed_size |-> 0, uncompressed_size |-> 0, cells |-> << >>,
             plain |-> << >>]

NoCall == [op |-> "none", name |-> "none", options |-> StoredOptions,
           source |-> NoSource, cell |-> << >>, align |-> 0,
           unwinding |-> FALSE, headers |-> 0, central_start |-> 0]

\* The calls that add an entry: room for it, then finish_file.
AddEntry(c) == Len(files) < MaxEntries /\ Begin(c, FinishFile)

StartFile ==
    \E n \in Names, o \in Options :
        AddEntry([NoCall EXCEPT !.op = "start_file", !.name = n, !.options = o])

StartFileWithExtraData ==
    \E n \in Names, o \in Options :
        AddEntry([NoCall EXCEPT !.op = "start_file_with_extra_data",
                                !.name = n, !.options = o])

StartFileAligned ==
    \E n \in Names, o \in Options, a \in 0..MaxAlign :
        AddEntry([NoCall EXCEPT !.op = "start_file_aligned", !.name = n,
                                !.options = o, !.align = a])

AddDirectory ==
    \E n \in Names, o \in Options :
        AddEntry([NoCall EXCEPT !.op = "add_directory", !.name = n,
                                !.options = [o EXCEPT !.method = "stored"]])

AddSymlink ==
    \E n \in Names, o \in Options, target \in Bytes :
        AddEntry([NoCall EXCEPT !.op = "add_symlink", !.name = n,
                                !.options = [o EXCEPT !.method = "stored"],
                                !.cell = target])

\* FileOptions::default() and what raw_copy_file_rename takes from the source:
\* not its level, its extra field or its encryption flag.
RawOptions(s) ==
    [method |-> s.method, level |-> "none", encrypted |-> FALSE,
     large_file |-> \/ s.compressed_size > ZIP64_BYTES_THR
                    \/ s.uncompressed_size > ZIP64_BYTES_THR]

RawCopyFile ==
    \E n \in Names, s \in Sources :
        AddEntry([NoCall EXCEPT !.op = "raw_copy_file", !.name = n,
                                !.source = s, !.options = RawOptions(s)])

EndExtraData == Begin([NoCall EXCEPT !.op = "end_extra_data"], "end_extra")

EndLocalStartCentralExtraData ==
    Begin([NoCall EXCEPT !.op = "end_local_start_central"], "end_extra")

Finish == Begin([NoCall EXCEPT !.op = "finish"], FinishFile)

SetComment ==
    /\ Idle /\ "set_comment" \in Calls
    /\ comment' \in Comments
    /\ call' = NoCall /\ result' = "ok" /\ UNCHANGED <<pc, status>>
    /\ UNCHANGED <<sinkVars, inner, files, stats, flagVars, ghostVars>>

\* Drop finalizes unless the sink is gone; after a panic it runs while the
\* caller unwinds.
Drop ==
    /\ pc = "idle" /\ status = "live" /\ "drop" \in Calls
    /\ call' = [NoCall EXCEPT !.op = "drop", !.unwinding = result = "panic"]
    /\ IF IsClosed(inner) THEN pc' = "idle" /\ status' = "dropped"
                          ELSE pc' = FinishFile /\ UNCHANGED status
    /\ result' = "none"
    /\ UNCHANGED <<sinkVars, inner, dataVars, flagVars, ghostVars>>

-----------------------------------------------------------------------------
InitWriter(d, p, fs, c, raw) ==
    /\ disk = d /\ pos = p /\ inner = Plain
    /\ files = fs /\ stats = NewStats(0) /\ comment = c
    /\ writing_to_file = FALSE /\ writing_to_extra_field = FALSE
    /\ writing_to_central_extra_field_only = FALSE /\ writing_raw = raw
    /\ call = NoCall /\ pc = "idle" /\ result = "none" /\ status = "live"
    /\ faults = 0 /\ writes = 0
    /\ promised = [i \in 1..Len(fs) |->
          [name |-> fs[i].name, data |-> ReadEntry(d, fs[i]).data,
           extra |-> CustomExtra(fs[i].extra_field)]]

IsEntry(f) ==
    /\ {"header_start", "data_start", "extra_field"} \subseteq DOMAIN f
    /\ f.header_start \in Nat /\ IsSeq(f.extra_field)

\* An archive is a vector of cells with its directory in it; the entries read
\* from it are a vector, and so are their data, their extra fields, whose
\* lengths are of sixteen bits, and the comment.
ASSUME ExistingAssumption ==
    \A d \in Existing :
        LET a == OpenArchive(d)
        IN  /\ IsSeq(d) /\ IsSeq(a.files) /\ IsSeq(a.comment)
            /\ \A i \in 1..Len(a.files) :
                 LET f == a.files[i]
                 IN  /\ IsEntry(f) /\ IsSeq(ReadEntry(d, f).data)
                     /\ IsSeq(CustomExtra(f.extra_field))
                     /\ Len(f.extra_field) <= ZIP64_ENTRY_THR
            /\ a.ok => a.start \in 0..Len(d)

\* The last entry of an existing archive lies in front of the directory.
\* new_append does not check it.
ASSUME ExistingLayout ==
    \A d \in Existing :
        LET a == OpenArchive(d)
        IN  a.ok /\ a.files # << >>
              => a.files[Len(a.files)].header_start <= a.start

\* What must be known of an entry to know its local header.
HeaderKnown(f) ==
    /\ IsEntry(f)
    /\ {"large_file", "crc32", "compressed_size", "uncompressed_size"}
         \subseteq DOMAIN f

HeaderEnd(f) == f.header_start + HEADER_LEN + ZeroOrOne(f.large_file)

\* The checksum and the sizes of a local header on disk d are those of f.
HeaderAgrees(d, f) ==
    /\ At(d, f.header_start + CRC32_OFFSET) = <<"crc", f.crc32>>
    /\ IF f.large_file
       THEN At(d, f.header_start + ZIP64_OFFSET) = LocalZip64(f)
       ELSE At(d, f.header_start + SIZES_OFFSET) = LocalSizes(f)

\* The local headers of an existing archive agree with its directory, and lie
\* in front of the last one and of the directory.  new_append does not check
\* it; LocalHeadersAgree needs it.
ASSUME ExistingHeaders ==
    \A d \in Existing :
        LET a == OpenArchive(d)
            n == Len(a.files)
        IN  a.ok => \A i \in 1..n :
              /\ HeaderKnown(a.files[i]) /\ HeaderAgrees(d, a.files[i])
              /\ HeaderEnd(a.files[i])
                   <= IF i < n THEN a.files[n].header_start ELSE a.start

\* The header and data of f end at `end', as its local header has it.
EntryEndsBy(d, f, end) ==
    LET length == At(d, f.header_start + EXTRA_LEN_OFFSET)[2]
    IN  /\ length \in Nat /\ f.compressed_size \in Nat
        /\ f.header_start + HEADER_LEN + length + f.compressed_size <= end

\* The entries of an existing archive read well, none that is encrypted by way
\* of a data descriptor, whose flag is not written back, and they lie in front
\* of the last one and of the directory.  new_append does not check it;
\* RoundTrip needs it.
ASSUME ExistingEntries ==
    \A d \in Existing :
        LET a == OpenArchive(d)
            n == Len(a.files)
        IN  a.ok => \A i \in 1..n :
              LET f == a.files[i]
              IN  /\ ReadEntry(d, f).ok
                  /\ f.encrypted => ~f.using_data_descriptor
                  /\ EntryEndsBy(d, f, IF i < n THEN a.files[n].header_start
                                                ELSE a.start)

New == InitWriter(<< >>, 0, << >>, << >>, FALSE)

\* A slip: new_append leaves writing_raw false, so that the next finish_file
\* updates the last entry as if it had been written here.
NewAppendNotRaw ==
    \E d \in Existing :
        LET a == OpenArchive(d)
        IN  a.ok /\ InitWriter(d, a.start, a.files, a.comment, FALSE)

\* new_append: the entries are read, and writing resumes over the directory.
NewAppend ==
    \E d \in Existing :
        LET a == OpenArchive(d)
        IN  a.ok /\ InitWriter(d, a.start, a.files, a.comment, TRUE)

Init == New \/ NewAppend

Next ==
    \/ StartFile \/ StartFileWithExtraData \/ StartFileAligned
    \/ AddDirectory \/ AddSymlink \/ RawCopyFile
    \/ EndExtraData \/ EndLocalStartCentralExtraData
    \/ Finish \/ SetComment \/ Drop
    \/ Write \/ WriteRefused \/ Flush
    \/ ExtraRefused \/ EndCentralExtra \/ EndLocalExtraPanics \/ EndLocalExtra
    \/ SwitchStored \/ FinishCrypto \/ KeepHeader \/ UpdateHeader
    \/ StartEntry \/ CopyRaw \/ WriteTarget
    \/ WriteCentralHeader \/ WriteEndRecords

Spec == Init /\ [][Next]_vars

-----------------------------------------------------------------------------
(***************************************************************************)
(* Properties.                                                             *)
(***************************************************************************)
Steps == ExtraSteps \cup {"idle", "switch_stored", "finish_crypto",
           "update_header", "local_header", "copy", "target", "central"}

EntryOps == {"start_file", "start_file_with_extra_data", "start_file_aligned",
             "add_directory", "add_symlink", "raw_copy_file"}

Ops == EntryOps \cup EndOps
         \cup {"none", "end_extra_data", "end_local_start_central"}

IsWriter(w) ==
    /\ {"method", "encrypted"} \subseteq DOMAIN w
    /\ w.method \in Encoders \cup {"stored", "closed"}
    /\ w.encrypted \in BOOLEAN

IsCall(c) ==
    /\ {"op", "options"} \subseteq DOMAIN c
    /\ c.op \in Ops
    /\ c.options.encrypted \in BOOLEAN

\* The control state has the types of the Rust fields and stays in bounds.
TypeOK ==
    /\ IsWriter(inner)
    /\ IsSeq(files)
    /\ writing_to_file \in BOOLEAN /\ writing_to_extra_field \in BOOLEAN
    /\ writing_to_central_extra_field_only \in BOOLEAN
    /\ writing_raw \in BOOLEAN
    /\ pc \in Steps /\ IsCall(call)
    /\ result \in {"none", "ok", "err", "panic"}
    /\ status \in {"live", "finished", "dropped", "aborted"}
    /\ faults \in 0..MaxFaults /\ writes \in 0..MaxWrites

\* finish() or the drop of a live writer has just succeeded.
Committed ==
    /\ pc = "idle" /\ result = "ok"
    /\ \/ status = "finished" /\ call.op = "finish"
       \/ status = "dropped"

PromisedContents ==
    [i \in 1..Len(promised) |->
        [name |-> promised[i].name, extra |-> promised[i].extra,
         read |-> [ok |-> TRUE, data |-> promised[i].data]]]

\* The archive opens and reads back, through the central directory, as the
\* names, extra fields, bytes and comment that were accepted.
ReadsBack ==
    /\ OpenArchive(disk).ok
    /\ Contents(disk) = PromisedContents
    /\ OpenArchive(disk).comment = comment

AmbiguousEntry ==
    \E i \in 1..Len(files) :
        Ambiguous(files[i].uncompressed_size, files[i].compressed_size,
                  files[i].header_start, files[i].extra_field)

\* The last entry has not outgrown the options it was started with.
SizesFit == files # << >> => ~TooLarge(LastFile)

\* The same without exceptions: whenever finish or drop succeeds, after
\* whatever failures and retries, the archive reads back.
FinishedReadsBack == Committed => ReadsBack

\* The sizes and the offset of an entry are numbers that a reader can tell
\* apart from the ZIP64 markers.
Legible(f) ==
    /\ f.uncompressed_size \in Nat /\ f.compressed_size \in Nat
    /\ f.header_start \in Nat
    /\ ~Ambiguous(f.uncompressed_size, f.compressed_size, f.header_start,
                  f.extra_field)

\* Its extra field fits the central header, no record of it starts like a ZIP64
\* locator, and a ZIP64 record that an existing entry brings along has no
\* marker left to replace.
ExtraReadable(f) ==
    /\ \A j \in 1..Len(f.extra_field) :
         /\ f.extra_field[j][1] # "loc64"
         /\ f.extra_field[j][1] = "zip64" =>
              ZIP64_BYTES_THR \notin {f.uncompressed_size, f.compressed_size,
                                      f.header_start}
    /\ Len(CentralExtra(f)) <= ZIP64_ENTRY_THR

\* What a reader cannot take for something else: the file ends where the writer
\* stands, the comment's length fits sixteen bits and no cell of it passes for
\* an end record, and an archive of no entries does not stand behind what
\* passes for its ZIP64 locator.
DirectoryReadable ==
    /\ Len(disk) = pos
    /\ Len(comment) <= ZIP64_ENTRY_THR
    /\ \A j \in 1..Len(comment) : comment[j][1] # "end"
    /\ \A i \in 1..Len(files) : Legible(files[i]) /\ ExtraReadable(files[i])
    /\ files = << >> =>
         LET p == pos - 2 - Len(comment)
         IN  At(disk, p)[1] # "loc64" \/ p > ZIP64_BYTES_THR + 1

\* The entry f as the directory of an archive describes it.
RecordedAs(f, g) ==
    /\ g.name = f.name /\ g.encrypted = f.encrypted /\ g.method = f.method
    /\ ~g.using_data_descriptor
    /\ g.crc32 = f.crc32 /\ g.compressed_size = f.compressed_size
    /\ g.uncompressed_size = f.uncompressed_size
    /\ g.header_start = f.header_start
    /\ g.extra_field = CentralExtra(f)

\* Whatever failed before, a torn directory of an earlier finish included: when
\* finish or drop succeeds, ZipArchive::new finds this directory (not an older
\* one), with the entries, their order, sizes and offsets as the writer has
\* them, and the comment.
DirectoryReads ==
    Committed /\ DirectoryReadable =>
        LET a == OpenArchive(disk)
        IN  /\ a.ok /\ a.comment = comment /\ Len(a.files) = Len(files)
            /\ \A i \in 1..Len(files) : RecordedAs(files[i], a.files[i])

\* The same archive read as a stream: every local header carries the sizes
\* and checksum of its central header.
LocalHeadersAgree ==
    Committed /\ faults = 0 =>
        \A i \in 1..Len(files) : HeaderAgrees(disk, files[i])

\* No call panics: get_plain (1027) is only reached with a plain writer, and
\* no size computation leaves its integer type.
NoPanic == result # "panic"

\* Dropping the writer, at the latest while a panic unwinds, never panics in
\* its turn, which would abort the process (88: "may silently fail").
NoAbort == status # "aborted"

SafeAt(step, w) ==
    /\ step \in {"update_header", "local_header", "central"} => IsPlain(w)
    /\ step = "finish_crypto" => w.method = "stored" /\ w.encrypted
    /\ step \in {"copy", "target"} => w.method = "stored"

\* The get_plain() of finish_file, start_entry and finalize (438, 372, 831),
\* finish_file's unreachable!() (436) and the unwrap() of the sink (415, 786)
\* never panic, and data is only copied into an open writer: whatever failed
\* before, a call that gets that far has a plain Storer in its hands.
GetPlainSafe == SafeAt(pc, inner)

\* The unwraps of files.last_mut() in write (240, 246), in end_extra_data
\* (622) and in end_local_start_central_extra_data (608) always find a file,
\* and central-only mode is entered only while extra data is written.
LastFileExists ==
    /\ writing_to_file \/ writing_to_extra_field => files # << >>
    /\ writing_to_central_extra_field_only => writing_to_extra_field

\* Whatever fails, and whatever the caller retries, nothing in front of the
\* last entry's local header is ever written again.
SealedBytesUntouched ==
    [][files # << >> =>
         LET sealed == files[Len(files)].header_start
         IN  Region(disk', 0, sealed) = Region(disk, 0, sealed)]_vars

\* A writer that lost its sink, or handed it back, never writes to it again
\* and never reports a success of finish.
ClosedIsFinal ==
    [][IsClosed(inner) => /\ UNCHANGED <<sinkVars, inner>>
                          /\ status' \in {status, "dropped"}]_vars

\* start_file_aligned's own assertion (515), and its promise: when it returns,
\* the data of the new entry starts at a multiple of the alignment, and that is
\* where the sink stands.
DataAligned ==
    [][pc # "idle" /\ pc' = "idle" /\ result' = "ok"
         /\ call.op = "start_file_aligned" =>
           LET f == files'[Len(files')]
           IN  /\ pos' = f.data_start
               /\ call.align > 1 => f.data_start % call.align = 0]_vars
=============================================================================

---------------------------- MODULE MCZipWriter ----------------------------
(***************************************************************************)
(* Small instances of ZipWriter.                                           *)
(***************************************************************************)
EXTENDS ZipWriter

Cell(b) == <<"byte", b>>

MCBytes == {Cell("a")}
MCExtraCells == {<<"extra", "x">>}
MCBadExtraCells == {<<"extra", "x">>, <<"extra", "torn">>, <<"extra", "rest">>,
                    <<"extra", "reserved">>}

Option(m, l, large, enc) ==
    [method |-> m, level |-> l, large_file |-> large, encrypted |-> enc]

OptStored   == Option("stored", "none", FALSE, FALSE)
OptLarge    == Option("stored", "none", TRUE, FALSE)
OptDeflated == Option("deflated", "valid", FALSE, FALSE)
OptCrypt    == Option("stored", "none", FALSE, TRUE)
OptCryptZ   == Option("deflated", "none", FALSE, TRUE)
OptBadLevel == Option("deflated", "invalid", FALSE, FALSE)
OptUnsupported == Option("unsupported", "none", FALSE, FALSE)

EntryOptions == {OptStored, OptLarge, OptDeflated, OptCrypt, OptCryptZ,
                 OptBadLevel, OptUnsupported}
ExtraOptions == {OptStored, OptDeflated}
LimitOptions == {OptStored, OptLarge, OptDeflated}
FaultOptions == {OptLarge, OptDeflated, OptCrypt, OptUnsupported}
CryptOptions == {OptCrypt}
StoredOptionsOnly == {OptStored}

(***************************************************************************)
(* Entries of other archives, as by_index_raw hands them to raw_copy_file. *)
(***************************************************************************)
SourceOf(m, cells, plain) ==
    [name |-> "src", method |-> m, crc32 |-> plain,
     compressed_size |-> Len(cells), uncompressed_size |-> Len(plain),
     cells |-> cells, plain |-> plain]

AA == <<Cell("a"), Cell("a")>>
SrcStored   == SourceOf("stored", AA, AA)
SrcDeflated == SourceOf("deflated",
                 << <<"z", "deflated", AA>>, <<"zend", "deflated">> >>, AA)

NoSources == {}
RawSources == {SrcStored, SrcDeflated}

NoComments == {<< >>}
SomeComments == {<< >>, << <<"comment", "c">> >>}

\* With a limit of one cell the last is too long for the end record.
LongComments == SomeComments \cup {<< <<"comment", "c">>, <<"comment", "c">> >>}

(***************************************************************************)
(* Archives other programs wrote, for new_append.                          *)
(***************************************************************************)
\* One stored entry of one byte behind `stub' cells of other data, with a
\* file comment of n cells and an archive comment.
ForeignArchive(stub, n, trailer) ==
    LET f == [name |-> "old", encrypted |-> FALSE, method |-> "stored",
              crc32 |-> <<Cell("a")>>, compressed_size |-> 1,
              uncompressed_size |-> 1, extra_field |-> << >>,
              large_file |-> FALSE, header_start |-> 0]
        h == CentralHeader(f)[1][2]
    IN  [i \in 1..stub |-> <<"stub">>]
        \o LocalHeader(f) \o <<Cell("a")>>
        \o << <<"central", [h EXCEPT !.comment_len = n]>> >>
        \o [i \in 1..n |-> <<"filecomment">>]
        \o EndRecords(1, 5, 1 + n, trailer)

NoDisks == {}
PlainDisks == {ForeignArchive(0, 0, << >>), ForeignArchive(2, 0, << >>),
               ForeignArchive(0, 0, << <<"comment", "c">> >>)}
CommentedDisks == {ForeignArchive(0, 6, << >>)}
=============================================================================

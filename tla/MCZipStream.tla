---------------------------- MODULE MCZipStream ----------------------------
(***************************************************************************)
(* Streams for ZipStream: archives laid out as the writer lays them out,   *)
(* and what can become of them.                                            *)
(***************************************************************************)
EXTENDS ZipStream

Cell(b) == <<"byte", b>>
A == Cell("a")
B == Cell("b")

\* An entry and its data; `body' is what is stored for the bytes `plain'.
Entry(n, m, large, body, plain) ==
    [name |-> n, method |-> m, large_file |-> large, crc32 |-> plain,
     compressed_size |-> Len(body), uncompressed_size |-> Len(plain),
     encrypted |-> FALSE, using_data_descriptor |-> FALSE,
     extra_field |-> << >>, body |-> body]

Stored   == Entry("s", "stored", FALSE, <<A, B>>, <<A, B>>)
Large    == Entry("l", "stored", TRUE, <<B>>, <<B>>)
Folder   == Entry("d/", "stored", FALSE, << >>, << >>)
Deflated == Entry("z", "deflated", FALSE,
              << <<"z", "deflated", <<A>>>>, <<"z", "deflated", <<A, B>>>>,
                 <<"zend", "deflated">> >>, <<A, A, B>>)
Bzipped  == Entry("y", "bzip2", FALSE,
              << <<"z", "bzip2", <<B>>>>, <<"zend", "bzip2">> >>, <<B>>)
\* Bytes behind the end of the compressed data, within the entry.
Padded   == [Deflated EXCEPT !.body = Append(@, A), !.compressed_size = 4]

\* Other programs set the data descriptor flag; this crate's writer does not.
Local(e) ==
    [LocalHeader(e) EXCEPT ![1][5] = e.using_data_descriptor]
        \o e.extra_field \o e.body

\* The archive of entries e (a sequence), with its directory.
ArchiveOf(e) ==
    LET data  == FlattenSeq([i \in 1..Len(e) |-> Local(e[i])])
        start == [i \in 1..Len(e) |->
                    Len(FlattenSeq([j \in 1..i - 1 |-> Local(e[j])]))]
        dir   == FlattenSeq([i \in 1..Len(e) |->
                    CentralHeader([header_start |-> start[i]] @@ e[i])])
    IN  data \o dir \o EndRecords(Len(e), Len(data), Len(dir), << >>)

Good == {ArchiveOf(<<Stored, Deflated>>), ArchiveOf(<<Deflated, Stored>>),
         ArchiveOf(<<Large, Folder>>), ArchiveOf(<<Padded, Large>>),
         ArchiveOf(<<Folder, Bzipped>>), ArchiveOf(<< >>)}

WithRecord(e, m, record) ==
    [e EXCEPT !.method = m, !.extra_field = <<record>>]

\* Files the stream reader refuses, behind one it accepts.
Refused == {ArchiveOf(<<Stored, e>>) : e \in {
              [Stored EXCEPT !.encrypted = TRUE],
              [Stored EXCEPT !.using_data_descriptor = TRUE],
              [Stored EXCEPT !.method = "unsupported"],
              WithRecord(Stored, "aes", <<"aes", "ae3", "stored">>)}}

\* Files that are not encrypted and yet have a record, or the method, of AES.
NotEncrypted == {ArchiveOf(<<e, Stored>>) : e \in {
                   WithRecord(Deflated, "aes", <<"aes", "ae2", "deflated">>),
                   WithRecord(Stored, "deflated", <<"aes", "ae1", "aes">>)}}

\* A wrong checksum, a damaged block, data cut short inside the entry.
Damaged == {ArchiveOf(<<e, Folder>>) : e \in {
              [Stored EXCEPT !.crc32 = <<A>>],
              [Deflated EXCEPT !.body[2] = B],
              [Deflated EXCEPT !.body = SubSeq(@, 1, 2), !.compressed_size = 2],
              [Bzipped EXCEPT !.body = SubSeq(@, 1, 1), !.compressed_size = 1],
              [Stored EXCEPT !.compressed_size = 1, !.body = <<A>>]}}

Truncated ==
    {SubSeq(ArchiveOf(<<Stored, Deflated>>), 1, n) : n \in {0, 2, 5, 9, 12}}

MCStreams == Good \cup Refused \cup NotEncrypted \cup Damaged \cup Truncated
GoodStreams == Good
=============================================================================

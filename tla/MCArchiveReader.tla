-------------------------- MODULE MCArchiveReader --------------------------
(***************************************************************************)
(* Archives for ArchiveReader: entries of every kind the crate reads, and  *)
(* entries that are damaged, cut short or put together in ways no writer   *)
(* would.                                                                  *)
(***************************************************************************)
EXTENDS ArchiveReader

Cell(b) == <<"byte", b>>
A == Cell("a")
B == Cell("b")

Symmetry == Permutations(Clones)

\* An entry whose data `body' holds the bytes `plain'; `extra' is its extra
\* field, of which `more' cells are in the local header only.
Item(n, m, body, plain) ==
    [name |-> n, method |-> m, large_file |-> FALSE, crc32 |-> plain,
     compressed_size |-> Len(body), uncompressed_size |-> Len(plain),
     encrypted |-> FALSE, using_data_descriptor |-> FALSE,
     extra_field |-> << >>, more |-> << >>, body |-> body]

Deflate(blocks) ==
    [i \in 1..Len(blocks) |-> <<"z", "deflated", blocks[i]>>]
        \o << <<"zend", "deflated">> >>

Stored   == [Item("n", "stored", <<A, B>>, <<A, B>>)
               EXCEPT !.more = << <<"extra", "x">> >>]
Deflated == Item("n", "deflated", Deflate(<<<<A>>, <<A, B>>>>), <<A, A, B>>)

\* The data of e behind a ZipCrypto header.
Crypt(e) ==
    [e EXCEPT !.encrypted = TRUE, !.compressed_size = @ + 1,
              !.body = << <<"crypthdr", e.crc32>> >>
                         \o [i \in 1..Len(@) |-> <<"enc", @[i]>>]]

\* The data of e encrypted with AES, version v; AE-2 leaves the checksum 0.
Aes(e, v) ==
    LET sealed == [i \in 1..Len(e.body) |-> <<"sealed", KeyAt(i), e.body[i]>>]
    IN  [e EXCEPT !.encrypted = TRUE, !.method = "aes",
                  !.extra_field = << <<"aes", v, e.method>> >>,
                  !.crc32 = IF v = "ae2" THEN << <<"zero">> >> ELSE @,
                  !.compressed_size = @ + AES_OVERHEAD,
                  !.body = << <<"salt">>, <<"pwverify">> >> \o sealed
                             \o << <<"mac", sealed>> >>]

Three == Item("n", "stored", <<A, B, A>>, <<A, B, A>>)

ArchiveOf(es) ==
    LET local(e) == LocalHeader([e EXCEPT !.extra_field = @ \o e.more])
                      \o e.extra_field \o e.more \o e.body
        data  == FlattenSeq([i \in 1..Len(es) |-> local(es[i])])
        start == [i \in 1..Len(es) |->
                    Len(FlattenSeq([j \in 1..i - 1 |-> local(es[j])]))]
        dir   == FlattenSeq([i \in 1..Len(es) |->
                    CentralHeader([header_start |-> start[i]] @@ es[i])])
    IN  data \o dir \o EndRecords(Len(es), Len(data), Len(dir), << >>)

Sealed == Aes(Three, "ae2")
SealedZ == Aes(Deflated, "ae2")

Good == {ArchiveOf(<<e>>) : e \in {Crypt(Three), Crypt(Deflated),
            Aes(Three, "ae1"), Sealed, SealedZ}}
          \cup {ArchiveOf(<<Stored, Deflated>>)}

\* A wrong checksum, damaged or lost cells, bytes behind the compressed data,
\* a size that reaches into the directory and beyond.
Bad == {ArchiveOf(<<e>>) : e \in {
          [Stored EXCEPT !.crc32 = <<A>>],
          [Deflated EXCEPT !.body[2] = B],
          [Crypt(Three) EXCEPT !.body[3] = A],
          [Crypt(Three) EXCEPT !.body[1] = <<"crypthdr", <<B>>>>],
          [Sealed EXCEPT !.body[4] = A],
          [Aes(Three, "ae1") EXCEPT !.body[6] = A],
          [SealedZ EXCEPT !.body[4] = B],
          Aes([Deflated EXCEPT !.body = Append(@, B), !.compressed_size = 4], "ae2"),
          [Aes(Three, "ae1") EXCEPT !.compressed_size = 13],
          [Sealed EXCEPT !.compressed_size = 13]}}

\* No encryption flag, too short, "AES" within AES, a method nobody can read.
Odd == {ArchiveOf(<<e>>) : e \in {
          [Sealed EXCEPT !.encrypted = FALSE],
          [Sealed EXCEPT !.compressed_size = 2],
          [Sealed EXCEPT !.extra_field = << <<"aes", "ae1", "aes">> >>],
          [Stored EXCEPT !.method = "unsupported"]}}

MCDisks == Good \cup Bad \cup Odd
CryptDisks == {ArchiveOf(<<Crypt(Three)>>)}
=============================================================================

------------------------------ MODULE Decoder ------------------------------
(***************************************************************************)
(* The decoders of flate2, bzip2 and zstd as the readers see them: a       *)
(* source of blocks that may hand out any part of what they have been fed, *)
(* that stop at the end marker of their format, and that find out about    *)
(* damaged data, or about data without its end.                            *)
(***************************************************************************)
EXTENDS ZipFormat

CONSTANTS
    Decoders,       \* compression methods the crate can read, "stored" apart
    Tolerant        \* those that accept data without its end marker

\* The crate knows "aes" as a method but has no reader for it.
ASSUME DecodersAssumption == Decoders \cap {"stored", "aes", "unsupported"} = {}

DecoderEnd(f, cells) == SelectInSeq(cells, LAMBDA c : c = <<"zend", f.method>>)

IsBlock(f, cell) == cell[1] = "z" /\ cell[2] = f.method

\* The length of the part of `cells' in front of the end marker and of what
\* cannot be decoded.
Decodable(f, cells) ==
    LET bad == SelectInSeq(cells, LAMBDA c : ~IsBlock(f, c))
    IN  IF bad = 0 THEN Len(cells) ELSE bad - 1

Decoded(f, cells) ==
    IF f.method = "stored" THEN cells
    ELSE FlattenSeq([i \in 1..Decodable(f, cells) |-> cells[i][3]])

\* The decoder has met something that is neither data nor its end.
Corrupt(f, cells) ==
    /\ f.method # "stored" /\ Decodable(f, cells) < Len(cells)
    /\ Decodable(f, cells) + 1 # DecoderEnd(f, cells)

\* The data ends in front of its end marker, which some decoders leave to the
\* checksum to find out.
CutOff(f, cells) ==
    f.method \notin Tolerant \cup {"stored"} /\ DecoderEnd(f, cells) = 0
=============================================================================

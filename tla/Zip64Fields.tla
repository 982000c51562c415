---------------------------- MODULE Zip64Fields ----------------------------
(***************************************************************************)
(* The size and offset fields of a central directory header.  A header has *)
(* 32 bits for each of uncompressed size, compressed size and header       *)
(* offset; values that do not fit go to a ZIP64 extra record, in this      *)
(* order, and only those that do not fit.  write.rs encodes, read.rs       *)
(* decodes; the two must agree on which values are in the record.          *)
(***************************************************************************)
EXTENDS Integers, Sequences

CONSTANT ZIP64_BYTES_THR    \* u32::MAX in the code: the largest 32-bit value

ASSUME BytesThrAssumption == ZIP64_BYTES_THR \in Nat

(***************************************************************************)
(* `.min(ZIP64_BYTES_THR) as u32': what the 32-bit field holds.            *)
(***************************************************************************)
Clip32(v) == IF v > ZIP64_BYTES_THR THEN ZIP64_BYTES_THR ELSE v

(***************************************************************************)
(* The payload of the ZIP64 record write_central_zip64_extra_field         *)
(* produces: the values above the threshold, in their fixed order.         *)
(***************************************************************************)
IfAbove(v) == IF v > ZIP64_BYTES_THR THEN <<v>> ELSE << >>

\* A slip: the header offset first.
Zip64PayloadOffsetFirst(u, c, h) == IfAbove(h) \o IfAbove(u) \o IfAbove(c)

Zip64Payload(u, c, h) == IfAbove(u) \o IfAbove(c) \o IfAbove(h)

(***************************************************************************)
(* The 0x0001 arm of parse_extra_field.  A field equal to the threshold is *)
(* replaced by the next 64-bit number.  The numbers are read from a cursor *)
(* over the whole extra field, which the length of the record does not     *)
(* bound: those of the record come first, then what lies `behind' it, read *)
(* as numbers.  Only a read past the end of the extra field fails; the     *)
(* caller ignores that error, which leaves this field and the later ones   *)
(* as they were.  `next' is the index of the next unread number, `ok'      *)
(* whether no read has failed.                                             *)
(***************************************************************************)
Take64(st, v, numbers) ==
    IF ~st.ok \/ v # ZIP64_BYTES_THR THEN [st EXCEPT !.val = v]
    ELSE IF st.next > Len(numbers) THEN [st EXCEPT !.val = v, !.ok = FALSE]
    ELSE [ok |-> TRUE, next |-> st.next + 1, val |-> numbers[st.next]]

\* The three fields, and how many numbers behind the record were read for them.
ParseZip64(u32, c32, h32, payload, behind) ==
    LET numbers == payload \o behind
        u == Take64([ok |-> TRUE, next |-> 1, val |-> 0], u32, numbers)
        c == Take64(u, c32, numbers)
        h == Take64(c, h32, numbers)
    IN  [uncompressed_size |-> u.val, compressed_size |-> c.val,
         header_start |-> h.val,
         beyond |-> IF h.next > Len(payload) + 1
                    THEN h.next - (Len(payload) + 1) ELSE 0]

(***************************************************************************)
(* What a reader recovers from the fields a writer produced, when what     *)
(* follows the ZIP64 record in the extra field reads as the numbers        *)
(* `behind'.  Without a record the 32-bit fields stay as they are.         *)
(***************************************************************************)
ReadBackFields(u, c, h, behind) ==
    IF Zip64Payload(u, c, h) = << >>
    THEN [uncompressed_size |-> Clip32(u), compressed_size |-> Clip32(c),
          header_start |-> Clip32(h), beyond |-> 0]
    ELSE ParseZip64(Clip32(u), Clip32(c), Clip32(h), Zip64Payload(u, c, h),
                    behind)

\* The values for which the writer's `>' and the reader's `==' disagree: one
\* is exactly the threshold, so that it is not in the record, and there is
\* something to read for it: a later value, or what follows the record.
Ambiguous(u, c, h, behind) ==
    \/ u = ZIP64_BYTES_THR /\ (c > ZIP64_BYTES_THR \/ h > ZIP64_BYTES_THR)
    \/ c = ZIP64_BYTES_THR /\ h > ZIP64_BYTES_THR
    \/ /\ ZIP64_BYTES_THR \in {u, c, h}
       /\ Zip64Payload(u, c, h) # << >> /\ behind # << >>
=============================================================================

--------------------------- MODULE EntryMetadata ---------------------------
(***************************************************************************)
(* What src/types.rs derives from the fields of one entry: its time, its   *)
(* path and its unix mode.                                                 *)
(*                                                                         *)
(* A name is what std::path makes of it, its components: "/" for the root  *)
(* of an absolute one, ".." for the parent, "." for a leading dot, "NUL"   *)
(* for a component with a zero byte, and any other string for itself;      *)
(* `slash' says whether the name ends with one.                            *)
(***************************************************************************)
EXTENDS Integers, SequencesExt

-----------------------------------------------------------------------------
(***************************************************************************)
(* DateTime.  timepart and datepart put fields side by side in sixteen     *)
(* bits, so that `|' is addition and a mask and a shift are % and \div.    *)
(***************************************************************************)
U16_MAX == 65535
U16 == 0..U16_MAX

\* What the private fields of a DateTime can be, whoever made it.
DateTime ==
    [year : 1980..2107, month : 0..15, day : 0..31,
     hour : 0..31, minute : 0..63, second : 0..63]

FromMsdos(datepart, timepart) ==
    [year   |-> datepart \div 512 + 1980,
     month  |-> (datepart \div 32) % 16,
     day    |-> datepart % 32,
     hour   |-> timepart \div 2048,
     minute |-> (timepart \div 32) % 64,
     second |-> 2 * (timepart % 32)]

InMsdosRange(d) ==
    /\ d.year \in 1980..2107 /\ d.month \in 1..12 /\ d.day \in 1..31
    /\ d.hour <= 23 /\ d.minute <= 59 /\ d.second <= 60

TimePart(d) == d.second \div 2 + 32 * d.minute + 2048 * d.hour

DatePart(d) == d.day + 32 * d.month + 512 * (d.year - 1980)

-----------------------------------------------------------------------------
(***************************************************************************)
(* Names as paths.                                                         *)
(***************************************************************************)
NoDepth == -1

\* The slip: saturating_sub, which lets a name climb and come down again.
DescendSaturating(depth, component) ==
    IF depth = NoDepth \/ component = "/" THEN NoDepth
    ELSE IF component = ".." THEN (IF depth = 0 THEN 0 ELSE depth - 1)
    ELSE IF component = "." THEN depth
    ELSE depth + 1

\* One step of the loop of enclosed_name; checked_sub fails below zero.
Descend(depth, component) ==
    IF depth = NoDepth \/ component = "/" THEN NoDepth
    ELSE IF component = ".." THEN depth - 1
    ELSE IF component = "." THEN depth
    ELSE depth + 1

Depth(components) == FoldLeft(Descend, 0, components)

Enclosed(name) ==
    /\ "NUL" \notin ToSet(name.components)
    /\ Depth(name.components) # NoDepth

-----------------------------------------------------------------------------
(***************************************************************************)
(* Unix modes, as numbers: 16384 is S_IFDIR, 32768 S_IFREG.  The external  *)
(* attributes are a pair, their upper and their lower sixteen bits.        *)
(***************************************************************************)
None == -1

SystemFrom(byte) ==
    IF byte = 0 THEN "Dos" ELSE IF byte = 3 THEN "Unix" ELSE "Unknown"

DosDirectory(attributes) == (attributes[2] \div 16) % 2 = 1
DosReadOnly(attributes)  == attributes[2] % 2 = 1

\* The read-only bit masks with 0o555, which takes the file type along.
DosMode(attributes) ==
    IF DosDirectory(attributes)
    THEN IF DosReadOnly(attributes) THEN 365 ELSE 16384 + 509
    ELSE IF DosReadOnly(attributes) THEN 292 ELSE 32768 + 436

UnixMode(system, attributes) ==
    IF attributes = <<0, 0>> \/ system = "Unknown" THEN None
    ELSE IF system = "Unix" THEN attributes[1]
    ELSE DosMode(attributes)
=============================================================================

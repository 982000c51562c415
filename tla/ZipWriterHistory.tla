-------------------------- MODULE ZipWriterHistory --------------------------
(***************************************************************************)
(* ZipWriter with a record of its past: whether an entry's sizes ever      *)
(* outgrew the options it was started with.  The writer itself keeps no    *)
(* trace of that once a later finish has counted the sizes anew.           *)
(***************************************************************************)
EXTENDS ZipWriter

VARIABLE outgrown

HistoryInit == Init /\ outgrown = ~SizesFit

HistoryNext == Next /\ outgrown' = (outgrown \/ ~SizesFit')

HistorySpec == HistoryInit /\ [][HistoryNext]_<<vars, outgrown>>

\* An archive finished without a failure of the sink reads back as what the
\* successful calls were given, whatever calls were refused in between, with
\* three exceptions.  An entry whose sizes and offset a reader cannot tell
\* apart from a ZIP64 marker (Ambiguous) is left to FinishedReadsBack.  So is
\* a comment whose length does not fit sixteen bits (spec.rs 105).  And once
\* an entry has outgrown its options, which a finish refuses for (1143) while
\* the position stands inside the header it has patched, writes from there go
\* over the header up to the start of the data, and a second finish takes the
\* distance for the size and succeeds.
RoundTrip ==
    Committed /\ faults = 0 /\ ~AmbiguousEntry /\ ~outgrown
        /\ Len(comment) <= ZIP64_ENTRY_THR
      => ReadsBack
=============================================================================

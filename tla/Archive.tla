------------------------------ MODULE Archive ------------------------------
(***************************************************************************)
(* What zip::ZipWriter promises, without headers, offsets or a sink: a     *)
(* list of entries that grows at its end, of which only the last one can   *)
(* still be written to, and that becomes an archive in one step.           *)
(***************************************************************************)
EXTENDS SequencesExt

VARIABLES
    entries,    \* the entries accepted: [name, extra, data]
    comment,    \* the archive comment as it was last set
    archive     \* what a reader finds at the sink

vars == <<entries, comment, archive>>

Nothing == [ok |-> FALSE, entries |-> << >>, comment |-> << >>]

Init == archive = Nothing

Open == archive = Nothing

\* set_comment is possible at any time; after finish it has no effect.
SetComment == UNCHANGED <<entries, archive>>

AddEntry ==
    /\ Open
    /\ Len(entries') = Len(entries) + 1
    /\ Front(entries') = entries
    /\ UNCHANGED <<comment, archive>>

\* The last entry alone, and of it only what the caller still writes: more
\* data, more extra data, or a new extra field instead of the local one.
ExtendEntry ==
    /\ Open /\ entries # << >> /\ Len(entries') = Len(entries)
    /\ Front(entries') = Front(entries)
    /\ LET old == Last(entries)
           new == Last(entries')
       IN  /\ new.name = old.name
           /\ \/ IsPrefix(old.data, new.data) /\ new.extra = old.extra
              \/ IsPrefix(old.extra, new.extra) /\ new.data = old.data
              \/ new = [old EXCEPT !.extra = << >>]
    /\ UNCHANGED <<comment, archive>>

Publish ==
    /\ Open
    /\ archive' = [ok |-> TRUE, entries |-> entries, comment |-> comment]
    /\ UNCHANGED <<entries, comment>>

Next == SetComment \/ AddEntry \/ ExtendEntry \/ Publish

Spec == Init /\ [][Next]_vars
=============================================================================

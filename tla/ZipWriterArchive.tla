-------------------------- MODULE ZipWriterArchive --------------------------
(***************************************************************************)
(* ZipWriter implements Archive: however many steps a call takes, through  *)
(* whatever half-written headers and directories, nothing but the last     *)
(* entry changes, and what a reader finds appears in one step and stays.   *)
(*                                                                         *)
(* ZipWriter's steps are observed by a ZipArchive that opens the sink      *)
(* after each of them.                                                     *)
(***************************************************************************)
EXTENDS ZipWriterHistory

VARIABLE archive    \* what the observer finds, once a finish has succeeded

Abstract == INSTANCE Archive WITH entries <- promised

Unreadable == << <<"unreadable">> >>

EntriesOn(d) ==
    LET found == Contents(d)
    IN  [i \in 1..Len(found) |->
           [name |-> found[i].name, extra |-> found[i].extra,
            data |-> IF found[i].read.ok THEN found[i].read.data
                                         ELSE Unreadable]]

\* finish() or the drop of a live writer has succeeded, now or earlier.  Until
\* then the sink may hold anything, and nobody was promised anything of it.
Observed(d, s, r) ==
    IF s = "finished" \/ (s = "dropped" /\ r = "ok")
    THEN [ok |-> OpenArchive(d).ok, entries |-> EntriesOn(d),
          comment |-> OpenArchive(d).comment]
    ELSE Abstract!Nothing

ObservedInit == HistoryInit /\ archive = Observed(disk, status, result)

ObservedNext == HistoryNext /\ archive' = Observed(disk', status', result')

ObservedSpec == ObservedInit /\ [][ObservedNext]_<<vars, outgrown, archive>>

\* "Finish the last file and write all other zip-structures" (write.rs 779):
\* finish and the drop of a live writer turn what was accepted, and exactly
\* that, into an archive at one point, after which no call changes what a
\* reader finds; until then only the last entry is still written to.
ImplementsArchive == Abstract!Spec
=============================================================================

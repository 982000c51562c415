-------------------------- MODULE ZipWriter_proofs --------------------------
(***************************************************************************)
(* Invariants of ZipWriter for every value of its constants, whatever the  *)
(* sink does.  TypeOK is not inductive alone: what a step of a call does   *)
(* depends on the writer the step finds in `inner' (GetPlainSafe), and     *)
(* what write() does on there being a last file (LastFileExists); and the  *)
(* branch start_entry returns to depends on which call is under way        *)
(* (CallFits).                                                             *)
(***************************************************************************)
EXTENDS ZipWriter, Vectors_proofs

\* Which calls run which steps; and a drop leaves a closed writer alone.
FinishFileSteps ==
    {"finish_extra", "switch_stored", "finish_crypto", "update_header"}

Fits(step, op, w) ==
    /\ step \in FinishFileSteps => op \in EntryOps \cup EndOps
    /\ step = "local_header" => op \in EntryOps
    /\ step = "central" => op \in EndOps
    /\ step \in ExtraSteps /\ op = "drop" => ~IsClosed(w)

CallFits == Fits(pc, call.op, inner)

IInv == TypeOK /\ GetPlainSafe /\ LastFileExists /\ CallFits

-----------------------------------------------------------------------------
(***************************************************************************)
(* Vectors of unknown element type.                                        *)
(***************************************************************************)
\* An assignment through files.last_mut().
LEMMA SetLastIsSeq ==
    ASSUME IsSeq(files), files # << >>, NEW f
    PROVE  IsSeq(SetLastFile(f)) /\ SetLastFile(f) # << >>
<1> DEFINE T == {files[i] : i \in DOMAIN files} \cup {f}
<1>1. files \in Seq(T) /\ f \in T
  BY DEF IsSeq
<1> HIDE DEF T
<1>2. Len(files) \in 1..Len(files)
  BY <1>1
<1>3. SetLastFile(f) \in Seq(T) /\ Len(SetLastFile(f)) = Len(files)
  BY <1>1, <1>2, ExceptSeq DEF SetLastFile
<1>4. Len(files) # 0
  BY <1>2
<1> QED
  BY <1>3, <1>4, SeqIsSeq

-----------------------------------------------------------------------------
(***************************************************************************)
(* Writers and calls.                                                      *)
(***************************************************************************)
\* The writers of new() and of a lost sink are writers; they are told apart.
LEMMA PlainWriters ==
    /\ IsWriter(Closed) /\ IsClosed(Closed)
    /\ IsWriter(Plain) /\ IsPlain(Plain)
BY DEF Closed, Plain, IsWriter, IsClosed, IsPlain

\* The call of a writer nothing was asked of yet is a call.
LEMMA NoCallIsCall ==
    /\ IsCall(NoCall) /\ NoCall.op = "none"
BY DEF NoCall, StoredOptions, IsCall, Ops

\* switch_to yields a writer of a known method, and keeps the encryption.
LEMMA SwitchToIsWriter ==
    ASSUME NEW w, IsWriter(w), NEW method, NEW level
    PROVE  IsWriter(SwitchTo(w, method, level))
BY DEF SwitchTo, Closed, IsWriter

\* What finish_file does next suits the writer it finds.
LEMMA AfterExtraSafe ==
    ASSUME NEW w, IsWriter(w)
    PROVE  /\ AfterExtra(w) \in (Steps \cap FinishFileSteps) \ ExtraSteps
           /\ SafeAt(AfterExtra(w), w)
BY DEF AfterExtra, Steps, FinishFileSteps, ExtraSteps, SafeAt, IsPlain, IsWriter

\* Every call that begins with finish_file begins in a step that suits inner.
LEMMA FinishFileSafe ==
    ASSUME IsWriter(inner)
    PROVE  /\ FinishFile \in Steps \cap FinishFileSteps
           /\ SafeAt(FinishFile, inner)
           /\ \A op \in EntryOps \cup EndOps :
                (op = "drop" => ~IsClosed(inner)) => Fits(FinishFile, op, inner)
<1>1. /\ FinishFile \in Steps \cap FinishFileSteps
      /\ SafeAt(FinishFile, inner)
  BY AfterExtraSafe DEF FinishFile, Steps, ExtraSteps, FinishFileSteps, SafeAt
<1>2. \A op \in EntryOps \cup EndOps :
        (op = "drop" => ~IsClosed(inner)) => Fits(FinishFile, op, inner)
  BY <1>1 DEF Fits, FinishFileSteps, ExtraSteps
<1> QED
  BY <1>1, <1>2

\* A failure of the sink keeps the count of failures in its bound.
LEMMA FaultCounted ==
    ASSUME faults \in 0..MaxFaults,
           NEW trace, Fails(trace) \/ \E i \in Nat : FailsAt(trace, i)
    PROVE  faults' \in 0..MaxFaults
BY BoundsAssumption DEF Fails, FailsAt

\* A failed or finished call leaves nothing to do.
LEMMA IdleSafe ==
    ASSUME NEW w
    PROVE  "idle" \in Steps /\ SafeAt("idle", w) /\ \A op : Fits("idle", op, w)
BY DEF Steps, FinishFileSteps, ExtraSteps, SafeAt, Fits

-----------------------------------------------------------------------------
(***************************************************************************)
(* Every step keeps the invariant.  First the calls that begin.            *)
(***************************************************************************)
\* A call that begins in a step that suits the writer keeps the invariant.
LEMMA BeginStep ==
    ASSUME IInv, NEW c, NEW step,
           IsCall(c), step \in Steps,
           SafeAt(step, inner), Fits(step, c.op, inner),
           Begin(c, step)
    PROVE  IInv'
<1> USE DEF Begin, sinkVars, dataVars, flagVars, ghostVars
<1>1. TypeOK'
  BY DEF IInv, TypeOK
<1>2. GetPlainSafe'
  BY DEF IInv, GetPlainSafe
<1>3. LastFileExists'
  BY DEF IInv, LastFileExists
<1>4. CallFits'
  BY DEF CallFits
<1> QED
  BY <1>1, <1>2, <1>3, <1>4 DEF IInv

\* A call that adds an entry begins.
LEMMA AddEntryStep ==
    ASSUME IInv, NEW c, IsCall(c), c.op \in EntryOps, AddEntry(c)
    PROVE  IInv'
<1>1. c.op # "drop"
  BY DEF EntryOps
<1> QED
  BY <1>1, FinishFileSafe, BeginStep DEF AddEntry, IInv, TypeOK

\* start_file begins.
LEMMA StartFileStep == ASSUME IInv, StartFile PROVE IInv'
<1> DEFINE c(n, o) ==
      [NoCall EXCEPT !.op = "start_file", !.name = n, !.options = o]
<1>1. PICK n \in Names, o \in Options : AddEntry(c(n, o))
  BY DEF StartFile
<1>2. IsCall(c(n, o)) /\ c(n, o).op \in EntryOps
  BY OptionsAssumption DEF NoCall, IsCall, Ops, EntryOps
<1> HIDE DEF c
<1> QED
  BY <1>1, <1>2, AddEntryStep

\* start_file_with_extra_data begins.
LEMMA StartFileWithExtraDataStep ==
    ASSUME IInv, StartFileWithExtraData PROVE IInv'
<1> DEFINE c(n, o) == [NoCall EXCEPT !.op = "start_file_with_extra_data",
                                     !.name = n, !.options = o]
<1>1. PICK n \in Names, o \in Options : AddEntry(c(n, o))
  BY DEF StartFileWithExtraData
<1>2. IsCall(c(n, o)) /\ c(n, o).op \in EntryOps
  BY OptionsAssumption DEF NoCall, IsCall, Ops, EntryOps
<1> HIDE DEF c
<1> QED
  BY <1>1, <1>2, AddEntryStep

\* start_file_aligned begins.
LEMMA StartFileAlignedStep == ASSUME IInv, StartFileAligned PROVE IInv'
<1> DEFINE c(n, o, a) == [NoCall EXCEPT !.op = "start_file_aligned", !.name = n,
                                        !.options = o, !.align = a]
<1>1. PICK n \in Names, o \in Options, a \in 0..MaxAlign : AddEntry(c(n, o, a))
  BY DEF StartFileAligned
<1>2. IsCall(c(n, o, a)) /\ c(n, o, a).op \in EntryOps
  BY OptionsAssumption DEF NoCall, IsCall, Ops, EntryOps
<1> HIDE DEF c
<1> QED
  BY <1>1, <1>2, AddEntryStep

\* add_directory begins.
LEMMA AddDirectoryStep == ASSUME IInv, AddDirectory PROVE IInv'
<1> DEFINE c(n, o) == [NoCall EXCEPT !.op = "add_directory", !.name = n,
                         !.options = [o EXCEPT !.method = "stored"]]
<1>1. PICK n \in Names, o \in Options : AddEntry(c(n, o))
  BY DEF AddDirectory
<1>2. IsCall(c(n, o)) /\ c(n, o).op \in EntryOps
  BY OptionsAssumption DEF NoCall, IsCall, Ops, EntryOps
<1> HIDE DEF c
<1> QED
  BY <1>1, <1>2, AddEntryStep

\* add_symlink begins.
LEMMA AddSymlinkStep == ASSUME IInv, AddSymlink PROVE IInv'
<1> DEFINE c(n, o, target) == [NoCall EXCEPT !.op = "add_symlink", !.name = n,
                                 !.options = [o EXCEPT !.method = "stored"],
                                 !.cell = target]
<1>1. PICK n \in Names, o \in Options, target \in Bytes :
        AddEntry(c(n, o, target))
  BY DEF AddSymlink
<1>2. IsCall(c(n, o, target)) /\ c(n, o, target).op \in EntryOps
  BY OptionsAssumption DEF NoCall, IsCall, Ops, EntryOps
<1> HIDE DEF c
<1> QED
  BY <1>1, <1>2, AddEntryStep

\* raw_copy_file begins.
LEMMA RawCopyFileStep == ASSUME IInv, RawCopyFile PROVE IInv'
<1> DEFINE c(n, s) == [NoCall EXCEPT !.op = "raw_copy_file", !.name = n,
                                     !.source = s, !.options = RawOptions(s)]
<1>1. PICK n \in Names, s \in Sources : AddEntry(c(n, s))
  BY DEF RawCopyFile
<1>2. IsCall(c(n, s)) /\ c(n, s).op \in EntryOps
  BY DEF RawOptions, NoCall, IsCall, Ops, EntryOps
<1> HIDE DEF c
<1> QED
  BY <1>1, <1>2, AddEntryStep

\* end_extra_data and end_local_start_central_extra_data begin.
LEMMA EndExtraDataStep ==
    ASSUME IInv, EndExtraData \/ EndLocalStartCentralExtraData PROVE IInv'
<1>1. PICK op \in {"end_extra_data", "end_local_start_central"} :
         Begin([NoCall EXCEPT !.op = op], "end_extra")
  BY DEF EndExtraData, EndLocalStartCentralExtraData
<1>2. IsCall([NoCall EXCEPT !.op = op])
  BY DEF NoCall, StoredOptions, IsCall, Ops
<1>3. /\ "end_extra" \in Steps /\ SafeAt("end_extra", inner)
      /\ Fits("end_extra", [NoCall EXCEPT !.op = op].op, inner)
  BY DEF Steps, ExtraSteps, SafeAt, Fits, FinishFileSteps, NoCall
<1> QED
  BY <1>1, <1>2, <1>3, BeginStep

\* finish begins.
LEMMA FinishStep == ASSUME IInv, Finish PROVE IInv'
<1>1. /\ IsCall([NoCall EXCEPT !.op = "finish"])
      /\ [NoCall EXCEPT !.op = "finish"].op \in EndOps \ {"drop"}
  BY DEF NoCall, StoredOptions, IsCall, Ops, EndOps
<1> QED
  BY <1>1, FinishFileSafe, BeginStep DEF Finish, IInv, TypeOK

\* set_comment, which is over at once.
LEMMA SetCommentStep == ASSUME IInv, SetComment PROVE IInv'
<1> USE DEF SetComment, sinkVars, flagVars, ghostVars
<1>1. TypeOK'
  BY NoCallIsCall DEF IInv, TypeOK
<1>2. GetPlainSafe'
  BY DEF IInv, GetPlainSafe
<1>3. LastFileExists'
  BY DEF IInv, LastFileExists
<1>4. CallFits'
  BY IdleSafe DEF Idle, CallFits
<1> QED
  BY <1>1, <1>2, <1>3, <1>4 DEF IInv

\* Drop begins, or is over at once when the sink is gone.
LEMMA DropStep == ASSUME IInv, Drop PROVE IInv'
<1> USE DEF Drop, sinkVars, dataVars, flagVars, ghostVars
<1>1. IsCall(call')
  BY DEF NoCall, StoredOptions, IsCall, Ops, EndOps
<1>2. pc' \in Steps /\ SafeAt(pc', inner)
  BY IdleSafe, FinishFileSafe DEF IInv, TypeOK
<1>3. TypeOK'
  BY <1>1, <1>2 DEF IInv, TypeOK
<1>4. GetPlainSafe'
  BY <1>2 DEF GetPlainSafe
<1>5. LastFileExists'
  BY DEF IInv, LastFileExists
<1>6. CallFits'
  BY IdleSafe, FinishFileSafe DEF IInv, TypeOK, NoCall, EndOps, CallFits
<1> QED
  BY <1>3, <1>4, <1>5, <1>6 DEF IInv

-----------------------------------------------------------------------------
(***************************************************************************)
(* The end of extra data.                                                  *)
(***************************************************************************)
\* end_extra_data refuses, and changes nothing.
LEMMA ExtraRefusedStep == ASSUME IInv, ExtraRefused PROVE IInv'
<1> USE DEF ExtraRefused, Fail, sinkVars, dataVars, flagVars, ghostVars
<1>1. TypeOK'
  BY IdleSafe DEF IInv, TypeOK
<1>2. GetPlainSafe'
  BY IdleSafe DEF GetPlainSafe
<1>3. LastFileExists'
  BY DEF IInv, LastFileExists
<1>4. CallFits'
  BY IdleSafe DEF CallFits
<1> QED
  BY <1>1, <1>2, <1>3, <1>4 DEF IInv

\* A successful end_extra_data with the writer w it leaves.
LEMMA ExtraEndedKeeps ==
    ASSUME IInv, pc \in ExtraSteps, writing_to_extra_field,
           NEW f, NEW w, IsWriter(w), ExtraEnded(f, w),
           inner' = w, faults' \in 0..MaxFaults
    PROVE  IInv'
<1> USE DEF ExtraEnded
<1>1. files # << >> /\ IsSeq(files)
  BY DEF IInv, LastFileExists, TypeOK
<1>2. IsSeq(files') /\ files' # << >>
  BY <1>1, SetLastIsSeq
<1>3. pc' \in Steps /\ SafeAt(pc', w) /\ Fits(pc', call'.op, w)
  <2>1. CASE pc = "end_extra"
    BY <2>1, IdleSafe DEF Return
  <2>2. CASE pc = "finish_extra"
    BY <2>2, AfterExtraSafe DEF Goto, IInv, CallFits, Fits, FinishFileSteps, ExtraSteps
  <2> QED
    BY <2>1, <2>2 DEF ExtraSteps
<1>4. TypeOK'
  <2>1. IsCall(call') /\ result' \in {"none", "ok", "err", "panic"}
        /\ status' \in {"live", "finished", "dropped", "aborted"}
    BY DEF IInv, TypeOK, Return, Goto
  <2>2. /\ writing_to_extra_field' \in BOOLEAN
        /\ writing_to_central_extra_field_only' \in BOOLEAN
    BY DEF EntersCentral, CentralOnlyNext
  <2> QED
    BY <1>2, <1>3, <2>1, <2>2 DEF IInv, TypeOK
<1>5. GetPlainSafe'
  BY <1>3 DEF GetPlainSafe
<1>6. LastFileExists'
  BY <1>2 DEF LastFileExists, CentralOnlyNext
<1>7. CallFits'
  BY <1>3 DEF CallFits
<1> QED
  BY <1>4, <1>5, <1>6, <1>7 DEF IInv

\* end_extra_data after central-only extra data.
LEMMA EndCentralExtraStep == ASSUME IInv, EndCentralExtra PROVE IInv'
<1>1. IsWriter(inner) /\ faults \in 0..MaxFaults
  BY DEF IInv, TypeOK
<1> QED
  BY <1>1, ExtraEndedKeeps DEF EndCentralExtra, ExtraAccepted

\* get_plain() in end_extra_data panics, and changes nothing.
LEMMA EndLocalExtraPanicsStep == ASSUME IInv, EndLocalExtraPanics PROVE IInv'
<1> USE DEF EndLocalExtraPanics, Panic, sinkVars, dataVars, flagVars, ghostVars
<1>1. TypeOK'
  BY IdleSafe DEF IInv, TypeOK
<1>2. GetPlainSafe'
  BY IdleSafe DEF GetPlainSafe
<1>3. LastFileExists'
  BY DEF IInv, LastFileExists
<1>4. CallFits'
  BY IdleSafe DEF CallFits
<1> QED
  BY <1>1, <1>2, <1>3, <1>4 DEF IInv

\* A call that ends without success, having changed the last file's record
\* and the writer, but no flag.
LEMMA UnsuccessfulStep ==
    ASSUME IInv, Fail \/ Panic,
           IsSeq(files'), files # << >> => files' # << >>,
           IsWriter(inner'), faults' \in 0..MaxFaults, writes' \in 0..MaxWrites,
           UNCHANGED flagVars
    PROVE  IInv'
<1> USE DEF Fail, Panic, flagVars
<1>1. TypeOK'
  BY IdleSafe DEF IInv, TypeOK
<1>2. GetPlainSafe'
  BY IdleSafe DEF GetPlainSafe
<1>3. LastFileExists'
  BY DEF IInv, LastFileExists
<1>4. CallFits'
  BY IdleSafe DEF CallFits
<1> QED
  BY <1>1, <1>2, <1>3, <1>4 DEF IInv

\* end_extra_data moves local extra data to the sink.
LEMMA EndLocalExtraStep == ASSUME IInv, EndLocalExtra PROVE IInv'
<1> DEFINE end   == LastFile.data_start + Len(LastFile.extra_field)
           moved == [LastFile EXCEPT !.data_start = end]
           w     == SwitchTo(inner, moved.method, moved.level)
           trace == ExtraTrace(LastFile, end)
           n     == Len(LastFile.extra_field)
<1>0. /\ pc \in ExtraSteps /\ writing_to_extra_field
      /\ \/ /\ ~LocalExtraOverflows(moved)
            /\ Succeeds(trace)
            /\ inner' = w
            /\ IF IsClosed(w)
               THEN /\ files' = SetLastFile(moved) /\ Fail
                    /\ UNCHANGED <<comment, flagVars, writes, promised>>
               ELSE ExtraEnded(moved, w)
         \/ /\ files' = SetLastFile(moved)
            /\ Panic
            /\ UNCHANGED <<inner, comment, flagVars, ghostVars>>
         \/ \E i \in 1..Len(trace) - 1 :
            /\ FailsAt(trace, i)
            /\ files' = IF i > n THEN SetLastFile(moved) ELSE files
            /\ Fail
            /\ UNCHANGED <<inner, comment, flagVars, writes, promised>>
  BY DEF EndLocalExtra, EndingLocalExtra, ExtraAccepted
<1> HIDE DEF end, moved, w, trace, n
<1>1. /\ IsWriter(inner) /\ IsWriter(w)
      /\ faults \in 0..MaxFaults /\ writes \in 0..MaxWrites
  BY SwitchToIsWriter DEF IInv, TypeOK, w
<1>2. /\ files # << >> /\ IsSeq(files)
      /\ IsSeq(SetLastFile(moved)) /\ SetLastFile(moved) # << >>
  BY <1>0, SetLastIsSeq DEF IInv, LastFileExists, TypeOK
<1>3. CASE /\ Succeeds(trace)
           /\ inner' = w
           /\ ~IsClosed(w)
           /\ ExtraEnded(moved, w)
  BY <1>0, <1>1, <1>3, ExtraEndedKeeps DEF Succeeds
<1>4. CASE /\ Succeeds(trace)
           /\ inner' = w
           /\ files' = SetLastFile(moved) /\ Fail
           /\ UNCHANGED <<comment, flagVars, writes, promised>>
  BY <1>1, <1>2, <1>4, UnsuccessfulStep DEF Succeeds
<1>5. CASE /\ files' = SetLastFile(moved)
           /\ Panic
           /\ UNCHANGED <<inner, comment, flagVars, ghostVars>>
  BY <1>1, <1>2, <1>5, UnsuccessfulStep DEF ghostVars
<1>6. CASE \E i \in 1..Len(trace) - 1 :
            /\ FailsAt(trace, i)
            /\ files' = IF i > n THEN SetLastFile(moved) ELSE files
            /\ Fail
            /\ UNCHANGED <<inner, comment, flagVars, writes, promised>>
  <2>1. faults' \in 0..MaxFaults
    BY <1>1, <1>6, BoundsAssumption DEF FailsAt
  <2>2. /\ files' = SetLastFile(moved) \/ files' = files
        /\ Fail /\ UNCHANGED <<inner, flagVars, writes>>
    BY <1>6
  <2> QED
    BY <1>1, <1>2, <2>1, <2>2, UnsuccessfulStep
<1> QED
  BY <1>0, <1>3, <1>4, <1>5, <1>6

-----------------------------------------------------------------------------
(***************************************************************************)
(* finish_file.                                                            *)
(***************************************************************************)
\* A step of finish_file that succeeds and keeps files and flags.
LEMMA GotoStep ==
    ASSUME IInv, NEW step, Goto(step), step \in Steps, SafeAt(step, inner'),
           Fits(step, call.op, inner'),
           IsWriter(inner'), UNCHANGED <<files, flagVars, writes>>,
           faults' \in 0..MaxFaults
    PROVE  IInv'
<1> USE DEF Goto, flagVars
<1>1. TypeOK'
  BY DEF IInv, TypeOK
<1>2. GetPlainSafe'
  BY DEF GetPlainSafe
<1>3. LastFileExists'
  BY DEF IInv, LastFileExists
<1>4. CallFits'
  BY DEF CallFits
<1> QED
  BY <1>1, <1>2, <1>3, <1>4 DEF IInv

\* switch_to(Stored) in finish_file.
LEMMA SwitchStoredStep == ASSUME IInv, SwitchStored PROVE IInv'
<1> DEFINE tail  == Append(Pending(inner), <<"zend", inner.method>>)
           after == [inner EXCEPT !.method = "stored", !.pending = << >>,
                                  !.buffer = Kept(inner, tail)]
           trace == SinkTrace(inner, tail)
<1>0. /\ pc = "switch_stored"
      /\ \/ IsClosed(inner) /\ Fail /\ UNCHANGED <<sinkVars, inner, faults>>
         \/ Succeeds(trace) /\ inner' = after /\ Goto(AfterExtra(after))
         \/ Fails(trace) /\ Fail /\ inner' = Closed
      /\ UNCHANGED <<dataVars, flagVars, writes, promised>>
  BY DEF SwitchStored
<1>1. /\ IsWriter(inner) /\ IsSeq(files)
      /\ faults \in 0..MaxFaults /\ writes \in 0..MaxWrites
  BY DEF IInv, TypeOK
<1>2. IsWriter(after)
  BY <1>1 DEF IsWriter
<1> HIDE DEF after, trace
<1>3. CASE \/ IsClosed(inner) /\ Fail /\ UNCHANGED <<sinkVars, inner, faults>>
           \/ Fails(trace) /\ Fail /\ inner' = Closed
  <2>1. IsWriter(inner') /\ faults' \in 0..MaxFaults
    BY <1>1, <1>3, PlainWriters, FaultCounted
  <2> QED
    BY <1>0, <1>1, <1>3, <2>1, UnsuccessfulStep DEF dataVars
<1>4. CASE Succeeds(trace) /\ inner' = after /\ Goto(AfterExtra(after))
  <2>1. /\ AfterExtra(after) \in Steps /\ SafeAt(AfterExtra(after), after)
        /\ Fits(AfterExtra(after), call.op, after)
    BY <1>0, <1>2, AfterExtraSafe DEF IInv, CallFits, Fits, FinishFileSteps, ExtraSteps
  <2> QED
    BY <1>0, <1>1, <1>2, <1>4, <2>1, GotoStep DEF dataVars, Succeeds
<1> QED
  BY <1>0, <1>3, <1>4

\* ZipCryptoWriter::finish in finish_file.
LEMMA FinishCryptoStep == ASSUME IInv, FinishCrypto PROVE IInv'
<1> DEFINE trace == Still(WriteTrace(disk, pos,
             << <<"crypthdr", stats.hasher>> >> \o Encrypted(inner.buffer)))
<1>0. /\ pc = "finish_crypto"
      /\ \/ Succeeds(trace) /\ inner' = Plain /\ Goto("update_header")
         \/ Fails(trace) /\ inner' = Closed /\ Fail
      /\ UNCHANGED <<dataVars, flagVars, writes, promised>>
  BY DEF FinishCrypto
<1> HIDE DEF trace
<1>1. IsSeq(files) /\ faults \in 0..MaxFaults /\ writes \in 0..MaxWrites
  BY DEF IInv, TypeOK
<1>2. CASE Succeeds(trace) /\ inner' = Plain /\ Goto("update_header")
  <2>1. /\ "update_header" \in Steps /\ SafeAt("update_header", Plain)
        /\ Fits("update_header", call.op, Plain)
    BY <1>0, PlainWriters
       DEF Steps, SafeAt, IInv, CallFits, Fits, FinishFileSteps, ExtraSteps
  <2> QED
    BY <1>0, <1>1, <1>2, <2>1, PlainWriters, GotoStep DEF dataVars, Succeeds
<1>3. CASE Fails(trace) /\ inner' = Closed /\ Fail
  BY <1>0, <1>1, <1>3, PlainWriters, FaultCounted, UnsuccessfulStep DEF dataVars
<1> QED
  BY <1>0, <1>2, <1>3

\* Both ways out of finish_file need the plain writer it established.
LEMMA AfterFinishFileSafe ==
    ASSUME IInv, pc = "update_header"
    PROVE  /\ AfterFinishFile \in Steps
           /\ SafeAt(AfterFinishFile, inner)
           /\ Fits(AfterFinishFile, call.op, inner)
<1>1. IsPlain(inner) /\ call.op \in EntryOps \cup EndOps
  BY DEF IInv, GetPlainSafe, SafeAt, CallFits, Fits, FinishFileSteps, ExtraSteps
<1> QED
  BY <1>1 DEF AfterFinishFile, Steps, SafeAt, Fits, FinishFileSteps, ExtraSteps

\* finish_file when there is no header to patch.
LEMMA KeepHeaderStep == ASSUME IInv, KeepHeader PROVE IInv'
<1>2. /\ AfterFinishFile \in Steps /\ SafeAt(AfterFinishFile, inner)
      /\ Fits(AfterFinishFile, call.op, inner)
  BY AfterFinishFileSafe DEF KeepHeader
<1> USE DEF KeepHeader, Goto, dataVars, ghostVars
<1>3. TypeOK'
  BY <1>2 DEF IInv, TypeOK
<1>4. GetPlainSafe'
  BY <1>2 DEF GetPlainSafe
<1>5. LastFileExists'
  BY DEF IInv, LastFileExists
<1>6. CallFits'
  BY <1>2 DEF CallFits
<1> QED
  BY <1>3, <1>4, <1>5, <1>6 DEF IInv

\* finish_file patches the local header of the last entry.
LEMMA UpdateHeaderStep == ASSUME IInv, UpdateHeader PROVE IInv'
<1> DEFINE f     == [Summed EXCEPT !.compressed_size = U64(pos - stats.start)]
           trace == HeaderTrace(f)
<1>0. /\ pc = "update_header" /\ files # << >>
      /\ \/ /\ Succeeds(trace)
            /\ files' = SetLastFile(f)
            /\ writing_to_file' = FALSE /\ writing_raw' = FALSE
            /\ Goto(AfterFinishFile)
         \/ /\ Succeeds(trace) \/ Fails(trace) \/ FailsAt(trace, 1)
               \/ UNCHANGED faults
            /\ files' = SetLastFile(f) \/ files' = SetLastFile(Summed)
            /\ Fail \/ Panic
            /\ UNCHANGED <<writing_to_file, writing_raw>>
      /\ UNCHANGED <<inner, writing_to_extra_field,
                     writing_to_central_extra_field_only, writes>>
  BY DEF UpdateHeader
<1> HIDE DEF f, trace
<1>1. /\ IsSeq(SetLastFile(f)) /\ SetLastFile(f) # << >>
      /\ IsSeq(SetLastFile(Summed)) /\ SetLastFile(Summed) # << >>
  BY <1>0, SetLastIsSeq DEF IInv, TypeOK
<1>2. /\ IsWriter(inner) /\ faults \in 0..MaxFaults /\ writes \in 0..MaxWrites
  BY DEF IInv, TypeOK
<1>3. CASE /\ Succeeds(trace)
           /\ files' = SetLastFile(f)
           /\ writing_to_file' = FALSE /\ writing_raw' = FALSE
           /\ Goto(AfterFinishFile)
  <2>1. /\ AfterFinishFile \in Steps /\ SafeAt(AfterFinishFile, inner)
        /\ Fits(AfterFinishFile, call.op, inner)
    BY <1>0, AfterFinishFileSafe
  <2> USE DEF Goto, Succeeds
  <2>2. TypeOK'
    BY <1>0, <1>1, <1>3, <2>1 DEF IInv, TypeOK
  <2>3. GetPlainSafe'
    BY <1>0, <1>3, <2>1 DEF GetPlainSafe
  <2>4. LastFileExists'
    BY <1>0, <1>1, <1>3 DEF IInv, LastFileExists
  <2>5. CallFits'
    BY <1>0, <1>3, <2>1 DEF CallFits
  <2> QED
    BY <2>2, <2>3, <2>4, <2>5 DEF IInv
<1>4. CASE /\ Succeeds(trace) \/ Fails(trace) \/ FailsAt(trace, 1)
              \/ UNCHANGED faults
           /\ files' = SetLastFile(f) \/ files' = SetLastFile(Summed)
           /\ Fail \/ Panic
           /\ UNCHANGED <<writing_to_file, writing_raw>>
  <2>1. faults' \in 0..MaxFaults
    BY <1>2, <1>4, FaultCounted DEF Succeeds
  <2> QED
    BY <1>0, <1>1, <1>2, <1>4, <2>1, UnsuccessfulStep DEF flagVars
<1> QED
  BY <1>0, <1>3, <1>4

-----------------------------------------------------------------------------
(***************************************************************************)
(* start_entry and its callers.                                            *)
(***************************************************************************)
\* start_entry writes the local header, and its caller goes on.
LEMMA StartEntryStep == ASSUME IInv, StartEntry PROVE IInv'
<1> DEFINE trace == Still(WriteTrace(disk, pos, LocalHeader(NewFile)))
           w     == [Plain EXCEPT !.encrypted = call.options.encrypted]
<1>0. /\ pc = "local_header"
      /\ \/ /\ Succeeds(trace)
            /\ \E f : files' = Append(files, f)
            /\ Started(w)
         \/ /\ Fails(trace) /\ Fail
            /\ UNCHANGED <<inner, files, stats, promised, writing_to_file,
                           writing_to_extra_field, writing_raw>>
      /\ UNCHANGED <<writes, writing_to_central_extra_field_only>>
  BY DEF StartEntry
<1> HIDE DEF trace
<1>1. IsWriter(w) /\ w.method = "stored"
  BY DEF IInv, TypeOK, IsCall, IsWriter, Plain, Closed
<1> HIDE DEF w
<1>2. /\ IsSeq(files) /\ IsWriter(inner) /\ IsCall(call)
      /\ faults \in 0..MaxFaults /\ writes \in 0..MaxWrites
  BY DEF IInv, TypeOK
<1>3. CASE /\ Succeeds(trace)
           /\ \E f : files' = Append(files, f)
           /\ Started(w)
  <2>1. IsSeq(files') /\ files' # << >>
    BY <1>2, <1>3, AppendIsSeq
  <2>2. IsWriter(SwitchTo(w, call.options.method, call.options.level))
    BY <1>1, SwitchToIsWriter
  <2>3. /\ IsWriter(inner')
        /\ pc' \in Steps /\ SafeAt(pc', inner') /\ Fits(pc', call'.op, inner')
        /\ writing_to_file' \in BOOLEAN
        /\ writing_to_extra_field' \in BOOLEAN
        /\ writing_to_extra_field => writing_to_extra_field'
        /\ writing_raw' \in BOOLEAN
        /\ call' = call
        /\ result' \in {"none", "ok", "err", "panic"}
        /\ status' \in {"live", "finished", "dropped", "aborted"}
    <3>0. /\ writing_to_file \in BOOLEAN /\ writing_to_extra_field \in BOOLEAN
          /\ writing_raw \in BOOLEAN
          /\ result \in {"none", "ok", "err", "panic"}
          /\ status \in {"live", "finished", "dropped", "aborted"}
      BY DEF IInv, TypeOK
    <3> USE DEF Goto, Return, Fail
    <3>1. CASE FileStarted(w)
      BY <1>3, <2>2, <3>0, <3>1, IdleSafe DEF FileStarted
    <3>2. CASE ExtraDataStarted(w)
      BY <1>1, <1>3, <3>0, <3>2, IdleSafe
         DEF ExtraDataStarted, Steps, ExtraSteps, SafeAt, Fits, FinishFileSteps
    <3>3. CASE DirectoryAdded(w)
      BY <1>1, <1>3, <3>0, <3>3, IdleSafe DEF DirectoryAdded
    <3>4. CASE SymlinkStarted(w)
      BY <1>1, <1>3, <3>0, <3>4
         DEF SymlinkStarted, Steps, SafeAt, Fits, FinishFileSteps, ExtraSteps
    <3>5. CASE RawCopyStarted(w)
      BY <1>1, <1>3, <3>0, <3>5
         DEF RawCopyStarted, Steps, SafeAt, Fits, FinishFileSteps, ExtraSteps
    <3> QED
      BY <1>3, <3>1, <3>2, <3>3, <3>4, <3>5 DEF Started
  <2>4. TypeOK'
    BY <1>0, <1>2, <1>3, <2>1, <2>3 DEF IInv, TypeOK, Succeeds
  <2>5. GetPlainSafe'
    BY <2>3 DEF GetPlainSafe
  <2>6. LastFileExists'
    BY <1>0, <2>1, <2>3 DEF IInv, LastFileExists
  <2>7. CallFits'
    BY <2>3 DEF CallFits
  <2> QED
    BY <2>4, <2>5, <2>6, <2>7 DEF IInv
<1>4. CASE /\ Fails(trace) /\ Fail
           /\ UNCHANGED <<inner, files, stats, promised, writing_to_file,
                          writing_to_extra_field, writing_raw>>
  BY <1>0, <1>2, <1>4, FaultCounted, UnsuccessfulStep DEF flagVars
<1> QED
  BY <1>0, <1>3, <1>4

\* A call that ends, with success or not, and keeps the extra data flags.
LEMMA ReturnStep ==
    ASSUME IInv, NEW r \in {"ok", "err"}, Return(r) \/ Fail,
           IsSeq(files'), files # << >> => files' # << >>,
           IsWriter(inner'), faults' \in 0..MaxFaults, writes' \in 0..MaxWrites,
           writing_to_file' \in BOOLEAN, writing_to_file' => files # << >>,
           UNCHANGED <<writing_to_extra_field, writing_raw,
                       writing_to_central_extra_field_only>>
    PROVE  IInv'
<1> USE DEF Return, Fail
<1>1. TypeOK'
  BY IdleSafe DEF IInv, TypeOK
<1>2. GetPlainSafe'
  BY IdleSafe DEF GetPlainSafe
<1>3. LastFileExists'
  BY DEF IInv, LastFileExists
<1>4. CallFits'
  BY IdleSafe DEF CallFits
<1> QED
  BY <1>1, <1>2, <1>3, <1>4 DEF IInv

\* raw_copy_file copies the data.
LEMMA CopyRawStep == ASSUME IInv, CopyRaw PROVE IInv'
<1> DEFINE trace == Still(WriteTrace(disk, pos, Raw.cells))
<1>0. /\ \/ Succeeds(trace) /\ Return("ok")
         \/ (\E i \in 1..Len(trace) - 1 : FailsAt(trace, i)) /\ Fail
      /\ UNCHANGED <<inner, files, flagVars, writes>>
  BY DEF CopyRaw
<1> HIDE DEF trace
<1>1. /\ IsWriter(inner) /\ IsSeq(files) /\ writing_to_file \in BOOLEAN
      /\ faults \in 0..MaxFaults /\ writes \in 0..MaxWrites
      /\ writing_to_file => files # << >>
  BY DEF IInv, TypeOK, LastFileExists
<1>2. faults' \in 0..MaxFaults
  BY <1>0, <1>1, FaultCounted DEF Succeeds, Fails
<1> QED
  BY <1>0, <1>1, <1>2, ReturnStep DEF flagVars

-----------------------------------------------------------------------------
(***************************************************************************)
(* write and flush.                                                        *)
(***************************************************************************)
\* write() of entry data, by the caller or by add_symlink.
LEMMA WriteDataStep ==
    ASSUME IInv, NEW cell, NEW writing \in BOOLEAN, WriteData(cell, writing),
           writing => files # << >>,
           UNCHANGED <<files, writing_to_extra_field, writing_raw,
                       writing_to_central_extra_field_only>>,
           writes' \in 0..MaxWrites
    PROVE  IInv'
<1>1. PICK split \in Splits(cell) :
        \/ /\ Succeeds(SinkTrace(inner, split[1]))
           /\ \/ inner' = Closed
              \/ inner' = [inner EXCEPT !.buffer = Kept(inner, split[1]),
                                        !.pending = split[2]]
           /\ \/ Fail /\ UNCHANGED writing_to_file
              \/ Return("ok") /\ writing_to_file' = writing
        \/ /\ Fails(SinkTrace(inner, split[1]))
           /\ Fail
           /\ UNCHANGED <<inner, writing_to_file>>
  BY DEF WriteData
<1>2. /\ IsWriter(inner) /\ IsSeq(files) /\ writing_to_file \in BOOLEAN
      /\ faults \in 0..MaxFaults
      /\ writing_to_file => files # << >>
  BY DEF IInv, TypeOK, LastFileExists
<1>3. IsWriter([inner EXCEPT !.buffer = Kept(inner, split[1]),
                             !.pending = split[2]])
  BY <1>2 DEF IsWriter
<1>4. IsWriter(inner')
  BY <1>1, <1>2, <1>3, PlainWriters
<1>5. faults' \in 0..MaxFaults
  BY <1>1, <1>2, FaultCounted DEF Succeeds
<1>6. /\ writing_to_file' \in BOOLEAN
      /\ writing_to_file' => files # << >>
      /\ Return("ok") \/ Fail
  BY <1>1, <1>2
<1> QED
  BY <1>2, <1>4, <1>5, <1>6, ReturnStep

\* add_symlink writes its target.
LEMMA WriteTargetStep == ASSUME IInv, WriteTarget PROVE IInv'
<1>1. writes \in 0..MaxWrites
  BY DEF IInv, TypeOK
<1> QED
  BY <1>1, WriteDataStep DEF WriteTarget

\* write() of extra data or of entry data.
LEMMA WriteStep == ASSUME IInv, Write PROVE IInv'
<1>1. /\ files # << >> /\ IsSeq(files) /\ IsWriter(inner)
      /\ writing_to_file \in BOOLEAN /\ faults \in 0..MaxFaults
  BY DEF Write, IInv, LastFileExists, TypeOK
<1>2. writes' \in 0..MaxWrites
  BY BoundsAssumption DEF Write, IInv, TypeOK
<1>3. CASE writing_to_extra_field
  <2>1. PICK cell \in ExtraCells :
          files' = SetLastFile([LastFile EXCEPT !.extra_field = Append(@, cell)])
    BY <1>3 DEF Write
  <2>2. IsSeq(files') /\ files' # << >>
    BY <1>1, <2>1, SetLastIsSeq
  <2>3. /\ Return("ok")
        /\ UNCHANGED <<inner, faults, writing_to_file, writing_to_extra_field,
                       writing_raw, writing_to_central_extra_field_only>>
    BY <1>3 DEF Write
  <2> QED
    BY <1>1, <1>2, <2>2, <2>3, ReturnStep
<1>4. CASE ~writing_to_extra_field
  <2>1. PICK b \in Bytes : WriteData(b, TRUE)
    BY <1>4 DEF Write
  <2>2. UNCHANGED <<files, writing_to_extra_field, writing_raw,
                    writing_to_central_extra_field_only>>
    BY <1>4 DEF Write
  <2> QED
    BY <1>1, <1>2, <2>1, <2>2, WriteDataStep
<1> QED
  BY <1>3, <1>4

\* write() refuses, and changes nothing.
LEMMA WriteRefusedStep == ASSUME IInv, WriteRefused PROVE IInv'
<1>1. /\ IsWriter(inner) /\ IsSeq(files) /\ writing_to_file \in BOOLEAN
      /\ faults \in 0..MaxFaults /\ writes \in 0..MaxWrites
      /\ writing_to_file => files # << >>
  BY DEF IInv, TypeOK, LastFileExists
<1> QED
  BY <1>1, ReturnStep DEF WriteRefused, dataVars, flagVars, ghostVars

\* flush().
LEMMA FlushStep == ASSUME IInv, Flush PROVE IInv'
<1> DEFINE out   == SyncFlush(inner)
           trace == SinkTrace(inner, out)
           after == [inner EXCEPT !.pending = << >>, !.buffer = Kept(inner, out)]
           partly(i) == [inner EXCEPT !.pending = IF i = 1 THEN @ ELSE << >>]
<1>0. /\ \/ Return("err") /\ UNCHANGED <<inner, faults>>
         \/ Return("ok") /\ UNCHANGED faults /\ inner' = after
         \/ /\ Return("err")
            /\ \E i \in 1..Len(trace) :
                 FailsAt(Still(trace), i) /\ inner' = partly(i)
      /\ UNCHANGED <<files, flagVars>>
  BY DEF Flush, Succeeds, dataVars
<1>1. writes' \in 0..MaxWrites
  BY BoundsAssumption DEF Flush, IInv, TypeOK
<1>2. /\ IsWriter(inner) /\ IsSeq(files) /\ writing_to_file \in BOOLEAN
      /\ faults \in 0..MaxFaults
      /\ writing_to_file => files # << >>
  BY DEF IInv, TypeOK, LastFileExists
<1>3. IsWriter(after) /\ \A i : IsWriter(partly(i))
  BY <1>2 DEF IsWriter
<1> HIDE DEF after, partly, trace, out
<1>4. IsWriter(inner') /\ faults' \in 0..MaxFaults
  BY <1>0, <1>2, <1>3, BoundsAssumption DEF FailsAt
<1>5. \E r \in {"ok", "err"} : Return(r)
  BY <1>0
<1> QED
  BY <1>0, <1>1, <1>2, <1>4, <1>5, ReturnStep DEF flagVars

-----------------------------------------------------------------------------
(***************************************************************************)
(* finalize.                                                               *)
(***************************************************************************)
\* finalize writes one header of the central directory.
LEMMA WriteCentralHeaderStep == ASSUME IInv, WriteCentralHeader PROVE IInv'
<1> DEFINE f     == files[call.headers + 1]
           trace == WriteTrace(disk, pos,
                      IF OverflowChecks /\ Len(CentralExtra(f)) > ZIP64_ENTRY_THR
                      THEN HeaderBegun ELSE CentralHeader(f))
           next  == [call EXCEPT !.headers = @ + 1, !.central_start = CentralStart]
<1>0. /\ \/ Succeeds(trace) /\ call' = next /\ UNCHANGED <<pc, result, status>>
         \/ Panic /\ UNCHANGED faults
         \/ Fails(trace) /\ Fail
      /\ UNCHANGED <<inner, dataVars, flagVars, writes>>
  BY DEF WriteCentralHeader, Succeeds
<1>1. /\ IsWriter(inner) /\ IsSeq(files) /\ IsCall(call)
      /\ faults \in 0..MaxFaults /\ writes \in 0..MaxWrites
  BY DEF IInv, TypeOK
<1>2. IsCall(next) /\ next.op = call.op
  BY <1>1 DEF IsCall
<1> HIDE DEF trace, next
<1>3. CASE Succeeds(trace) /\ call' = next /\ UNCHANGED <<pc, result, status>>
  <2> USE DEF dataVars, flagVars
  <2>1. TypeOK'
    BY <1>0, <1>2, <1>3 DEF IInv, TypeOK, Succeeds
  <2>2. GetPlainSafe'
    BY <1>0, <1>3 DEF IInv, GetPlainSafe
  <2>3. LastFileExists'
    BY <1>0 DEF IInv, LastFileExists
  <2>4. CallFits'
    BY <1>0, <1>2, <1>3 DEF IInv, CallFits
  <2> QED
    BY <2>1, <2>2, <2>3, <2>4 DEF IInv
<1>4. CASE \/ Panic /\ UNCHANGED faults
           \/ Fails(trace) /\ Fail
  <2>1. faults' \in 0..MaxFaults
    BY <1>1, <1>4, FaultCounted
  <2> QED
    BY <1>0, <1>1, <1>4, <2>1, UnsuccessfulStep DEF dataVars
<1> QED
  BY <1>0, <1>3, <1>4

\* finalize writes the end records.
LEMMA WriteEndRecordsStep == ASSUME IInv, WriteEndRecords PROVE IInv'
<1> DEFINE trace == Still(WriteTrace(disk, pos,
             EndRecords(Len(files), CentralStart, pos - CentralStart, comment)))
<1>0. /\ \/ /\ Succeeds(trace)
            /\ pc' = "idle" /\ result' = "ok" /\ UNCHANGED call
            /\ inner' = Closed \/ inner' = inner
            /\ status' \in {"finished", "dropped"}
         \/ Fails(trace) /\ Fail /\ UNCHANGED inner
      /\ UNCHANGED <<dataVars, flagVars, writes>>
  BY DEF WriteEndRecords, HandedBack
<1> HIDE DEF trace
<1>1. /\ IsWriter(inner) /\ IsSeq(files)
      /\ faults \in 0..MaxFaults /\ writes \in 0..MaxWrites
  BY DEF IInv, TypeOK
<1>2. CASE /\ Succeeds(trace)
           /\ pc' = "idle" /\ result' = "ok" /\ UNCHANGED call
           /\ inner' = Closed \/ inner' = inner
           /\ status' \in {"finished", "dropped"}
  <2>1. IsWriter(inner')
    BY <1>1, <1>2, PlainWriters
  <2> USE DEF dataVars, flagVars
  <2>2. TypeOK'
    BY <1>0, <1>2, <2>1, IdleSafe DEF IInv, TypeOK, Succeeds
  <2>3. GetPlainSafe'
    BY <1>2, IdleSafe DEF GetPlainSafe
  <2>4. LastFileExists'
    BY <1>0 DEF IInv, LastFileExists
  <2>5. CallFits'
    BY <1>2, IdleSafe DEF CallFits
  <2> QED
    BY <2>2, <2>3, <2>4, <2>5 DEF IInv
<1>3. CASE Fails(trace) /\ Fail /\ UNCHANGED inner
  BY <1>0, <1>1, <1>3, FaultCounted, UnsuccessfulStep DEF dataVars
<1> QED
  BY <1>0, <1>2, <1>3

-----------------------------------------------------------------------------
(***************************************************************************)
(* The theorems.                                                           *)
(***************************************************************************)
\* new() and new_append() establish the invariant.
LEMMA InitInv == Init => IInv
<1> SUFFICES ASSUME Init PROVE IInv
  OBVIOUS
<1>1. PICK d, p, fs, c, raw :
        InitWriter(d, p, fs, c, raw) /\ IsSeq(fs) /\ raw \in BOOLEAN
  <2>1. CASE New
    <3>1. IsSeq(<< >>)
      BY EmptySeq, SeqIsSeq
    <3> QED
      BY <2>1, <3>1 DEF New
  <2>2. CASE NewAppend
    BY <2>2, ExistingAssumption DEF NewAppend, IsSeq
  <2> QED
    BY <2>1, <2>2 DEF Init
<1>2. /\ inner = Plain /\ IsSeq(files)
      /\ writing_to_file = FALSE /\ writing_to_extra_field = FALSE
      /\ writing_to_central_extra_field_only = FALSE /\ writing_raw \in BOOLEAN
      /\ call = NoCall /\ pc = "idle" /\ result = "none" /\ status = "live"
      /\ faults = 0 /\ writes = 0
  BY <1>1 DEF InitWriter
<1>3. TypeOK
  <2>1. IsWriter(inner) /\ IsCall(call) /\ pc \in Steps
    BY <1>2, PlainWriters, NoCallIsCall, IdleSafe
  <2>2. faults \in 0..MaxFaults /\ writes \in 0..MaxWrites
    BY <1>2, BoundsAssumption
  <2> QED
    BY <1>2, <2>1, <2>2 DEF TypeOK
<1>4. GetPlainSafe
  BY <1>2, IdleSafe DEF GetPlainSafe
<1>5. LastFileExists
  BY <1>2 DEF LastFileExists
<1>6. CallFits
  BY <1>2, IdleSafe DEF CallFits
<1> QED
  BY <1>3, <1>4, <1>5, <1>6 DEF IInv

\* Every step, and a stutter, keeps the invariant.
LEMMA NextInv == IInv /\ [Next]_vars => IInv'
<1> SUFFICES ASSUME IInv, [Next]_vars PROVE IInv'
  OBVIOUS
<1>1. CASE Next
  BY <1>1, StartFileStep, StartFileWithExtraDataStep, StartFileAlignedStep,
     AddDirectoryStep, AddSymlinkStep, RawCopyFileStep, EndExtraDataStep,
     FinishStep, SetCommentStep, DropStep,
     WriteStep, WriteRefusedStep, FlushStep,
     ExtraRefusedStep, EndCentralExtraStep, EndLocalExtraPanicsStep,
     EndLocalExtraStep, SwitchStoredStep, FinishCryptoStep, KeepHeaderStep,
     UpdateHeaderStep, StartEntryStep, CopyRawStep, WriteTargetStep,
     WriteCentralHeaderStep, WriteEndRecordsStep
  DEF Next
<1>2. CASE UNCHANGED vars
  BY <1>2 DEF vars, sinkVars, dataVars, flagVars, callVars, ghostVars,
              IInv, TypeOK, GetPlainSafe, LastFileExists, CallFits
<1> QED
  BY <1>1, <1>2

\* Under any order of calls and failures of the sink, the strengthened
\* invariant of ZipWriter holds: the types, the writer each step finds, the
\* last file, and the calls each step belongs to.
THEOREM Invariance == Spec => []IInv
BY InitInv, NextInv, PTL DEF Spec

\* The control state keeps the types of the Rust fields.
THEOREM TypeCorrect == Spec => []TypeOK
<1>1. IInv => TypeOK
  BY DEF IInv
<1> QED
  BY <1>1, Invariance, PTL

\* However the calls are ordered and whatever fails, get_plain(), unwrap()
\* and unreachable!() in finish_file, start_entry and finalize find the
\* plain writer they expect; end_extra_data's get_plain() is the one that
\* may not (EndLocalExtraPanics).
THEOREM FinishFileHasPlainWriter == Spec => []GetPlainSafe
<1>1. IInv => GetPlainSafe
  BY DEF IInv
<1> QED
  BY <1>1, Invariance, PTL

\* The unwraps of files.last_mut() find a file.
THEOREM LastFileFound == Spec => []LastFileExists
<1>1. IInv => LastFileExists
  BY DEF IInv
<1> QED
  BY <1>1, Invariance, PTL

\* No step of a closed writer touches the sink, reopens the writer or
\* finishes the archive.
LEMMA ClosedStep ==
    ASSUME IInv, Next, IsClosed(inner)
    PROVE  UNCHANGED <<sinkVars, inner>> /\ status' \in {status, "dropped"}
<1>1. /\ ~IsPlain(inner)
      /\ pc \notin {"finish_crypto", "update_header", "local_header", "central",
                    "copy", "target"}
  BY DEF IInv, GetPlainSafe, SafeAt, IsClosed, IsPlain
<1>2. CASE \/ StartFile \/ StartFileWithExtraData \/ StartFileAligned
           \/ AddDirectory \/ AddSymlink \/ RawCopyFile
           \/ EndExtraData \/ EndLocalStartCentralExtraData \/ Finish
  <2>1. \E c, step : Begin(c, step)
    BY <1>2 DEF StartFile, StartFileWithExtraData, StartFileAligned,
         AddDirectory, AddSymlink, RawCopyFile, AddEntry,
         EndExtraData, EndLocalStartCentralExtraData, Finish
  <2> QED
    BY <2>1 DEF Begin, sinkVars
<1>3. CASE SetComment \/ Drop \/ Write \/ WriteRefused
  BY <1>3 DEF SetComment, Drop, Write, WriteRefused, Return, sinkVars
<1>4. CASE Flush
  BY <1>4 DEF Flush, Return, sinkVars
<1>5. CASE ExtraRefused \/ EndCentralExtra
  BY <1>5 DEF ExtraRefused, EndCentralExtra, ExtraEnded, Fail, Return, Goto,
              sinkVars
<1>6. CASE EndLocalExtraPanics \/ EndLocalExtra
  <2>1. ~EndLocalExtra
    BY <1>1 DEF EndLocalExtra
  <2>2. EndLocalExtraPanics => call.op # "drop"
    BY DEF EndLocalExtraPanics, EndingLocalExtra, IInv, CallFits, Fits
  <2> QED
    BY <1>6, <2>1, <2>2 DEF EndLocalExtraPanics, Panic, sinkVars
<1>7. CASE SwitchStored
  BY <1>7 DEF SwitchStored, Fail, sinkVars
<1>8. CASE \/ FinishCrypto \/ KeepHeader \/ UpdateHeader \/ StartEntry
           \/ CopyRaw \/ WriteTarget \/ WriteCentralHeader \/ WriteEndRecords
  BY <1>1, <1>8 DEF FinishCrypto, KeepHeader, UpdateHeader, StartEntry, CopyRaw,
                    WriteTarget, WriteCentralHeader, WriteEndRecords
<1> QED
  BY <1>2, <1>3, <1>4, <1>5, <1>6, <1>7, <1>8 DEF Next

\* A ZipWriter whose sink is gone (Closed: an error took it, or finish
\* returned it) never touches the sink, is never reopened, and never reports
\* that it finished an archive.
THEOREM ClosedStaysClosed == Spec => ClosedIsFinal
<1>1. IInv /\ [Next]_vars =>
        [IsClosed(inner) => /\ UNCHANGED <<sinkVars, inner>>
                            /\ status' \in {status, "dropped"}]_vars
  BY ClosedStep
<1> QED
  BY <1>1, Invariance, PTL DEF Spec, ClosedIsFinal
=============================================================================

------------------------------ MODULE Extract ------------------------------
(***************************************************************************)
(* ZipArchive::extract (src/read.rs) and ZipStreamReader::extract          *)
(* (src/read/stream.rs): the same archive, extracted by either into a      *)
(* directory of a file system as a process without privileges meets it.    *)
(*                                                                         *)
(* Each extractor has a copy of the file system, and they do not interact: *)
(* the stream is extracted after the archive so that the outcomes can be   *)
(* compared.  Any call to the file system may fail, and reading a damaged  *)
(* entry fails after any part of its data.                                 *)
(***************************************************************************)
EXTENDS EntryMetadata, Vectors

CONSTANTS
    Archives,   \* sequences of [name, data, opens, sound, made_by, attributes]:
                \* `opens' holds the extractors whose reader opens the entry,
                \* `sound' says whether its data can be read to the end
    Trees,      \* file systems to extract into
    Directory,  \* the path of the directory to extract into
    MaxFaults   \* bound: calls that fail for reasons of the file system

Extractors == {"archive", "stream"}

\* Directories are made with 0o755 and files with 0o644.
NewDirectory == [kind |-> "dir", data |-> << >>, mode |-> 493]
NewFile      == [kind |-> "file", data |-> << >>, mode |-> 420]

\* The twelve bits of a mode that chmod sets.
Modes == 0..4095

\* No place: where a path leads that cannot be walked.
Nowhere == <<"/">>

IsNode(node) ==
    /\ node = [kind |-> node.kind, data |-> node.data, mode |-> node.mode]
    /\ node.kind \in {"dir", "file"} /\ node.mode \in Modes

\* A file system: from paths to nodes, each in a directory.
IsTree(t) ==
    /\ t = [p \in DOMAIN t |-> t[p]] /\ Nowhere \notin DOMAIN t
    /\ << >> \in DOMAIN t
    /\ \A p \in DOMAIN t \ {<< >>} :
          IsSeq(p) /\ Front(p) \in DOMAIN t /\ t[Front(p)].kind = "dir"
    /\ \A p \in DOMAIN t : IsNode(t[p])

\* A "." is left by std::path only at the front.  Nothing but "." would be a
\* path that std::fs treats like no other; so would a last "." behind others,
\* which it drops from the components and not from the path.
ASSUME ExtractAssumption ==
    /\ IsSeq(Directory) /\ Directory # << >> /\ MaxFaults \in Nat
    /\ \A t \in Trees : IsTree(t)
    /\ \A a \in Archives : IsSeq(a) /\ \A i \in 1..Len(a) :
          LET c == a[i].name.components
          IN  /\ IsSeq(c) /\ c # <<".">> /\ \A k \in 2..Len(c) : c[k] # "."
              /\ a[i].attributes[1] \in U16 /\ IsSeq(a[i].data)

VARIABLES
    archive,    \* what is extracted
    before,     \* the file system at first: from paths to nodes
    tree,       \* of each extractor, its file system now
    at,         \* of each extractor, [entry, step, copied]
    result,     \* of each extractor, "running", "ok" or "error"
    faults

vars == <<archive, before, tree, at, result, faults>>

-----------------------------------------------------------------------------
(***************************************************************************)
(* The file system (external): paths are walked component by component,    *)
(* through directories the process may search.                             *)
(***************************************************************************)
Searchable(node) == (node.mode \div 64) % 2 = 1
Writable(node)   == (node.mode \div 128) % 2 = 1

\* Where a component leads from a place, by its name alone.
Walk(place, component) ==
    IF component = ".." THEN (IF place = << >> THEN place ELSE Front(place))
    ELSE IF component = "." THEN place
    ELSE Append(place, component)

Lookup(t, place, component) ==
    IF \/ place \notin DOMAIN t \/ place = Nowhere
       \/ t[place].kind # "dir" \/ ~Searchable(t[place])
    THEN Nowhere
    ELSE Walk(place, component)

Reached(t, path) == FoldLeft(LAMBDA place, c : Lookup(t, place, c), << >>, path)

Exists(t, path) == Reached(t, path) \in DOMAIN t
IsDir(t, path)  == Exists(t, path) /\ t[Reached(t, path)].kind = "dir"

\* May something new be made at this path?
Free(t, path) ==
    LET place == Reached(t, path)
    IN  /\ place # Nowhere /\ place \notin DOMAIN t
        /\ Writable(t[Front(place)])

\* A new node at a place.
Plus(t, place, node) ==
    [p \in DOMAIN t \cup {place} |-> IF p = place THEN node ELSE t[p]]

\* fs::create_dir_all, from the top: what was made stays when it fails.
CreateDir(path, done, n) ==
    LET p == SubSeq(path, 1, n)
    IN  IF ~done.ok \/ IsDir(done.tree, p) THEN done
        ELSE IF Free(done.tree, p)
        THEN [tree |-> Plus(done.tree, Reached(done.tree, p), NewDirectory),
              ok |-> TRUE]
        ELSE [tree |-> done.tree, ok |-> FALSE]

CreateDirAll(t, path) ==
    FoldLeft(LAMBDA done, n : CreateDir(path, done, n),
             [tree |-> t, ok |-> TRUE], [n \in 1..Len(path) |-> n])

\* fs::File::create: a new file, or an old one that loses its content and
\* keeps its mode.
CanCreate(t, path) ==
    \/ Free(t, path)
    \/ /\ Exists(t, path)
       /\ t[Reached(t, path)].kind = "file" /\ Writable(t[Reached(t, path)])

Created(t, path) ==
    LET place == Reached(t, path)
    IN  IF Exists(t, path) THEN [t EXCEPT ![place].data = << >>]
        ELSE Plus(t, place, NewFile)

-----------------------------------------------------------------------------
Entry(x)   == archive[at[x].entry]
OutPath(e) == Directory \o e.name.components

\* An empty name is joined as "directory/", where no file can be.
NamesFile(e) == e.name.components # << >>

Mode(e)    == UnixMode(SystemFrom(e.made_by), e.attributes)

Init ==
    /\ archive \in Archives
    /\ before \in Trees
    /\ tree = [x \in Extractors |-> before]
    /\ at = [x \in Extractors |-> [entry |-> 1, step |-> "open", copied |-> 0]]
    /\ result = [x \in Extractors |-> "running"]
    /\ faults = 0

AtStep(x, step) ==
    /\ result[x] = "running" /\ at[x].step = step
    /\ x = "stream" => result["archive"] # "running"
    /\ UNCHANGED <<archive, before>>

GoTo(x, step) ==
    /\ at' = [at EXCEPT ![x].step = step, ![x].copied = 0]
    /\ UNCHANGED result

\* The slip: an entry is passed over after one that was extracted.
SkipEntry(x) ==
    /\ at' = [at EXCEPT ![x] = [entry |-> @.entry + 2, step |-> "open", copied |-> 0]]
    /\ UNCHANGED result

NextEntry(x) ==
    /\ at' = [at EXCEPT ![x] = [entry |-> @.entry + 1, step |-> "open", copied |-> 0]]
    /\ UNCHANGED result

Fail(x) == result' = [result EXCEPT ![x] = "error"] /\ UNCHANGED at

\* Only ZipArchive::extract sets the permissions of an entry: the stream
\* would with the directory, which it never gets to.
AfterEntry(x) == IF x = "archive" THEN GoTo(x, "mode") ELSE NextEntry(x)

\* by_index, or the next entry of the stream, and enclosed_name.
OpenEntry(x) ==
    /\ AtStep(x, "open") /\ at[x].entry <= Len(archive)
    /\ IF x \in Entry(x).opens /\ Enclosed(Entry(x).name)
       THEN GoTo(x, "directories") ELSE Fail(x)
    /\ UNCHANGED <<tree, faults>>

\* A stream without entries begins with an end record, which read.rs 1040
\* takes for an invalid local header.
Finish(x) ==
    /\ AtStep(x, "open") /\ at[x].entry > Len(archive)
    /\ result' = [result EXCEPT ![x] =
                    IF x = "stream" /\ archive = << >> THEN "error" ELSE "ok"]
    /\ UNCHANGED <<tree, at, faults>>

\* The slip: the stream leaves the parent of a file to its directory entry.
DirectoriesOfEntries(x, t, e) ==
    IF e.name.slash THEN CreateDirAll(t, OutPath(e))
    ELSE IF x = "stream" \/ Exists(t, Front(OutPath(e)))
    THEN [tree |-> t, ok |-> TRUE]
    ELSE CreateDirAll(t, Front(OutPath(e)))

\* The directories an entry needs; the archive first looks if there is one.
Directories(x, t, e) ==
    IF e.name.slash THEN CreateDirAll(t, OutPath(e))
    ELSE IF x = "archive" /\ Exists(t, Front(OutPath(e)))
    THEN [tree |-> t, ok |-> TRUE]
    ELSE CreateDirAll(t, Front(OutPath(e)))

MakeDirectories(x) ==
    /\ AtStep(x, "directories")
    /\ LET made == Directories(x, tree[x], Entry(x))
       IN  /\ tree' = [tree EXCEPT ![x] = made.tree]
           /\ IF ~made.ok THEN Fail(x)
              ELSE IF Entry(x).name.slash THEN AfterEntry(x)
              ELSE GoTo(x, "create")
    /\ UNCHANGED faults

\* The slip: OpenOptions without truncate.
CreateFileInPlace(x) ==
    /\ AtStep(x, "create")
    /\ IF NamesFile(Entry(x)) /\ CanCreate(tree[x], OutPath(Entry(x)))
       THEN /\ tree' = [tree EXCEPT ![x] =
                          IF Exists(@, OutPath(Entry(x))) THEN @
                          ELSE Created(@, OutPath(Entry(x)))]
            /\ GoTo(x, "copy")
       ELSE Fail(x) /\ UNCHANGED tree
    /\ UNCHANGED faults

\* The slip: create_new, which refuses to overwrite.
CreateFileAnew(x) ==
    /\ AtStep(x, "create")
    /\ IF NamesFile(Entry(x)) /\ Free(tree[x], OutPath(Entry(x)))
       THEN /\ tree' = [tree EXCEPT ![x] = Created(@, OutPath(Entry(x)))]
            /\ GoTo(x, "copy")
       ELSE Fail(x) /\ UNCHANGED tree
    /\ UNCHANGED faults

CreateFile(x) ==
    /\ AtStep(x, "create")
    /\ IF NamesFile(Entry(x)) /\ CanCreate(tree[x], OutPath(Entry(x)))
       THEN /\ tree' = [tree EXCEPT ![x] = Created(@, OutPath(Entry(x)))]
            /\ GoTo(x, "copy")
       ELSE Fail(x) /\ UNCHANGED tree
    /\ UNCHANGED faults

\* io::copy, one cell at a time.
Written(old, n, cell) ==
    [i \in 1..IF n < Len(old) THEN Len(old) ELSE n + 1 |->
        IF i = n + 1 THEN cell ELSE old[i]]

CopyCell(x) ==
    /\ AtStep(x, "copy") /\ at[x].copied < Len(Entry(x).data)
    /\ LET n == at[x].copied
           place == Reached(tree[x], OutPath(Entry(x)))
       IN  tree' = [tree EXCEPT ![x][place].data = Written(@, n, Entry(x).data[n + 1])]
    /\ at' = [at EXCEPT ![x].copied = @ + 1]
    /\ UNCHANGED <<result, faults>>

ReadFails(x) ==
    /\ AtStep(x, "copy") /\ ~Entry(x).sound
    /\ Fail(x) /\ UNCHANGED <<tree, faults>>

CopyEnds(x) ==
    /\ AtStep(x, "copy") /\ Entry(x).sound
    /\ at[x].copied = Len(Entry(x).data)
    /\ AfterEntry(x) /\ UNCHANGED <<tree, faults>>

\* The slip: permissions for what is not a directory only.
SetPermissionsOfFiles(x) ==
    /\ AtStep(x, "mode")
    /\ IF Mode(Entry(x)) = None \/ Entry(x).name.slash
       THEN NextEntry(x) /\ UNCHANGED tree
       ELSE LET place == Reached(tree[x], OutPath(Entry(x)))
            IN  /\ tree' = [tree EXCEPT ![x][place].mode = Mode(Entry(x)) % 4096]
                /\ NextEntry(x)
    /\ UNCHANGED faults

\* chmod by path, of whatever the path leads to now.
SetPermissions(x) ==
    /\ AtStep(x, "mode")
    /\ IF Mode(Entry(x)) = None
       THEN NextEntry(x) /\ UNCHANGED tree
       ELSE LET place == Reached(tree[x], OutPath(Entry(x)))
            IN  IF place \in DOMAIN tree[x]
                THEN /\ tree' = [tree EXCEPT ![x][place].mode = Mode(Entry(x)) % 4096]
                     /\ NextEntry(x)
                ELSE Fail(x) /\ UNCHANGED tree
    /\ UNCHANGED faults

\* A call that fails for a reason of its own; create_dir_all may have made
\* some of the directories.
SystemFails(x) ==
    /\ faults < MaxFaults
    /\ \E step \in {"directories", "create", "copy", "mode"} :
          /\ AtStep(x, step)
          /\ IF step = "directories"
             THEN \E n \in 0..Len(OutPath(Entry(x))) - 1 :
                    tree' = [tree EXCEPT ![x] =
                               CreateDirAll(@, SubSeq(OutPath(Entry(x)), 1, n)).tree]
             ELSE UNCHANGED tree
    /\ Fail(x)
    /\ faults' = faults + 1

Next ==
    \E x \in Extractors :
        \/ OpenEntry(x)
        \/ MakeDirectories(x)
        \/ CreateFile(x)
        \/ CopyCell(x)
        \/ ReadFails(x)
        \/ CopyEnds(x)
        \/ SetPermissions(x)
        \/ Finish(x)
        \/ SystemFails(x)

Spec == Init /\ [][Next]_vars

-----------------------------------------------------------------------------
(***************************************************************************)
(* Where an entry belongs, by its name alone.                              *)
(***************************************************************************)
Normal(components) == FoldLeft(Walk, << >>, components)

Place(e) == Normal(OutPath(e))

\* The directory and what is below it, and the places on the way to it.
Inside(p)   == IsPrefix(Normal(Directory), p)
OnTheWay(p) == \E n \in 0..Len(Directory) : p = Normal(SubSeq(Directory, 1, n))

\* The places a path passes through, its own included.
Passed(e) == { Normal(SubSeq(OutPath(e), 1, n)) : n \in 0..Len(OutPath(e)) }

Started(x) == { i \in 1..Len(archive) : i <= at[x].entry }
Done(x)    == { i \in 1..Len(archive) : i < at[x].entry }

\* Is entry i the last of the entries in S with its place?
LastOfIts(i, S) == \A k \in S : Place(archive[k]) = Place(archive[i]) => k <= i

TypeOK ==
    /\ archive \in Archives /\ before \in Trees
    /\ \A x \in Extractors : IsTree(tree[x])
    /\ at \in [Extractors -> [entry : 1..Len(archive) + 1,
                              step : {"open", "directories", "create", "copy", "mode"},
                              copied : Nat]]
    /\ result \in [Extractors -> {"running", "ok", "error"}]
    /\ faults \in 0..MaxFaults

\* Extraction stays inside the directory and changes nothing it was not asked
\* to: what lies outside is as it was, the directory itself aside; inside, only
\* what an entry names or passes through is new, and only what an entry names
\* is not as it was (read.rs 455-458, types.rs 383-398).
StaysInside ==
    \A x \in Extractors :
        /\ \A p \in DOMAIN before :
              \/ p \in DOMAIN tree[x] /\ tree[x][p] = before[p]
              \/ /\ Inside(p)
                 /\ \E i \in Started(x) : p = Place(archive[i])
        /\ \A p \in DOMAIN tree[x] \ DOMAIN before :
              /\ Inside(p) \/ OnTheWay(p)
              /\ \E i \in Started(x) : p \in Passed(archive[i])

\* At every moment, after a failure too, the entries before the current one
\* are all there, of entries with one place the last; and the file the current
\* one is copied to holds the beginning of its data and nothing else
\* ("overwriting files if they already exist", read.rs 443-479).
EntriesDelivered ==
    \A x \in Extractors :
        /\ \A i \in Done(x) :
              LET p == Place(archive[i])
              IN  /\ p \in DOMAIN tree[x]
                  /\ IF archive[i].name.slash THEN tree[x][p].kind = "dir"
                     ELSE /\ tree[x][p].kind = "file"
                          /\ LastOfIts(i, Started(x)) => tree[x][p].data = archive[i].data
        /\ at[x].step = "copy" =>
              tree[x][Place(Entry(x))].data = SubSeq(Entry(x).data, 1, at[x].copied)

\* What ZipArchive::extract has gone past has the mode of the last of its
\* entries that gives one, and nothing else has another mode than it had, or
\* than a new file or directory gets; the stream sets no modes at all
\* (read.rs 470-477, types.rs 401-423).
ModesApplied ==
    \A x \in Extractors : \A p \in DOMAIN tree[x] :
        LET given == { i \in Done(x) : x = "archive" /\ Mode(archive[i]) # None
                                         /\ Place(archive[i]) = p }
        IN  tree[x][p].mode =
              IF given # {}
              THEN Mode(archive[CHOOSE i \in given : \A k \in given : k <= i]) % 4096
              ELSE IF p \in DOMAIN before THEN before[p].mode
              ELSE IF tree[x][p].kind = "dir" THEN NewDirectory.mode ELSE NewFile.mode

-----------------------------------------------------------------------------
\* The directories that the path of an entry leads through, by name.
Through(e) == { Normal(SubSeq(OutPath(e), 1, n)) : n \in 0..Len(OutPath(e)) - 1 }

IsFile(e, p)   == ~e.name.slash /\ Place(e) = p
NeedsDir(e, p) == p \in Through(e) \/ (e.name.slash /\ p = Place(e))

\* Entries that ask for nothing unusual: every one opens and reads, its path
\* goes down only, and none is a file where another needs a directory.
Plain ==
    /\ \A i \in 1..Len(archive) :
          LET e == archive[i]
          IN  /\ e.opens = Extractors /\ e.sound
              /\ e.name.slash \/ NamesFile(e)
              /\ ".." \notin ToSet(e.name.components)
              /\ ToSet(OutPath(e)) \cap {"/", "NUL"} = {}
              /\ \A p \in Passed(e) \cap DOMAIN before :
                    IF NeedsDir(e, p) THEN before[p].kind = "dir"
                    ELSE before[p].kind = "file"
    /\ \A i, k \in 1..Len(archive) : \A p \in Passed(archive[i]) :
          NeedsDir(archive[i], p) => ~IsFile(archive[k], p)

\* Nothing in the way of a process that owns the file system.
Accessible ==
    \A p \in DOMAIN before :
        Writable(before[p]) /\ (before[p].kind = "dir" => Searchable(before[p]))

\* An entry that was extracted earlier has made the file that entry i writes
\* read-only, or a directory on the way to it.
LockedOut(i) ==
    \E k \in 1..i - 1 :
        LET e    == archive[k]
            node == [mode |-> Mode(e) % 4096]
        IN  /\ Mode(e) # None
            /\ IF e.name.slash
               THEN /\ Place(e) \in Through(archive[i])
                    /\ ~Writable(node) \/ ~Searchable(node)
               ELSE Place(e) = Place(archive[i]) /\ ~Writable(node)

\* Entries that ask for nothing unusual are extracted, also over files that
\* are there, with directories of which the archive has no entry, and twice in
\* one archive; except that ZipArchive::extract, which sets the permissions of
\* an entry before it goes on, may not get into its own directories, or over
\* its own files, again (read.rs 448-479, read/stream.rs 60-82); and that an
\* archive without entries is none to the stream (read.rs 1040).
PlainArchivesExtract ==
    Plain /\ Accessible /\ faults = 0 =>
        /\ archive # << >> => result["stream"] # "error"
        /\ result["archive"] = "error" => LockedOut(at["archive"].entry)

\* Where nothing is in the way, what ZipArchive::extract extracts the stream
\* extracts too, if there are entries and it opens them, and to the same
\* files: they differ only in modes (read.rs 448-479, read/stream.rs 60-82).
ExtractorsAgree ==
    /\ Accessible /\ faults = 0 /\ result["archive"] = "ok" /\ archive # << >>
    /\ \A i \in 1..Len(archive) : archive[i].opens = Extractors
    =>  /\ result["stream"] # "error"
        /\ result["stream"] = "ok" =>
              LET a == tree["archive"]
                  s == tree["stream"]
              IN  /\ DOMAIN a = DOMAIN s
                  /\ \A p \in DOMAIN a : [a[p] EXCEPT !.mode = 0] = [s[p] EXCEPT !.mode = 0]
=============================================================================

----------------------------- MODULE MCExtract -----------------------------
(***************************************************************************)
(* Archives of up to three entries, over names that meet: a file and the   *)
(* directories above it, one place under several names, names that leave   *)
(* the directory; and file systems in which some of it is there before.    *)
(***************************************************************************)
EXTENDS Extract, TLC

MCDirectory == <<"out">>

File(c)   == [components |-> c, slash |-> FALSE]
Folder(c) == [components |-> c, slash |-> TRUE]

Both == {"archive", "stream"}

\* Attributes of an entry made on Unix with this mode.
Unix(mode) == <<mode, 0>>
Dos(bits)  == <<0, bits>>

Item(name, data, made_by, attributes) ==
    [name |-> name, data |-> data, opens |-> Both, sound |-> TRUE,
     made_by |-> made_by, attributes |-> attributes]

\* Entries that can be extracted, alone or after others.
Folders ==
    { Item(Folder(<<"d">>), << >>, 3, Unix(16749)),     \* 0o40555
      Item(Folder(<<"d">>), << >>, 3, Dos(16)),         \* Unix, and no mode
      Item(Folder(<<"d", "e">>), << >>, 0, Dos(16)) }

Files ==
    { Item(File(<<"f">>), <<"x">>, 3, Unix(33188)),     \* 0o100644
      Item(File(<<"d">>), <<"x">>, 3, Unix(33261)),     \* 0o100755
      Item(File(<<".", "d", "f">>), <<"z">>, 3, Dos(0)) }

\* Entries that meet the others.
Later ==
    { Item(File(<<"f">>), <<"y", "y">>, 0, Dos(1)),     \* read-only
      Item(File(<<"d", "e", "f">>), <<"w">>, 7, Dos(32)),
      Item(File(<<"d", "..", "f">>), <<"v">>, 3, Unix(33206)) }

Items == Folders \cup Files \cup Later

\* Entries that cannot be extracted, by one extractor or both.
Hopeless ==
    { Item(File(<<"..", "victim">>), <<"u">>, 3, Dos(0)),
      Item(File(<<"d", "..", "..", "victim">>), <<"u">>, 3, Dos(0)),
      Item(File(<<"/", "victim">>), <<"u">>, 3, Dos(0)),
      Item(File(<<"f", "NUL">>), <<"u">>, 3, Dos(0)),
      Item(File(<< >>), <<"u">>, 3, Dos(0)),
      [Item(File(<<"f">>), <<"x", "y">>, 3, Dos(0)) EXCEPT !.sound = FALSE],
      [Item(File(<<"d", "f">>), <<"x">>, 3, Dos(0)) EXCEPT !.opens = {"archive"}] }

MCArchives ==
    {<< >>} \cup { <<a, b, c>> : a, b \in Items, c \in Later }
        \cup { <<a, b>> : a \in Items, b \in Hopeless }

Node(k, d, m) == [kind |-> k, data |-> d, mode |-> m]
Root == (<< >> :> NewDirectory) @@ (<<"victim">> :> Node("file", <<"k">>, 420))

\* Nothing there; the directory with an older and longer f; with a directory d
\* that the process may not write to; with a file that it may not write to.
MCTrees ==
    { Root,
      (<<"out">> :> NewDirectory) @@ (<<"out", "f">> :> Node("file", <<"o", "o", "o">>, 384)) @@ Root,
      (<<"out">> :> NewDirectory) @@ (<<"out", "d">> :> Node("dir", << >>, 365)) @@ Root,
      (<<"out">> :> NewDirectory) @@ (<<"out", "d">> :> NewDirectory)
          @@ (<<"out", "d", "f">> :> Node("file", <<"o">>, 292)) @@ Root }
=============================================================================

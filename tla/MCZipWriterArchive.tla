------------------------- MODULE MCZipWriterArchive -------------------------
(***************************************************************************)
(* Small instances of ZipWriter under observation.                         *)
(***************************************************************************)
EXTENDS MCZipWriter, ZipWriterArchive
=============================================================================

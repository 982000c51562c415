------------------------- MODULE MCZipWriterHistory -------------------------
(***************************************************************************)
(* Small instances of ZipWriter with its history.                          *)
(***************************************************************************)
EXTENDS MCZipWriter, ZipWriterHistory
=============================================================================

------------------------------ MODULE Vectors ------------------------------
(***************************************************************************)
(* A Vec whose element type does not matter.                               *)
(***************************************************************************)
EXTENDS Sequences

IsSeq(s) == s \in Seq({s[i] : i \in DOMAIN s})
=============================================================================

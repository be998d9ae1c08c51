----------------------------- MODULE MCPageFile -----------------------------
(***************************************************************************)
(* The instances of PageFile that TLC checks.                              *)
(***************************************************************************)
EXTENDS PageFile

NoRecords == "blank"
AnyRecords == {NoRecords, "a", "b"}
=============================================================================

------------------------------- MODULE MCPage -------------------------------
(***************************************************************************)
(* The instances of Page that TLC checks.                                  *)
(***************************************************************************)
EXTENDS Page

CONSTANTS a, b   \* bytes other than 0

(* Records of lengths to three; one that begins like an unused slot.      *)
SomeRecords == {<<>>, <<a>>, <<NUL, b, a>>}
=============================================================================

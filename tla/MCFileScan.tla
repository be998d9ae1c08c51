----------------------------- MODULE MCFileScan -----------------------------
(***************************************************************************)
(* The instances of FileScan that TLC checks: a page holds no records or   *)
(* two, two callers have a File object each, and there is a second file.   *)
(***************************************************************************)
EXTENDS FileScan, TLC

CONSTANTS h1, h2

NoRecords == "blank"
AnyRecords == {NoRecords, "two"}
HowMany == [d \in AnyRecords |-> IF d = NoRecords THEN 0 ELSE 2]

(* The callers are alike. *)
Alike == Permutations({h1, h2})

(* How the last call ended matters to the next only if there is none, and  *)
(* of the streams only which are the same.                                 *)
SameStream == {<<h, n>> \in Handle \X DOMAIN open_files : handle[h].stream = open_files[n].stream}
SystemState ==
    <<fileVars, on_disk, [n \in DOMAIN open_files |-> open_files[n].count],
      [h \in Handle |-> handle[h].filename], SameStream, scanVars, Alive>>
=============================================================================

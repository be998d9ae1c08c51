----------------------------- MODULE MCBufMgr -----------------------------
(***************************************************************************)
(* The instances of BufMgr that TLC checks.                                *)
(***************************************************************************)
EXTENDS BufMgrStore, TLC

CONSTANTS h1, h2, p1, p2, p3, d1

(* Every File object has a file of its own, or both have the same open. *)
OwnFile == [h \in File |-> h]
SameFile == [h \in File |-> "file"]

Symmetry == Permutations(File) \cup Permutations(PageNo)
=============================================================================

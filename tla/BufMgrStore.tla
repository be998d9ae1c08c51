---------------------------- MODULE BufMgrStore ----------------------------
(***************************************************************************)
(* The buffer manager implements the page store of PageStore.tla.  A page  *)
(* holds what its frame holds when it is in the pool and what the disk     *)
(* holds when it is not; its pins are those of its frame.  Frames, dirty   *)
(* bits, reference bits and the clock hand are out of a caller's sight.    *)
(***************************************************************************)
EXTENDS BufMgr

Resident(k) == hashTable[k] # NoFrame

StoreContent ==
    [k \in PageKey |-> IF Resident(k) THEN bufPool[hashTable[k]] ELSE disk[DiskPage(k)]]

StorePins ==
    [k \in PageKey |-> IF Resident(k) THEN bufDescTable[hashTable[k]].pinCnt ELSE 0]

Store == INSTANCE PageStore WITH content <- StoreContent, pins <- StorePins

(* Every call does to the store what the contract says that call does:     *)
(* what is read is what was last written, across evictions, flushes and    *)
(* restarts, and a page is refused only when NumBufs pages are pinned.     *)
ImplementsStore == Store!Spec
=============================================================================

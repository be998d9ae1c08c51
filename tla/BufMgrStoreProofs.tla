------------------------- MODULE BufMgrStoreProofs --------------------------
(***************************************************************************)
(* Proof that the buffer manager implements the page store, for any pool   *)
(* size, any files and pages, any page contents, when every File object    *)
(* has a file of its own.                                                  *)
(***************************************************************************)
EXTENDS BufMgrStore, BufMgrProofs

-----------------------------------------------------------------------------
(* A page in the pool and a page that is not, as the store has them. *)

LEMMA HitView ==
    ASSUME IInv, NEW f \in Frames, InUse(f)
    PROVE  /\ bufDescTable[f].page \in PageKey
           /\ hashTable[bufDescTable[f].page] = f
           /\ StoreContent[bufDescTable[f].page] = bufPool[f]
           /\ StorePins[bufDescTable[f].page] = bufDescTable[f].pinCnt
<1>1. bufDescTable[f].page \in PageKey
  BY DEF IInv, TypeOK, InUse, BufDesc
<1>2. hashTable[bufDescTable[f].page] = f /\ f # NoFrame
  BY <1>1, FileAssumption, NumBufsAssumption DEF IInv, HashAgrees, Frames
<1> QED
  BY <1>1, <1>2 DEF StoreContent, StorePins, Resident

LEMMA MissView ==
    ASSUME NEW k \in PageKey, hashTable[k] = NoFrame
    PROVE  StoreContent[k] = disk[DiskPage(k)] /\ StorePins[k] = 0
  BY DEF StoreContent, StorePins, Resident

LEMMA HitOrMiss ==
    ASSUME IInv, NEW k \in PageKey
    PROVE  \/ hashTable[k] = NoFrame
           \/ hashTable[k] \in Frames /\ InUse(hashTable[k]) /\ bufDescTable[hashTable[k]].page = k
  BY DEF IInv, TypeOK, HashAgrees

(* The store is full when no frame can be given away. *)
AllPinned == \A f \in Frames : InUse(f) /\ bufDescTable[f].pinCnt > 0

(* Both modules count with the operator of FiniteSets. *)
LEMMA SameCardinality ==
    ASSUME NEW S
    PROVE  Store!Cardinality(S) = Cardinality(S)
  BY DEF Store!Cardinality, Cardinality

(* Pages that are pinned and frames that are correspond one to one. *)
LEMMA FullMeansAllPinned ==
    ASSUME IInv
    PROVE  Store!Full <=> AllPinned
<1> DEFINE Held == {f \in Frames : InUse(f) /\ bufDescTable[f].pinCnt > 0}
           PageOf == [f \in Held |-> bufDescTable[f].page]
<1>1. IsFiniteSet(Frames) /\ Cardinality(Frames) = NumBufs
  BY FS_Interval, NumBufsAssumption DEF Frames
<1>2. /\ IsFiniteSet(Held)
      /\ Cardinality(Frames) = Cardinality(Held) => Frames = Held
  BY <1>1, FS_Subset
<1>3. \A f \in Held : PageOf[f] \in Store!Pinned
  BY HitView DEF Store!Pinned, Store!PageKey, PageKey
<1>4. ASSUME NEW k \in Store!Pinned
      PROVE  \E f \in Held : PageOf[f] = k
  <2>1. k \in PageKey /\ StorePins[k] > 0
    BY <1>4 DEF Store!Pinned, Store!PageKey, PageKey
  <2>2. hashTable[k] # NoFrame
    BY <2>1, MissView
  <2>3. hashTable[k] \in Held /\ PageOf[hashTable[k]] = k
    BY <2>1, <2>2, HitOrMiss, HitView
  <2> QED
    BY <2>3
<1>5. \A f, g \in Held : PageOf[f] = PageOf[g] => f = g
  BY DEF IInv, HashAgrees, TypeOK, BufDesc, InUse
<1>6. PageOf \in Bijection(Held, Store!Pinned)
  <2>1. PageOf \in [Held -> Store!Pinned]
    BY <1>3
  <2> HIDE DEF Held, PageOf
  <2> QED
    BY <1>4, <1>5, <2>1 DEF Bijection, Injection, Surjection, IsInjective
<1>7. Cardinality(Store!Pinned) = Cardinality(Held)
  BY <1>2, <1>6, FS_Bijection DEF ExistsBijection
<1>8. Store!Full <=> Frames = Held
  BY <1>1, <1>2, <1>7, SameCardinality DEF Store!Full
<1> QED
  BY <1>8 DEF AllPinned

-----------------------------------------------------------------------------
(* What a call does to the view of one page. *)

(* The page stays in its frame, stays out of the pool, or leaves it        *)
(* unpinned and saved.                                                     *)
Stays(k) ==
    \E f \in Frames :
        /\ InUse(f) /\ bufDescTable[f].page = k
        /\ SameFrame(f) /\ bufPool'[f] = bufPool[f]

StaysOut(k) ==
    /\ hashTable[k] = NoFrame /\ hashTable'[k] = NoFrame
    /\ disk'[DiskPage(k)] = disk[DiskPage(k)]

Leaves(k) ==
    \E f \in Frames :
        /\ InUse(f) /\ bufDescTable[f].page = k /\ bufDescTable[f].pinCnt = 0
        /\ hashTable'[k] = NoFrame /\ disk'[DiskPage(k)] = bufPool[f]

SameView(k) == Stays(k) \/ StaysOut(k) \/ Leaves(k)

LEMMA HitViewNext ==
    ASSUME IInv', NEW f \in Frames, InUse(f)'
    PROVE  /\ bufDescTable'[f].page \in PageKey
           /\ StoreContent'[bufDescTable'[f].page] = bufPool'[f]
           /\ StorePins'[bufDescTable'[f].page] = bufDescTable'[f].pinCnt
<1>1. bufDescTable'[f].page \in PageKey
  BY DEF IInv, TypeOK, InUse, BufDesc
<1>2. hashTable'[bufDescTable'[f].page] = f /\ f # NoFrame
  BY <1>1, FileAssumption, NumBufsAssumption DEF IInv, HashAgrees, Frames
<1> QED
  BY <1>1, <1>2 DEF StoreContent, StorePins, Resident

LEMMA MissViewNext ==
    ASSUME NEW k \in PageKey, hashTable'[k] = NoFrame
    PROVE  StoreContent'[k] = disk'[DiskPage(k)] /\ StorePins'[k] = 0
  BY DEF StoreContent, StorePins, Resident, DiskPage

LEMMA KeptView ==
    ASSUME IInv, IInv', NEW k \in PageKey, SameView(k)
    PROVE  StoreContent'[k] = StoreContent[k] /\ StorePins'[k] = StorePins[k]
<1>1. CASE Stays(k)
  <2>1. PICK f \in Frames : /\ InUse(f) /\ bufDescTable[f].page = k
                            /\ SameFrame(f) /\ bufPool'[f] = bufPool[f]
    BY <1>1 DEF Stays
  <2>2. InUse(f)' /\ bufDescTable'[f].page = k /\ bufDescTable'[f].pinCnt = bufDescTable[f].pinCnt
    BY <2>1 DEF SameFrame, InUse
  <2> QED
    BY <2>1, <2>2, HitView, HitViewNext
<1>2. CASE StaysOut(k)
  BY <1>2, MissView, MissViewNext DEF StaysOut
<1>3. CASE Leaves(k)
  BY <1>3, HitView, MissViewNext DEF Leaves
<1> QED
  BY <1>1, <1>2, <1>3 DEF SameView

(* A call that touches no page the store knows of. *)
LEMMA ViewUnchanged ==
    ASSUME IInv, IInv', \A k \in PageKey : SameView(k)
    PROVE  StoreContent' = StoreContent /\ StorePins' = StorePins
<1>1. \A k \in PageKey : StoreContent'[k] = StoreContent[k] /\ StorePins'[k] = StorePins[k]
  BY KeptView
<1>2. /\ StoreContent = [k \in PageKey |-> StoreContent[k]]
      /\ StoreContent' = [k \in PageKey |-> StoreContent'[k]]
  BY DEF StoreContent
<1>3. /\ StorePins = [k \in PageKey |-> StorePins[k]]
      /\ StorePins' = [k \in PageKey |-> StorePins'[k]]
  BY DEF StorePins
<1> QED
  BY <1>1, <1>2, <1>3

(* A call that touches one. *)
LEMMA ViewOfOne ==
    ASSUME IInv, IInv', NEW k \in PageKey, \A j \in PageKey \ {k} : SameView(j)
    PROVE  /\ StoreContent' = [StoreContent EXCEPT ![k] = StoreContent'[k]]
           /\ StorePins' = [StorePins EXCEPT ![k] = StorePins'[k]]
<1>1. \A j \in PageKey \ {k} : StoreContent'[j] = StoreContent[j] /\ StorePins'[j] = StorePins[j]
  BY KeptView
<1>2. /\ StoreContent = [j \in PageKey |-> StoreContent[j]]
      /\ StoreContent' = [j \in PageKey |-> StoreContent'[j]]
  BY DEF StoreContent
<1>3. /\ StorePins = [j \in PageKey |-> StorePins[j]]
      /\ StorePins' = [j \in PageKey |-> StorePins'[j]]
  BY DEF StorePins
<1>4. StoreContent' = [StoreContent EXCEPT ![k] = StoreContent'[k]]
  BY <1>1, <1>2
<1>5. StorePins' = [StorePins EXCEPT ![k] = StorePins'[k]]
  BY <1>1, <1>3
<1> QED
  BY <1>4, <1>5

-----------------------------------------------------------------------------
(* Writing back. *)

(* A page that leaves its frame unpinned is on disk then. *)
LEMMA Saved ==
    ASSUME OwnFiles, IInv, NEW F \in SUBSET Frames, NEW f \in F, InUse(f),
           bufDescTable[f].dirty \/ bufDescTable[f].pinCnt = 0
    PROVE  WrittenBack(F)[DiskPage(bufDescTable[f].page)] = bufPool[f]
<1>1. CASE bufDescTable[f].dirty
  BY <1>1, WrittenBackDisk
<1>2. CASE ~bufDescTable[f].dirty
  <2>1. bufPool[f] = disk[DiskPage(bufDescTable[f].page)]
    BY <1>2 DEF IInv, CleanMatchesDisk
  <2>2. DiskPage(bufDescTable[f].page) \in DiskKey
    BY HitView DEF DiskKey
  <2>3. ASSUME NEW g \in F, DirtyFor(g, DiskPage(bufDescTable[f].page)) PROVE FALSE
    <3>1. InUse(g)
      BY <2>3 DEF IInv, TypeOK, DirtyFor, Clear
    <3>2. g = f
      BY <2>3, <3>1, OneFrame DEF IInv, OneFramePerPage, DirtyFor
    <3> QED
      BY <1>2, <2>3, <3>2 DEF DirtyFor
  <2> QED
    BY <2>1, <2>2, <2>3, WrittenBackDisk
<1> QED
  BY <1>1, <1>2

(* A page that is in none of the frames written is not touched. *)
LEMMA NotWritten ==
    ASSUME OwnFiles, IInv, NEW F \in SUBSET Frames, NEW k \in PageKey, hashTable[k] = NoFrame
    PROVE  WrittenBack(F)[DiskPage(k)] = disk[DiskPage(k)]
<1>1. DiskPage(k) \in DiskKey
  BY DEF DiskKey
<1>2. ASSUME NEW g \in F, DirtyFor(g, DiskPage(k)) PROVE FALSE
  <2>1. InUse(g)
    BY <1>2 DEF IInv, TypeOK, DirtyFor, Clear
  <2>2. bufDescTable[g].page = k
    BY <1>2, <2>1, HitView, DiskPageInjective DEF DirtyFor
  <2> QED
    BY <2>1, <2>2, HitView, FileAssumption, NumBufsAssumption DEF Frames
<1> QED
  BY <1>1, <1>2, WrittenBackDisk

-----------------------------------------------------------------------------
(* allocBuf, seen from the store. *)

LEMMA NotFull ==
    ASSUME IInv, NEW n \in Scans, Chosen(n)
    PROVE  ~Store!Full
<1>1. ScanFrame(n) \in Frames /\ (InUse(ScanFrame(n)) => bufDescTable[ScanFrame(n)].pinCnt = 0)
  BY ChosenFrame DEF IInv
<1> QED
  BY <1>1, FullMeansAllPinned DEF AllPinned

(* To every page but the one that takes the frame an eviction is nothing.  *)
LEMMA EvictionKeeps ==
    ASSUME OwnFiles, IInv, NEW n \in Scans, Chosen(n), NEW j \in PageKey,
           \A g \in Frames \ {ScanFrame(n)} :
              bufDescTable'[g] = Swept(n)[g] /\ bufPool'[g] = bufPool[g],
           hashTable'[j] = Unhashed(ScanFrame(n))[j],
           disk'[DiskPage(j)] = WrittenBack({ScanFrame(n)})[DiskPage(j)]
    PROVE  SameView(j)
<1> DEFINE f == ScanFrame(n)
<1>0. f \in Frames /\ (InUse(f) => bufDescTable[f].pinCnt = 0)
  BY ChosenFrame DEF IInv
<1>1. CASE hashTable[j] = NoFrame
  <2>1. hashTable'[j] = NoFrame
    BY <1>1 DEF Unhashed, IInv, TypeOK
  <2>2. disk'[DiskPage(j)] = disk[DiskPage(j)]
    BY <1>0, <1>1, NotWritten
  <2> QED
    BY <1>1, <2>1, <2>2 DEF SameView, StaysOut
<1>2. ASSUME NEW g \in Frames, InUse(g), bufDescTable[g].page = j, g # f
      PROVE  SameView(j)
  BY <1>2, SweptSame DEF SameView, Stays
<1>3. CASE InUse(f) /\ bufDescTable[f].page = j
  <2>1. hashTable'[j] = NoFrame
    BY <1>3 DEF Unhashed, InUse, IInv, TypeOK
  <2>2. disk'[DiskPage(j)] = bufPool[f]
    BY <1>0, <1>3, Saved
  <2> QED
    BY <1>0, <1>3, <2>1, <2>2 DEF SameView, Leaves
<1> QED
  BY <1>1, <1>2, <1>3, HitOrMiss

(* The hand finds no frame: the store is full, and nothing changes in it.  *)
LEMMA ThrowsRefused ==
    ASSUME IInv, IInv', AllocBufThrows
    PROVE  Store!Refused
<1>1. /\ \A i \in Scans : ~Takes(i)
      /\ bufDescTable' = Swept(2 * NumBufs)
      /\ Ended("allocBuf", "BufferExceeded")
      /\ UNCHANGED <<bufPool, hashTable, disk>>
  <2>1. ASSUME NEW n \in Scans, Chosen(n)
        PROVE  ~NotHashed(ScanFrame(n)) /\ ~Unwritable(ScanFrame(n))
    BY <2>1, ChosenFrame, Writable DEF IInv
  <2> QED
    BY <2>1 DEF AllocBufThrows
<1>2. 2 * NumBufs \in Scans
  BY NumBufsAssumption DEF Scans
<1>3. Store!Full
  BY <1>1, NoFrameMeansPinned, FullMeansAllPinned DEF IInv, AllPinned
<1>4. \A k \in PageKey : SameView(k)
  <2> SUFFICES ASSUME NEW k \in PageKey PROVE SameView(k)
    OBVIOUS
  <2>1. \A g \in Frames : SameFrame(g)
    BY <1>1, <1>2, SweptSame
  <2> QED
    BY <1>1, <2>1, HitOrMiss DEF SameView, Stays, StaysOut
<1>5. StoreContent' = StoreContent /\ StorePins' = StorePins
  BY <1>4, ViewUnchanged
<1> QED
  BY <1>1, <1>3, <1>5 DEF Store!Refused, Store!Ended, Ended

-----------------------------------------------------------------------------
(* Each call does what the contract says it does. *)

LEMMA ReadHitStore ==
    ASSUME IInv, IInv', NEW k \in PageKey, ReadHit(k)
    PROVE  Store!ReadPage(k)
<1>1. PICK f \in Frames : f = hashTable[k] /\ InUse(f) /\ bufDescTable[f].page = k
  BY HitOrMiss DEF ReadHit
<1>2. /\ bufDescTable' = [bufDescTable EXCEPT ![f].refbit = TRUE, ![f].pinCnt = @ + 1]
      /\ UNCHANGED <<bufPool, hashTable, disk>>
      /\ Ended("readPage", "ok")
  BY <1>1 DEF ReadHit
<1>3. /\ bufDescTable'[f].page = k /\ InUse(f)'
      /\ bufDescTable'[f].pinCnt = bufDescTable[f].pinCnt + 1
  BY <1>1, <1>2 DEF IInv, TypeOK, BufDesc, InUse
<1>4. StoreContent'[k] = StoreContent[k] /\ StorePins'[k] = StorePins[k] + 1
  <2>1. StoreContent[k] = bufPool[f] /\ StorePins[k] = bufDescTable[f].pinCnt
    BY <1>1, HitView
  <2>2. StoreContent'[k] = bufPool'[f] /\ StorePins'[k] = bufDescTable'[f].pinCnt
    BY <1>3, HitViewNext
  <2> QED
    BY <1>2, <1>3, <2>1, <2>2
<1>5. ASSUME NEW j \in PageKey \ {k} PROVE SameView(j)
  <2>1. ASSUME NEW g \in Frames, InUse(g), bufDescTable[g].page = j
        PROVE  Stays(j)
    <3>1. g # f /\ bufDescTable'[g] = bufDescTable[g]
      BY <1>1, <1>2, <2>1 DEF IInv, TypeOK
    <3> QED
      BY <1>2, <2>1, <3>1 DEF Stays, SameFrame
  <2> QED
    BY <1>2, <2>1, HitOrMiss DEF SameView, StaysOut
<1>6. /\ StoreContent' = [StoreContent EXCEPT ![k] = StoreContent[k]]
      /\ StorePins' = [StorePins EXCEPT ![k] = StorePins[k] + 1]
  BY <1>4, <1>5, ViewOfOne
<1>7. StoreContent' = StoreContent
  BY <1>6 DEF StoreContent
<1>8. StoreContent[k] # Free
  BY <1>1, HitView, DataAssumption DEF IInv, TypeOK
<1>9. StorePins[k] > 0 \/ ~Store!Full
  <2>1. bufDescTable[f].pinCnt \in Nat
    BY <1>1 DEF IInv, TypeOK, BufDesc
  <2> QED
    BY <1>1, <2>1, HitView, FullMeansAllPinned DEF AllPinned
<1> QED
  BY <1>2, <1>6, <1>7, <1>8, <1>9 DEF Store!ReadPage, Store!Ended, Ended

LEMMA ReadMissStore ==
    ASSUME OwnFiles, IInv, IInv', NEW k \in PageKey, NEW n \in Scans, ReadMiss(k, n)
    PROVE  Store!ReadPage(k)
<1> DEFINE f == ScanFrame(n)
<1>1. /\ hashTable[k] = NoFrame
      /\ Chosen(n)
      /\ disk' = WrittenBack({f})
      /\ f \in Frames
  BY Evicted DEF ReadMiss, AllocBuf
<1>2. ~Store!Full /\ StorePins[k] = 0 /\ StoreContent[k] = disk[DiskPage(k)]
  BY <1>1, NotFull, MissView
<1>3. disk'[DiskPage(k)] = disk[DiskPage(k)]
  BY <1>1, NotWritten
<1>4. n \in Nat
  BY NumBufsAssumption DEF Scans
<1>5. CASE /\ disk[DiskPage(k)] # Free
           /\ bufPool' = [bufPool EXCEPT ![f] = disk'[DiskPage(k)]]
           /\ bufDescTable' = [Swept(n) EXCEPT ![f] = Set(k)]
           /\ hashTable' = [Unhashed(f) EXCEPT ![k] = f]
           /\ Ended("readPage", "ok")
  <2>1. bufDescTable'[f] = Set(k) /\ bufPool'[f] = disk'[DiskPage(k)]
    BY <1>1, <1>4, <1>5, SweptFields DEF IInv, TypeOK
  <2>2. StoreContent'[k] = StoreContent[k] /\ StorePins'[k] = 1
    BY <1>1, <1>2, <1>3, <2>1, HitViewNext DEF InUse, Set
  <2>3. ASSUME NEW j \in PageKey \ {k} PROVE SameView(j)
    <3>1. hashTable'[j] = Unhashed(f)[j]
      BY <1>5 DEF Unhashed, IInv, TypeOK
    <3>2. \A g \in Frames \ {f} : bufDescTable'[g] = Swept(n)[g] /\ bufPool'[g] = bufPool[g]
      BY <1>4, <1>5, SweptFields DEF IInv, TypeOK
    <3> QED
      BY <1>1, <3>1, <3>2, EvictionKeeps
  <2>4. /\ StoreContent' = [StoreContent EXCEPT ![k] = StoreContent[k]]
        /\ StorePins' = [StorePins EXCEPT ![k] = StorePins[k] + 1]
    BY <1>2, <2>2, <2>3, ViewOfOne
  <2>5. StoreContent' = StoreContent
    BY <2>4 DEF StoreContent
  <2> QED
    BY <1>2, <1>5, <2>4, <2>5 DEF Store!ReadPage, Store!Ended, Ended
<1>6. CASE /\ disk[DiskPage(k)] = Free
           /\ bufDescTable' = [Swept(n) EXCEPT ![f] = Clear]
           /\ hashTable' = Unhashed(f)
           /\ Ended("readPage", "InvalidPage")
           /\ UNCHANGED bufPool
  <2>1. ASSUME NEW j \in PageKey PROVE SameView(j)
    <3>1. \A g \in Frames \ {f} : bufDescTable'[g] = Swept(n)[g] /\ bufPool'[g] = bufPool[g]
      BY <1>4, <1>6, SweptFields DEF IInv
    <3> QED
      BY <1>1, <1>6, <3>1, EvictionKeeps
  <2>2. StoreContent' = StoreContent /\ StorePins' = StorePins
    BY <2>1, ViewUnchanged
  <2> QED
    BY <1>2, <1>6, <2>2 DEF Store!ReadPage, Store!Ended, Ended
<1> QED
  BY <1>5, <1>6 DEF ReadMiss

LEMMA ReadPageStore ==
    ASSUME OwnFiles, IInv, IInv', NEW k \in PageKey, ReadPage(k)
    PROVE  Store!ReadPage(k)
<1>1. CASE hashTable[k] = NoFrame /\ AllocBufThrows
  BY <1>1, ThrowsRefused, MissView DEF Store!ReadPage
<1> QED
  BY <1>1, ReadHitStore, ReadMissStore DEF ReadPage

LEMMA AllocPageStore ==
    ASSUME OwnFiles, IInv, IInv', NEW k \in PageKey, AllocPage(k)
    PROVE  Store!AllocPage(k)
<1>1. CASE AllocBufThrows
  BY <1>1, ThrowsRefused DEF Store!AllocPage
<1>2. ASSUME NEW n \in Scans,
             AllocBuf(n),
             disk[DiskPage(k)] = Free,
             disk' = [WrittenBack({ScanFrame(n)}) EXCEPT ![DiskPage(k)] = Empty],
             bufPool' = [bufPool EXCEPT ![ScanFrame(n)] = Empty],
             bufDescTable' = [Swept(n) EXCEPT ![ScanFrame(n)] = Set(k)],
             IF Unhashed(ScanFrame(n))[k] = NoFrame
             THEN /\ hashTable' = [Unhashed(ScanFrame(n)) EXCEPT ![k] = ScanFrame(n)]
                  /\ Ended("allocPage", "ok")
             ELSE /\ hashTable' = Unhashed(ScanFrame(n))
                  /\ Ended("allocPage", "HashAlreadyPresent")
      PROVE  Store!AllocPage(k)
  <2> DEFINE f == ScanFrame(n)
  <2>0. n \in Nat
    BY NumBufsAssumption DEF Scans
  <2>1. Chosen(n) /\ f \in Frames
    BY <1>2, Evicted DEF AllocBuf
  <2>2. hashTable[k] = NoFrame
    BY <1>2 DEF IInv, HashAgrees, ResidentInUse, TypeOK
  <2>3. hashTable' = [Unhashed(f) EXCEPT ![k] = f] /\ Ended("allocPage", "ok")
    BY <1>2, <2>2 DEF Unhashed, IInv, TypeOK
  <2>4. ~Store!Full /\ StoreContent[k] = Free
    BY <1>2, <2>1, <2>2, NotFull, MissView
  <2>5. bufDescTable'[f] = Set(k) /\ bufPool'[f] = Empty
    BY <1>2, <2>0, <2>1, SweptFields DEF IInv, TypeOK
  <2>6. StoreContent'[k] = Empty /\ StorePins'[k] = 1
    BY <2>1, <2>5, HitViewNext DEF InUse, Set
  <2>7. ASSUME NEW j \in PageKey \ {k} PROVE SameView(j)
    <3>1. hashTable'[j] = Unhashed(f)[j]
      BY <2>3 DEF Unhashed, IInv, TypeOK
    <3>2. \A g \in Frames \ {f} : bufDescTable'[g] = Swept(n)[g] /\ bufPool'[g] = bufPool[g]
      BY <1>2, <2>0, SweptFields DEF IInv, TypeOK
    <3>3. DiskPage(j) # DiskPage(k) /\ DiskPage(j) \in DiskKey
      BY DiskPageInjective DEF DiskKey
    <3>4. disk'[DiskPage(j)] = WrittenBack({f})[DiskPage(j)]
      BY <1>2, <2>1, <3>3, Evicted
    <3> QED
      BY <2>1, <3>1, <3>2, <3>4, EvictionKeeps
  <2> QED
    BY <2>3, <2>4, <2>6, <2>7, ViewOfOne DEF Store!AllocPage, Store!Ended, Ended
<1> QED
  BY <1>1, <1>2 DEF AllocPage

(* The frames and the files stay as they are, but for the descriptor of f. *)
LEMMA OthersKept ==
    ASSUME IInv, NEW f \in Frames,
           \A g \in Frames \ {f} : bufDescTable'[g] = bufDescTable[g] /\ bufPool'[g] = bufPool[g],
           NEW j \in PageKey, hashTable[j] # f,
           hashTable'[j] = hashTable[j],
           disk'[DiskPage(j)] = disk[DiskPage(j)]
    PROVE  SameView(j)
<1>1. ASSUME NEW g \in Frames, InUse(g), bufDescTable[g].page = j
      PROVE  Stays(j)
  <2>1. g # f
    BY <1>1, HitView
  <2> QED
    BY <1>1, <2>1 DEF Stays, SameFrame, IInv, TypeOK
<1> QED
  BY <1>1, HitOrMiss DEF SameView, StaysOut

LEMMA UnPinPageStore ==
    ASSUME IInv, IInv', NEW k \in PageKey, NEW dirty \in BOOLEAN, UnPinPage(k, dirty)
    PROVE  Store!UnPinPage(k)
<1>0. UNCHANGED <<bufPool, hashTable, disk>>
  BY DEF UnPinPage
<1>1. CASE hashTable[k] = NoFrame
  <2>1. bufDescTable' = bufDescTable /\ Ended("unPinPage", "HashNotFound")
    BY <1>1 DEF UnPinPage
  <2>2. StoreContent' = StoreContent /\ StorePins' = StorePins
    BY <1>0, <2>1 DEF StoreContent, StorePins, Resident, DiskPage
  <2> QED
    BY <1>1, <2>1, <2>2, MissView DEF Store!UnPinPage, Store!Ended, Ended
<1>2. CASE hashTable[k] # NoFrame
  <2>1. PICK f \in Frames : f = hashTable[k] /\ InUse(f) /\ bufDescTable[f].page = k
    BY <1>2, HitOrMiss
  <2>2. /\ bufDescTable' = [bufDescTable EXCEPT ![f].dirty = @ \/ dirty,
                                                ![f].pinCnt = IF @ = 0 THEN 0 ELSE @ - 1]
        /\ IF bufDescTable[f].pinCnt = 0
           THEN Ended("unPinPage", "PageNotPinned")
           ELSE Ended("unPinPage", "ok")
    BY <1>2, <2>1 DEF UnPinPage
  <2>3. /\ bufDescTable[f].pinCnt \in Nat
        /\ bufDescTable'[f].page = k
        /\ InUse(f)'
        /\ bufDescTable'[f].pinCnt =
              IF bufDescTable[f].pinCnt = 0 THEN 0 ELSE bufDescTable[f].pinCnt - 1
    BY <2>1, <2>2 DEF IInv, TypeOK, BufDesc, InUse
  <2>4. StoreContent[k] = bufPool[f] /\ StorePins[k] = bufDescTable[f].pinCnt
    BY <2>1, HitView
  <2>5. StoreContent'[k] = bufPool'[f] /\ StorePins'[k] = bufDescTable'[f].pinCnt
    BY <2>3, HitViewNext
  <2>6. ASSUME NEW j \in PageKey \ {k} PROVE SameView(j)
    <3>1. \A g \in Frames \ {f} : bufDescTable'[g] = bufDescTable[g]
      BY <2>2 DEF IInv, TypeOK
    <3>2. hashTable[j] # f
      BY <2>1 DEF IInv, HashAgrees
    <3> QED
      BY <1>0, <3>1, <3>2, OthersKept
  <2>7. /\ StoreContent' = [StoreContent EXCEPT ![k] = StoreContent[k]]
        /\ StorePins' = [StorePins EXCEPT ![k] = bufDescTable'[f].pinCnt]
    BY <1>0, <2>4, <2>5, <2>6, ViewOfOne
  <2>8. StoreContent' = StoreContent
    BY <2>7 DEF StoreContent
  <2>9. CASE bufDescTable[f].pinCnt = 0
    <3>1. StorePins' = [StorePins EXCEPT ![k] = StorePins[k]]
      BY <2>3, <2>4, <2>7, <2>9
    <3>2. StorePins' = StorePins
      BY <3>1 DEF StorePins
    <3> QED
      BY <2>2, <2>4, <2>8, <2>9, <3>2 DEF Store!UnPinPage, Store!Ended, Ended
  <2>10. CASE bufDescTable[f].pinCnt # 0
    <3>1. StorePins' = [StorePins EXCEPT ![k] = StorePins[k] - 1] /\ StorePins[k] > 0
      BY <2>3, <2>4, <2>7, <2>10
    <3> QED
      BY <2>2, <2>8, <2>10, <3>1 DEF Store!UnPinPage, Store!Ended, Ended
  <2> QED
    BY <2>9, <2>10
<1> QED
  BY <1>1, <1>2

LEMMA ClientWriteStore ==
    ASSUME IInv, IInv', NEW k \in PageKey, NEW d \in Data, ClientWrite(k, d)
    PROVE  Store!ClientWrite(k, d)
<1>1. PICK f \in Frames : f = hashTable[k] /\ InUse(f) /\ bufDescTable[f].page = k
  BY HitOrMiss DEF ClientWrite
<1>2. /\ bufDescTable[f].pinCnt > 0
      /\ bufPool' = [bufPool EXCEPT ![f] = d]
      /\ Ended("write", "ok")
      /\ UNCHANGED <<bufDescTable, hashTable, disk>>
  BY <1>1 DEF ClientWrite
<1>3. StorePins[k] > 0
  BY <1>1, <1>2, HitView
<1>4. InUse(f)' /\ bufDescTable'[f].page = k
  BY <1>1, <1>2 DEF InUse
<1>5. StoreContent'[k] = d
  BY <1>1, <1>2, <1>4, HitViewNext DEF IInv, TypeOK
<1>6. ASSUME NEW j \in PageKey \ {k} PROVE SameView(j)
  <2>1. \A g \in Frames \ {f} : bufPool'[g] = bufPool[g]
    BY <1>2 DEF IInv, TypeOK
  <2>2. hashTable[j] # f
    BY <1>1 DEF IInv, HashAgrees
  <2> QED
    BY <1>2, <2>1, <2>2, OthersKept
<1>7. StoreContent' = [StoreContent EXCEPT ![k] = d]
  BY <1>5, <1>6, ViewOfOne
<1>8. StorePins' = StorePins
  BY <1>2 DEF StorePins, Resident
<1> QED
  BY <1>2, <1>3, <1>7, <1>8 DEF Store!ClientWrite, Store!Ended, Ended

LEMMA FlushFileStore ==
    ASSUME OwnFiles, IInv, IInv', NEW h \in File, FlushFile(h)
    PROVE  Store!FlushFile(h)
<1> DEFINE Stuck == {f \in Owned(h) : FlushError(f) # "ok"}
           Flushed == {f \in Owned(h) : \A g \in Stuck : f < g}
           First == {f \in Stuck : \A g \in Stuck : f <= g}
           Half == {f \in First : FlushError(f) = "HashNotFound"}
<1>1. Half = {} /\ Flushed \cup Half = Flushed
  BY FlushStops
<1>2. /\ disk' = WrittenBack(Flushed)
      /\ \A f \in Frames \ Flushed : bufDescTable'[f] = bufDescTable[f]
      /\ hashTable' = [k \in PageKey |->
                          IF \E f \in Flushed : bufDescTable[f].page = k
                          THEN NoFrame ELSE hashTable[k]]
      /\ (Stuck = {} /\ Ended("flushFile", "ok")) \/ \E f \in First : Ended("flushFile", FlushError(f))
      /\ bufPool' = bufPool
  <2>1. disk' = WrittenBack(Flushed \cup Half)
    BY DEF FlushFile
  <2>2. bufDescTable' = [f \in Frames |->
              IF f \in Flushed THEN Clear
              ELSE IF f \in Half THEN [bufDescTable[f] EXCEPT !.dirty = FALSE]
              ELSE bufDescTable[f]]
    BY DEF FlushFile
  <2>3. \A f \in Frames \ Flushed : bufDescTable'[f] = bufDescTable[f]
    <3> HIDE DEF Flushed, Half
    <3> QED
      BY <1>1, <2>2
  <2> QED
    BY <1>1, <2>1, <2>3 DEF FlushFile
<1>3. \A f \in Flushed : f \in Frames /\ InUse(f) /\ bufDescTable[f].pinCnt = 0
  <2> SUFFICES ASSUME NEW f \in Flushed
               PROVE  f \in Frames /\ InUse(f) /\ bufDescTable[f].pinCnt = 0
    OBVIOUS
  <2>1. f \in Owned(h) /\ f \in Frames
    BY DEF Owned
  <2>2. ~(f < f)
    BY <2>1, NumBufsAssumption DEF Frames
  <2>3. FlushError(f) = "ok"
    BY <2>1, <2>2
  <2> QED
    BY <2>1, <2>3, FlushStops
<1>4. ASSUME NEW k \in PageKey PROVE SameView(k)
  <2> HIDE DEF Flushed
  <2>1. Flushed \in SUBSET Frames
    BY <1>3
  <2>2. CASE \E f \in Flushed : bufDescTable[f].page = k
    BY <1>2, <1>3, <2>1, <2>2, Saved DEF SameView, Leaves
  <2>3. CASE ~\E f \in Flushed : bufDescTable[f].page = k
    <3>1. ASSUME NEW f \in Frames, InUse(f), bufDescTable[f].page = k
          PROVE  Stays(k)
      BY <1>2, <2>3, <3>1 DEF Stays, SameFrame, IInv, TypeOK
    <3>2. CASE hashTable[k] = NoFrame
      BY <1>2, <2>1, <2>3, <3>2, NotWritten DEF SameView, StaysOut
    <3> QED
      BY <3>1, <3>2, HitOrMiss DEF SameView
  <2> QED
    BY <2>2, <2>3
<1>5. StoreContent' = StoreContent /\ StorePins' = StorePins
  BY <1>4, ViewUnchanged
<1>6. CASE Stuck = {} /\ Ended("flushFile", "ok")
  <2>1. ASSUME NEW p \in PageNo, StorePins[<<h, p>>] > 0 PROVE FALSE
    <3>1. <<h, p>> \in PageKey
      BY DEF PageKey
    <3>2. hashTable[<<h, p>>] # NoFrame
      BY <2>1, <3>1, MissView
    <3>3. PICK f \in Frames : InUse(f) /\ bufDescTable[f].page = <<h, p>>
      BY <3>1, <3>2, HitOrMiss
    <3>4. bufDescTable[f].pinCnt > 0
      BY <2>1, <3>3, HitView
    <3>5. f \in Owned(h)
      BY <3>1, <3>3, FileAssumption DEF Owned, PageKey
    <3> QED
      BY <1>6, <3>4, <3>5, FlushStops
  <2> QED
    BY <1>5, <1>6, <2>1 DEF Store!FlushFile, Store!Ended, Ended
<1>7. ASSUME NEW f \in First, Ended("flushFile", FlushError(f))
      PROVE  Store!FlushFile(h)
  <2>1. f \in Owned(h) /\ f \in Frames /\ FlushError(f) # "ok"
    BY DEF Owned
  <2>2. FlushError(f) = "PagePinned" /\ InUse(f)
    BY <2>1, FlushStops
  <2>3. bufDescTable[f].pinCnt > 0
    BY <2>1, <2>2, Writable DEF FlushError, InUse
  <2>4. bufDescTable[f].page \in PageKey /\ bufDescTable[f].page[1] = h
    BY <2>1, <2>2, HitView DEF Owned
  <2>5. PICK p \in PageNo : bufDescTable[f].page = <<h, p>>
    BY <2>4 DEF PageKey
  <2>6. StorePins[<<h, p>>] > 0
    BY <2>1, <2>2, <2>3, <2>5, HitView
  <2> QED
    BY <1>5, <1>7, <2>2, <2>6 DEF Store!FlushFile, Store!Ended, Ended
<1> QED
  BY <1>2, <1>6, <1>7

LEMMA DisposePageStore ==
    ASSUME OwnFiles, IInv, IInv', NEW k \in PageKey, DisposePage(k)
    PROVE  Store!DisposePage(k)
<1>1. CASE hashTable[k] = NoFrame
  <2>1. Ended("disposePage", "HashNotFound") /\ UNCHANGED <<bufDescTable, hashTable, disk, bufPool>>
    BY <1>1 DEF DisposePage
  <2>2. StoreContent' = StoreContent /\ StorePins' = StorePins
    BY <2>1 DEF StoreContent, StorePins, Resident, DiskPage
  <2> QED
    BY <1>1, <2>1, <2>2, MissView DEF Store!DisposePage, Store!Ended, Ended
<1>2. CASE hashTable[k] # NoFrame
  <2>1. PICK f \in Frames : f = hashTable[k] /\ InUse(f) /\ bufDescTable[f].page = k
    BY <1>2, HitOrMiss
  <2>2. disk[DiskPage(k)] # Free
    BY <2>1 DEF IInv, ResidentInUse
  <2>3. /\ bufDescTable' = [bufDescTable EXCEPT ![f] = Clear]
        /\ hashTable' = [hashTable EXCEPT ![k] = NoFrame]
        /\ disk' = [disk EXCEPT ![DiskPage(k)] = Free]
        /\ Ended("disposePage", "ok")
        /\ bufPool' = bufPool
    BY <1>2, <2>1, <2>2 DEF DisposePage
  <2>4. hashTable'[k] = NoFrame /\ disk'[DiskPage(k)] = Free
    BY <2>3 DEF IInv, TypeOK, DiskKey
  <2>5. StoreContent'[k] = Free /\ StorePins'[k] = 0
    BY <2>4, MissViewNext
  <2>6. ASSUME NEW j \in PageKey \ {k} PROVE SameView(j)
    <3>1. \A g \in Frames \ {f} : bufDescTable'[g] = bufDescTable[g]
      BY <2>3 DEF IInv, TypeOK
    <3>2. hashTable[j] # f
      BY <2>1 DEF IInv, HashAgrees
    <3>3. hashTable'[j] = hashTable[j]
      BY <2>3 DEF IInv, TypeOK
    <3>4. DiskPage(j) # DiskPage(k) /\ DiskPage(j) \in DiskKey
      BY DiskPageInjective DEF DiskKey
    <3>5. disk'[DiskPage(j)] = disk[DiskPage(j)]
      BY <2>3, <3>4 DEF IInv, TypeOK
    <3> QED
      BY <2>3, <3>1, <3>2, <3>3, <3>5, OthersKept
  <2>7. StoreContent[k] # Free
    BY <2>1, HitView, DataAssumption DEF IInv, TypeOK
  <2> QED
    BY <2>3, <2>5, <2>6, <2>7, ViewOfOne DEF Store!DisposePage, Store!Ended, Ended
<1> QED
  BY <1>1, <1>2

(* The end of one manager and the start of the next. *)
LEMMA RestartStore ==
    ASSUME OwnFiles, IInv, IInv', Restart
    PROVE  Store!Restart
<1> DEFINE Used == {f \in Frames : bufDescTable[f].valid}
           Written == {f \in Used : \A g \in Used : Unwritable(g) => f < g}
<1>1. Written = Used
  BY Writable
<1>2. /\ \A f \in Used :
            bufDescTable[f].dirty \/ bufPool[f] = disk[DiskPage(bufDescTable[f].page)]
      /\ disk' = WrittenBack(Used)
      /\ hashTable' = [k \in PageKey |-> NoFrame]
      /\ Ended("BufMgr", "ok")
  BY <1>1 DEF Restart
<1>3. ASSUME NEW f \in Frames, InUse(f)
      PROVE  WrittenBack(Used)[DiskPage(bufDescTable[f].page)] = bufPool[f]
  <2>1. f \in Used /\ Used \in SUBSET Frames
    BY <1>3 DEF InUse
  <2>2. CASE bufDescTable[f].dirty
    <3> HIDE DEF Used
    <3> QED
      BY <1>3, <2>1, <2>2, Saved
  <2>3. CASE ~bufDescTable[f].dirty
    <3>1. DiskPage(bufDescTable[f].page) \in DiskKey
      BY <1>3, HitView DEF DiskKey
    <3>2. ASSUME NEW g \in Used, DirtyFor(g, DiskPage(bufDescTable[f].page)) PROVE FALSE
      <4>1. g = f
        BY <1>3, <3>2, OneFrame DEF IInv, OneFramePerPage, DirtyFor, InUse
      <4> QED
        BY <2>3, <3>2, <4>1 DEF DirtyFor
    <3>3. bufPool[f] = disk[DiskPage(bufDescTable[f].page)]
      BY <1>2, <2>1, <2>3
    <3> HIDE DEF Used
    <3> QED
      BY <2>1, <3>1, <3>2, <3>3, WrittenBackDisk
  <2> QED
    BY <2>2, <2>3
<1>4. ASSUME NEW k \in PageKey
      PROVE  StoreContent'[k] = StoreContent[k] /\ StorePins'[k] = 0
  <2>1. StoreContent'[k] = disk'[DiskPage(k)] /\ StorePins'[k] = 0
    BY <1>2, MissViewNext
  <2>2. CASE hashTable[k] = NoFrame
    <3>1. Used \in SUBSET Frames
      OBVIOUS
    <3> HIDE DEF Used
    <3> QED
      BY <1>2, <2>1, <2>2, <3>1, NotWritten, MissView
  <2>3. CASE hashTable[k] # NoFrame
    <3>1. PICK f \in Frames : InUse(f) /\ bufDescTable[f].page = k
      BY <2>3, HitOrMiss
    <3> QED
      BY <1>2, <1>3, <2>1, <3>1, HitView
  <2> QED
    BY <2>2, <2>3
<1>5. StoreContent' = StoreContent
  BY <1>4 DEF StoreContent
<1>6. StorePins' = [k \in Store!PageKey |-> 0]
  BY <1>4 DEF StorePins, Store!PageKey, PageKey
<1> QED
  BY <1>2, <1>5, <1>6 DEF Store!Restart, Store!Ended, Ended

-----------------------------------------------------------------------------
(* The refinement. *)

LEMMA InitStore ==
    ASSUME Init
    PROVE  Store!Init
<1>1. \A k \in PageKey : StoreContent[k] = Free /\ StorePins[k] = 0
  BY MissView DEF Init, DiskKey
<1> QED
  BY <1>1 DEF Init, Store!Init, Store!PageKey, PageKey, StoreContent, StorePins

LEMMA StepStore ==
    ASSUME OwnFiles, IInv, IInv', [Next]_vars
    PROVE  [Store!Next]_Store!storeVars
<1>1. CASE UNCHANGED vars
  BY <1>1 DEF vars, Store!storeVars, StoreContent, StorePins, Resident, DiskPage
<1>2. ASSUME NEW k \in PageKey,
             \/ ReadPage(k)
             \/ AllocPage(k)
             \/ DisposePage(k)
             \/ \E dirty \in BOOLEAN : UnPinPage(k, dirty)
             \/ \E d \in Data : ClientWrite(k, d)
      PROVE  Store!Next
  <2>1. \/ Store!ReadPage(k)
        \/ Store!AllocPage(k)
        \/ Store!DisposePage(k)
        \/ Store!UnPinPage(k)
        \/ \E d \in Data : Store!ClientWrite(k, d)
    BY <1>2, ReadPageStore, AllocPageStore, DisposePageStore, UnPinPageStore, ClientWriteStore
  <2> QED
    BY <2>1 DEF Store!Next, Store!PageKey, PageKey
<1>3. ASSUME NEW h \in File, FlushFile(h) PROVE Store!Next
  BY <1>3, FlushFileStore DEF Store!Next
<1>4. CASE Restart
  BY <1>4, RestartStore DEF Store!Next
<1> QED
  BY <1>1, <1>2, <1>3, <1>4 DEF Next

(* The buffer manager implements the page store: whatever is evicted,      *)
(* flushed, written back and read again, a reader finds what was last put  *)
(* in a page, and a page is refused only when NumBufs pages are pinned.    *)
THEOREM StoreImplemented == ASSUME OwnFiles PROVE Spec => ImplementsStore
<1>1. Init => Store!Init
  BY InitStore
<1>2. Inv /\ Inv' /\ [Next]_vars => [Store!Next]_Store!storeVars
  BY StepStore DEF Inv
<1> QED
  BY <1>1, <1>2, Invariance, PTL DEF Spec, ImplementsStore, Store!Spec
=============================================================================

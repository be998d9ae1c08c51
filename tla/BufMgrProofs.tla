---------------------------- MODULE BufMgrProofs ----------------------------
(***************************************************************************)
(* Proofs about the buffer manager when every File object has a file of    *)
(* its own, for any pool size, any files and pages, any page contents.     *)
(* BufMgrAnyFiles has what needs no such assumption.                       *)
(***************************************************************************)
EXTENDS BufMgrAnyFiles

(* Every File object has a file of its own, as when each file is opened    *)
(* once.                                                                   *)
OwnFiles == \A g, h \in File : FileOf[g] = FileOf[h] => g = h

(* What is in the pool is in use in its file. *)
ResidentInUse ==
    \A f \in Frames : InUse(f) => disk[DiskPage(bufDescTable[f].page)] # Free

IInv == TypeOK /\ HashAgrees /\ CleanMatchesDisk /\ ResidentInUse

-----------------------------------------------------------------------------
(* The pool and the disk under the invariant. *)

LEMMA DiskPageInjective ==
    ASSUME OwnFiles, NEW j \in PageKey, NEW k \in PageKey, DiskPage(j) = DiskPage(k)
    PROVE  j = k
<1>1. PICK g \in File, p \in PageNo : j = <<g, p>>
  BY DEF PageKey
<1>2. PICK h \in File, q \in PageNo : k = <<h, q>>
  BY DEF PageKey
<1>3. FileOf[g] = FileOf[h] /\ p = q
  BY <1>1, <1>2 DEF DiskPage
<1> QED
  BY <1>1, <1>2, <1>3 DEF OwnFiles

(* A page is in one frame only. *)
LEMMA OneFrame ==
    ASSUME OwnFiles, TypeOK, HashAgrees
    PROVE  OneFramePerPage
<1> SUFFICES ASSUME NEW f \in Frames, NEW g \in Frames, InUse(f), InUse(g),
                    DiskPage(bufDescTable[f].page) = DiskPage(bufDescTable[g].page)
             PROVE  f = g
  BY DEF OneFramePerPage
<1>1. bufDescTable[f].page \in PageKey /\ bufDescTable[g].page \in PageKey
  BY DEF TypeOK, BufDesc, InUse
<1>2. bufDescTable[f].page = bufDescTable[g].page
  BY <1>1, DiskPageInjective
<1> QED
  BY <1>1, <1>2 DEF HashAgrees

(* A dirty frame is in use, so its write-back is not refused and its entry *)
(* is there to be removed.                                                 *)
LEMMA Writable ==
    ASSUME IInv, NEW f \in Frames
    PROVE  ~Unwritable(f) /\ ~NotHashed(f)
<1>1. bufDescTable[f] \in BufDesc /\ (~InUse(f) => bufDescTable[f] = Clear)
  BY DEF IInv, TypeOK
<1>2. InUse(f) => bufDescTable[f].page \in PageKey
  BY DEF IInv, TypeOK, InUse, BufDesc
<1>3. ~Unwritable(f)
  BY <1>1 DEF IInv, ResidentInUse, Unwritable, Clear
<1>4. ~NotHashed(f)
  BY <1>2, FileAssumption, NumBufsAssumption DEF IInv, HashAgrees, NotHashed, InUse, Frames
<1> QED
  BY <1>3, <1>4

(* What a write-back leaves on disk. *)
LEMMA WrittenBackDisk ==
    ASSUME OwnFiles, IInv, NEW F \in SUBSET Frames
    PROVE  /\ WrittenBack(F) \in [DiskKey -> Data \cup {Free}]
           /\ \A x \in DiskKey : disk[x] # Free => WrittenBack(F)[x] # Free
           /\ \A f \in F : bufDescTable[f].dirty =>
                 WrittenBack(F)[DiskPage(bufDescTable[f].page)] = bufPool[f]
           /\ \A x \in DiskKey : (\A f \in F : ~DirtyFor(f, x)) => WrittenBack(F)[x] = disk[x]
<1> USE DEF IInv
<1>1. ASSUME NEW x \in DiskKey, NEW f \in F, DirtyFor(f, x)
      PROVE  WrittenBack(F)[x] = bufPool[f]
  <2>1. \A g \in F : DirtyFor(g, x) => g = f
    <3> SUFFICES ASSUME NEW g \in F, DirtyFor(g, x) PROVE g = f
      OBVIOUS
    <3>1. InUse(f) /\ InUse(g)
      BY <1>1 DEF TypeOK, DirtyFor, Clear
    <3> QED
      BY <1>1, <3>1, OneFrame DEF OneFramePerPage, DirtyFor
  <2>2. f <= f
    BY NumBufsAssumption DEF Frames
  <2>3. (CHOOSE g \in F : DirtyFor(g, x) /\ \A j \in F : DirtyFor(j, x) => j <= g) = f
    BY <1>1, <2>1, <2>2
  <2> QED
    BY <1>1, <2>3 DEF WrittenBack
<1>2. ASSUME NEW x \in DiskKey, \A f \in F : ~DirtyFor(f, x)
      PROVE  WrittenBack(F)[x] = disk[x]
  BY <1>2 DEF WrittenBack
<1>3. ASSUME NEW x \in DiskKey
      PROVE  /\ WrittenBack(F)[x] \in Data \cup {Free}
             /\ disk[x] # Free => WrittenBack(F)[x] # Free
  BY <1>1, <1>2, DataAssumption DEF TypeOK
<1>4. ASSUME NEW f \in F, bufDescTable[f].dirty
      PROVE  WrittenBack(F)[DiskPage(bufDescTable[f].page)] = bufPool[f]
  <2>1. bufDescTable[f].page \in PageKey
    BY <1>4 DEF TypeOK, BufDesc, InUse, Clear
  <2> QED
    BY <1>1, <1>4, <2>1 DEF DirtyFor, DiskKey
<1>5. WrittenBack(F) = [x \in DiskKey |-> WrittenBack(F)[x]]
  BY DEF WrittenBack
<1> QED
  BY <1>2, <1>3, <1>4, <1>5

-----------------------------------------------------------------------------
(* The two ways a call changes the pool keep the invariant.                *)

(* The same page, pins and dirty bit as before. *)
SameFrame(f) ==
    /\ bufDescTable'[f].page = bufDescTable[f].page
    /\ bufDescTable'[f].pinCnt = bufDescTable[f].pinCnt
    /\ bufDescTable'[f].dirty = bufDescTable[f].dirty
    /\ bufDescTable'[f].valid = bufDescTable[f].valid
    /\ ~InUse(f) => bufDescTable'[f] = Clear

SameOnDisk(f) ==
    InUse(f) => disk'[DiskPage(bufDescTable[f].page)] = disk[DiskPage(bufDescTable[f].page)]

Lost(R, k) == \E f \in R : InUse(f) /\ bufDescTable[f].page = k

(* The frames of R are cleared with their entries. *)
LEMMA Released ==
    ASSUME IInv,
           NEW R \in SUBSET Frames,
           bufDescTable' \in [Frames -> BufDesc],
           \A f \in R : bufDescTable'[f] = Clear,
           \A f \in Frames \ R : SameFrame(f) /\ SameOnDisk(f),
           bufPool' = bufPool,
           hashTable' \in [PageKey -> Frames \cup {NoFrame}],
           \A k \in PageKey : hashTable'[k] = IF Lost(R, k) THEN NoFrame ELSE hashTable[k],
           clockHand' \in Frames,
           disk' \in [DiskKey -> Data \cup {Free}],
           outcome' \in Outcome
    PROVE  IInv'
<1> USE DEF IInv
<1>0. NoFrame \notin Frames
  BY FileAssumption, NumBufsAssumption DEF Frames
<1>1. TypeOK'
  BY DEF TypeOK, SameFrame, InUse, Clear
<1>2. HashAgrees'
  <2> SUFFICES ASSUME NEW k \in PageKey, NEW f \in Frames
               PROVE  hashTable'[k] = f <=> InUse(f)' /\ bufDescTable'[f].page = k
    BY DEF HashAgrees
  <2>1. CASE f \in R
    <3>1. ~InUse(f)'
      BY <2>1 DEF InUse, Clear
    <3>2. hashTable'[k] # f
      BY <1>0, <2>1 DEF HashAgrees, Lost
    <3> QED
      BY <3>1, <3>2
  <2>2. CASE f \notin R
    <3>1. SameFrame(f)
      BY <2>2
    <3>2. (InUse(f)' /\ bufDescTable'[f].page = k) <=> (InUse(f) /\ bufDescTable[f].page = k)
      BY <3>1 DEF SameFrame, InUse
    <3>3. InUse(f) /\ bufDescTable[f].page = k => ~Lost(R, k)
      BY <2>2 DEF Lost, HashAgrees
    <3>4. hashTable'[k] = f <=> InUse(f) /\ bufDescTable[f].page = k
      BY <1>0, <3>3 DEF HashAgrees
    <3> QED
      BY <3>2, <3>4
  <2> QED
    BY <2>1, <2>2
<1>3. ASSUME NEW f \in Frames, InUse(f)'
      PROVE  InUse(f) /\ SameFrame(f) /\ SameOnDisk(f)
  <2>1. f \notin R
    BY <1>3 DEF InUse, Clear
  <2> QED
    BY <1>3, <2>1 DEF SameFrame, InUse
<1>4. CleanMatchesDisk'
  <2> SUFFICES ASSUME NEW f \in Frames,
                      InUse(f)', ~bufDescTable'[f].dirty, bufDescTable'[f].pinCnt = 0
               PROVE  bufPool'[f] = disk'[DiskPage(bufDescTable[f].page)']
    BY DEF CleanMatchesDisk, DiskPage
  <2> QED
    BY <1>3 DEF CleanMatchesDisk, SameFrame, SameOnDisk
<1>5. ResidentInUse'
  <2> SUFFICES ASSUME NEW f \in Frames, InUse(f)'
               PROVE  disk'[DiskPage(bufDescTable'[f].page)] # Free
    BY DEF ResidentInUse, DiskPage
  <2> QED
    BY <1>3 DEF ResidentInUse, SameFrame, SameOnDisk
<1> QED
  BY <1>1, <1>2, <1>4, <1>5

(* Frame f, given up by the page it held, takes page k. *)
LEMMA Occupied ==
    ASSUME IInv,
           NEW k \in PageKey,
           NEW f \in Frames,
           hashTable[k] = NoFrame,
           bufDescTable' \in [Frames -> BufDesc],
           bufDescTable'[f] = Set(k),
           \A g \in Frames \ {f} : SameFrame(g) /\ SameOnDisk(g),
           bufPool' \in [Frames -> Data],
           \A g \in Frames \ {f} : bufPool'[g] = bufPool[g],
           hashTable' = [Unhashed(f) EXCEPT ![k] = f],
           clockHand' \in Frames,
           disk' \in [DiskKey -> Data \cup {Free}],
           disk'[DiskPage(k)] # Free,
           bufPool'[f] = disk'[DiskPage(k)],
           outcome' \in Outcome
    PROVE  IInv'
<1> USE DEF IInv
<1>0. NoFrame \notin Frames /\ k # NoPage
  BY FileAssumption, NumBufsAssumption DEF Frames, PageKey
<1>1. Unhashed(f) \in [PageKey -> Frames \cup {NoFrame}]
  BY DEF Unhashed, TypeOK
<1>2. TypeOK'
  <2>1. hashTable' \in [PageKey -> Frames \cup {NoFrame}]
    BY <1>1
  <2>2. ASSUME NEW g \in Frames
        PROVE  IF InUse(g)' THEN bufDescTable'[g].page # NoPage ELSE bufDescTable'[g] = Clear
    <3>1. CASE g = f
      BY <1>0, <3>1 DEF InUse, Set
    <3>2. CASE g # f
      BY <3>2 DEF TypeOK, SameFrame, InUse
    <3> QED
      BY <3>1, <3>2
  <2> QED
    BY <2>1, <2>2 DEF TypeOK
<1>3. HashAgrees'
  <2> SUFFICES ASSUME NEW j \in PageKey, NEW g \in Frames
               PROVE  hashTable'[j] = g <=> InUse(g)' /\ bufDescTable'[g].page = j
    BY DEF HashAgrees
  <2>1. \A h \in Frames : ~(InUse(h) /\ bufDescTable[h].page = k)
    BY <1>0 DEF HashAgrees
  <2>2. hashTable'[k] = f
    BY <1>1
  <2>3. j # k => hashTable'[j] = Unhashed(f)[j]
    BY <1>1
  <2>4. CASE g = f
    <3>1. InUse(f)' /\ bufDescTable'[f].page = k
      BY DEF InUse, Set
    <3>2. j # k => hashTable'[j] # f
      <4>1. CASE InUse(f) /\ bufDescTable[f].page = j
        BY <1>0, <2>3, <4>1 DEF Unhashed, InUse, TypeOK
      <4>2. CASE ~(InUse(f) /\ bufDescTable[f].page = j)
        <5>1. hashTable[j] # f
          BY <4>2 DEF HashAgrees
        <5>2. Unhashed(f)[j] = hashTable[j]
          BY <4>2 DEF Unhashed, InUse, TypeOK
        <5> QED
          BY <2>3, <5>1, <5>2
      <4> QED
        BY <4>1, <4>2
    <3> QED
      BY <2>2, <2>4, <3>1, <3>2
  <2>5. CASE g # f
    <3>1. SameFrame(g)
      BY <2>5
    <3>2. InUse(g)' = InUse(g) /\ bufDescTable'[g].page = bufDescTable[g].page
      BY <3>1 DEF SameFrame, InUse
    <3>3. j = k => (hashTable'[j] # g /\ ~(InUse(g) /\ bufDescTable[g].page = j))
      BY <2>1, <2>2, <2>5
    <3>4. j # k => (hashTable'[j] = g <=> hashTable[j] = g)
      <4>1. Unhashed(f)[j] = hashTable[j] \/ (hashTable[j] = f /\ Unhashed(f)[j] = NoFrame)
        BY DEF Unhashed, InUse, TypeOK, HashAgrees
      <4> QED
        BY <1>0, <2>3, <2>5, <4>1
    <3> QED
      BY <3>2, <3>3, <3>4 DEF HashAgrees
  <2> QED
    BY <2>4, <2>5
<1>4. CleanMatchesDisk'
  <2> SUFFICES ASSUME NEW g \in Frames,
                      InUse(g)', ~bufDescTable'[g].dirty, bufDescTable'[g].pinCnt = 0
               PROVE  bufPool'[g] = disk'[DiskPage(bufDescTable'[g].page)]
    BY DEF CleanMatchesDisk, DiskPage
  <2>1. g # f
    BY DEF Set
  <2>2. SameFrame(g) /\ SameOnDisk(g) /\ bufPool'[g] = bufPool[g] /\ InUse(g)
    BY <2>1 DEF SameFrame, InUse
  <2> QED
    BY <2>2 DEF CleanMatchesDisk, SameFrame, SameOnDisk
<1>5. ResidentInUse'
  <2> SUFFICES ASSUME NEW g \in Frames, InUse(g)'
               PROVE  disk'[DiskPage(bufDescTable'[g].page)] # Free
    BY DEF ResidentInUse, DiskPage
  <2>1. CASE g = f
    BY <2>1 DEF Set
  <2>2. CASE g # f
    <3>1. SameFrame(g) /\ SameOnDisk(g) /\ InUse(g)
      BY <2>2 DEF SameFrame, InUse
    <3> QED
      BY <3>1 DEF ResidentInUse, SameFrame, SameOnDisk
  <2> QED
    BY <2>1, <2>2
<1> QED
  BY <1>2, <1>3, <1>4, <1>5

-----------------------------------------------------------------------------
(* Each call keeps the invariant. *)

(* What allocBuf does to the other frames and to the disk when it returns  *)
(* frame ScanFrame(n).                                                     *)
LEMMA Evicted ==
    ASSUME OwnFiles, IInv, NEW n \in Scans, Chosen(n)
    PROVE  /\ ScanFrame(n) \in Frames
           /\ WrittenBack({ScanFrame(n)}) \in [DiskKey -> Data \cup {Free}]
           /\ \A x \in DiskKey : disk[x] # Free => WrittenBack({ScanFrame(n)})[x] # Free
           /\ \A g \in Frames \ {ScanFrame(n)} :
                 InUse(g) => WrittenBack({ScanFrame(n)})[DiskPage(bufDescTable[g].page)]
                                = disk[DiskPage(bufDescTable[g].page)]
<1> DEFINE f == ScanFrame(n)
<1>1. f \in Frames
  BY ChosenFrame DEF IInv
<1>2. ASSUME NEW g \in Frames \ {f}, InUse(g)
      PROVE  WrittenBack({f})[DiskPage(bufDescTable[g].page)] = disk[DiskPage(bufDescTable[g].page)]
  <2>1. bufDescTable[g].page \in PageKey
    BY <1>2 DEF IInv, TypeOK, InUse, BufDesc
  <2>2. DirtyFor(f, DiskPage(bufDescTable[g].page)) => InUse(f)
    BY <1>1 DEF DirtyFor, IInv, TypeOK, Clear
  <2>3. ~DirtyFor(f, DiskPage(bufDescTable[g].page))
    BY <1>1, <1>2, <2>2, OneFrame DEF DirtyFor, OneFramePerPage, IInv
  <2> QED
    BY <1>1, <2>1, <2>3, WrittenBackDisk DEF DiskKey
<1> QED
  BY <1>1, <1>2, WrittenBackDisk

(* After the sweep every other frame is the same but for its refbit. *)
LEMMA SweptSame ==
    ASSUME IInv, NEW n \in Scans, NEW g \in Frames,
           bufDescTable'[g] = Swept(n)[g]
    PROVE  SameFrame(g)
<1>1. n \in Nat
  BY NumBufsAssumption DEF Scans
<1> QED
  BY <1>1, SweptFields DEF IInv, SameFrame

(* allocBuf throws BufferExceeded or nothing. *)
LEMMA AllocBufThrowsKeeps ==
    ASSUME IInv, AllocBufThrows
    PROVE  /\ IInv'
           /\ NoInternalError'
          
<1> USE DEF IInv
<1>1. /\ \A i \in Scans : ~Takes(i)
      /\ bufDescTable' = Swept(2 * NumBufs)
      /\ clockHand' = ScanFrame(2 * NumBufs)
      /\ Ended("allocBuf", "BufferExceeded")
      /\ UNCHANGED <<bufPool, hashTable, disk>>
  <2>1. ASSUME NEW n \in Scans, Chosen(n)
        PROVE  ~NotHashed(ScanFrame(n)) /\ ~Unwritable(ScanFrame(n))
    BY <2>1, ChosenFrame, Writable
  <2> QED
    BY <2>1 DEF AllocBufThrows
<1>2. 2 * NumBufs \in Scans /\ 2 * NumBufs \in Nat
  BY NumBufsAssumption DEF Scans
<1>3. bufDescTable' \in [Frames -> BufDesc]
  BY <1>1, <1>2, SweptFields
<1>4. \A f \in Frames : SameFrame(f) /\ SameOnDisk(f)
  BY <1>1, <1>2, SweptSame DEF SameOnDisk
<1>5. IInv'
  <2>1. \A k \in PageKey : ~Lost({}, k)
    BY DEF Lost
  <2>2. clockHand' \in Frames
    BY <1>1, <1>2, ScanFrameType
  <2>3. outcome' \in Outcome
    BY <1>1 DEF Ended, Outcome, Call, Result
  <2>4. hashTable' \in [PageKey -> Frames \cup {NoFrame}] /\ disk' \in [DiskKey -> Data \cup {Free}]
    BY <1>1 DEF TypeOK
  <2>5. \A k \in PageKey : hashTable'[k] = IF Lost({}, k) THEN NoFrame ELSE hashTable[k]
    BY <1>1, <2>1
  <2> HIDE DEF IInv
  <2> QED
    BY <1>1, <1>3, <1>4, <2>2, <2>3, <2>4, <2>5, Released
<1>6. NoInternalError'
  BY <1>1 DEF NoInternalError, Ended
<1> QED
  BY <1>5, <1>6

(* A call that ends with these keeps the properties of the outcome. *)
LEMMA Outcomes ==
    ASSUME NEW op \in Call, NEW res \in Result, Ended(op, res),
           res \notin {"HashAlreadyPresent", "BadBuffer"},
           op \in {"allocBuf", "flushFile", "disposePage", "~BufMgr"} => res # "InvalidPage",
           op \in {"allocBuf", "flushFile"} => res # "HashNotFound"
    PROVE  NoInternalError' /\ outcome' \in Outcome
  BY DEF Ended, NoInternalError, Outcome

LEMMA ReadHitKeeps ==
    ASSUME IInv, NEW k \in PageKey, ReadHit(k)
    PROVE  IInv' /\ NoInternalError'
<1> USE DEF IInv
<1> DEFINE f == hashTable[k]
<1>1. f \in Frames /\ InUse(f) /\ bufDescTable[f].page = k
  BY DEF ReadHit, TypeOK, HashAgrees
<1>2. /\ bufDescTable' = [bufDescTable EXCEPT ![f].refbit = TRUE, ![f].pinCnt = @ + 1]
      /\ UNCHANGED <<bufPool, hashTable, clockHand, disk>>
      /\ Ended("readPage", "ok")
  BY DEF ReadHit
<1>3. NoInternalError' /\ outcome' \in Outcome
  BY <1>2, Outcomes DEF Call, Result
<1>4. \A g \in Frames :
         /\ bufDescTable'[g].page = bufDescTable[g].page
         /\ bufDescTable'[g].dirty = bufDescTable[g].dirty
         /\ bufDescTable'[g].valid = bufDescTable[g].valid
         /\ g # f => bufDescTable'[g] = bufDescTable[g]
         /\ bufDescTable'[g].pinCnt = 0 => bufDescTable[g].pinCnt = 0
  BY <1>1, <1>2 DEF TypeOK, BufDesc
<1>5. bufDescTable' \in [Frames -> BufDesc]
  <2>1. bufDescTable[f].pinCnt + 1 \in Nat
    BY <1>1 DEF TypeOK, BufDesc
  <2> QED
    BY <1>1, <1>2, <2>1 DEF TypeOK, BufDesc
<1>6. TypeOK'
  BY <1>1, <1>2, <1>3, <1>4, <1>5 DEF TypeOK, InUse
<1>7. HashAgrees'
  <2>1. \A g \in Frames : InUse(g)' <=> InUse(g)
    BY <1>4 DEF InUse
  <2>2. hashTable' = hashTable
    BY <1>2
  <2> QED
    BY <1>4, <2>1, <2>2 DEF HashAgrees
<1>8. CleanMatchesDisk'
  BY <1>2, <1>4 DEF CleanMatchesDisk, InUse, DiskPage
<1>9. ResidentInUse'
  BY <1>2, <1>4 DEF ResidentInUse, InUse, DiskPage
<1> QED
  BY <1>3, <1>6, <1>7, <1>8, <1>9

LEMMA ReadMissKeeps ==
    ASSUME OwnFiles, IInv, NEW k \in PageKey, NEW n \in Scans, ReadMiss(k, n)
    PROVE  IInv' /\ NoInternalError'
<1> DEFINE f == ScanFrame(n)
<1>0. n \in Nat
  BY NumBufsAssumption DEF Scans
<1>1. /\ hashTable[k] = NoFrame
      /\ Chosen(n)
      /\ clockHand' = f
      /\ disk' = WrittenBack({f})
  BY DEF ReadMiss, AllocBuf
<1>2. f \in Frames /\ disk' \in [DiskKey -> Data \cup {Free}]
  BY <1>1, Evicted
<1>3. \A g \in Frames \ {f} : SameOnDisk(g)
  BY <1>1, Evicted DEF SameOnDisk
<1>4. DiskPage(k) \in DiskKey
  BY DEF DiskKey
<1>5. CASE /\ disk[DiskPage(k)] # Free
           /\ bufPool' = [bufPool EXCEPT ![f] = disk'[DiskPage(k)]]
           /\ bufDescTable' = [Swept(n) EXCEPT ![f] = Set(k)]
           /\ hashTable' = [Unhashed(f) EXCEPT ![k] = f]
           /\ Ended("readPage", "ok")
  <2>1. bufDescTable' \in [Frames -> BufDesc] /\ bufDescTable'[f] = Set(k)
    BY <1>0, <1>2, <1>5, SweptFields, DescriptorTypes DEF IInv
  <2>2. \A g \in Frames \ {f} : SameFrame(g)
    <3>1. ASSUME NEW g \in Frames \ {f} PROVE bufDescTable'[g] = Swept(n)[g]
      BY <1>0, <1>5, SweptFields DEF IInv
    <3> QED
      BY <3>1, SweptSame
  <2>3. disk'[DiskPage(k)] # Free /\ disk'[DiskPage(k)] \in Data
    BY <1>1, <1>2, <1>4, <1>5, Evicted
  <2>4. /\ bufPool' \in [Frames -> Data]
        /\ bufPool'[f] = disk'[DiskPage(k)]
        /\ \A g \in Frames \ {f} : bufPool'[g] = bufPool[g]
    BY <1>2, <1>5, <2>3 DEF IInv, TypeOK
  <2>5. NoInternalError' /\ outcome' \in Outcome
    BY <1>5, Outcomes DEF Call, Result
  <2>6. IInv'
    BY <1>1, <1>2, <1>3, <1>5, <2>1, <2>2, <2>3, <2>4, <2>5, Occupied
  <2> QED
    BY <2>5, <2>6
<1>6. CASE /\ disk[DiskPage(k)] = Free
           /\ bufDescTable' = [Swept(n) EXCEPT ![f] = Clear]
           /\ hashTable' = Unhashed(f)
           /\ Ended("readPage", "InvalidPage")
           /\ UNCHANGED bufPool
  <2>1. bufDescTable' \in [Frames -> BufDesc] /\ bufDescTable'[f] = Clear
    BY <1>0, <1>2, <1>6, SweptFields, DescriptorTypes DEF IInv
  <2>2. \A g \in Frames \ {f} : SameFrame(g)
    <3>1. ASSUME NEW g \in Frames \ {f} PROVE bufDescTable'[g] = Swept(n)[g]
      BY <1>0, <1>6, SweptFields DEF IInv
    <3> QED
      BY <3>1, SweptSame
  <2>3. /\ hashTable' \in [PageKey -> Frames \cup {NoFrame}]
        /\ \A j \in PageKey : hashTable'[j] = IF Lost({f}, j) THEN NoFrame ELSE hashTable[j]
    BY <1>6 DEF Unhashed, Lost, InUse, IInv, TypeOK
  <2>4. NoInternalError' /\ outcome' \in Outcome
    BY <1>6, Outcomes DEF Call, Result
  <2>5. {f} \in SUBSET Frames /\ clockHand' \in Frames
    BY <1>1, <1>2
  <2>6. IInv'
    BY <1>2, <1>3, <1>6, <2>1, <2>2, <2>3, <2>4, <2>5, Released
  <2> QED
    BY <2>4, <2>6
<1> QED
  BY <1>5, <1>6 DEF ReadMiss

LEMMA AllocPageKeeps ==
    ASSUME OwnFiles, IInv, NEW k \in PageKey, AllocPage(k)
    PROVE  IInv' /\ NoInternalError'
<1>1. CASE AllocBufThrows
  BY <1>1, AllocBufThrowsKeeps
<1>2. ASSUME NEW n \in Scans,
             AllocBuf(n),
             disk[DiskPage(k)] = Free,
             disk' = [WrittenBack({ScanFrame(n)}) EXCEPT ![DiskPage(k)] = Empty],
             bufPool' = [bufPool EXCEPT ![ScanFrame(n)] = Empty],
             bufDescTable' = [Swept(n) EXCEPT ![ScanFrame(n)] = Set(k)],
             IF Unhashed(ScanFrame(n))[k] = NoFrame
             THEN /\ hashTable' = [Unhashed(ScanFrame(n)) EXCEPT ![k] = ScanFrame(n)]
                  /\ Ended("allocPage", "ok")
             ELSE /\ hashTable' = Unhashed(ScanFrame(n))
                  /\ Ended("allocPage", "HashAlreadyPresent")
      PROVE  IInv' /\ NoInternalError'
  <2> DEFINE f == ScanFrame(n)
  <2>0. n \in Nat
    BY NumBufsAssumption DEF Scans
  <2>1. Chosen(n) /\ clockHand' = f
    BY <1>2 DEF AllocBuf
  <2>2. f \in Frames
    BY <2>1, Evicted
  <2>3. DiskPage(k) \in DiskKey
    BY DEF DiskKey
  <2>4. hashTable[k] = NoFrame
    BY <1>2 DEF IInv, HashAgrees, ResidentInUse, TypeOK
  <2>5. Unhashed(f)[k] = NoFrame
    BY <2>4 DEF Unhashed, IInv, TypeOK
  <2>6. hashTable' = [Unhashed(f) EXCEPT ![k] = f] /\ Ended("allocPage", "ok")
    BY <1>2, <2>5
  <2>7. /\ disk' \in [DiskKey -> Data \cup {Free}]
        /\ disk'[DiskPage(k)] = Empty
        /\ \A x \in DiskKey : x # DiskPage(k) => disk'[x] = WrittenBack({f})[x]
    BY <1>2, <2>1, <2>3, Evicted, DataAssumption
  <2>8. ASSUME NEW g \in Frames \ {f} PROVE SameFrame(g) /\ SameOnDisk(g)
    <3>1. bufDescTable'[g] = Swept(n)[g]
      BY <1>2, <2>0, SweptFields DEF IInv
    <3>2. InUse(g) => bufDescTable[g].page \in PageKey
      BY DEF IInv, TypeOK, InUse, BufDesc
    <3>3. InUse(g) => DiskPage(bufDescTable[g].page) # DiskPage(k)
      BY <1>2 DEF IInv, ResidentInUse
    <3>4. SameOnDisk(g)
      BY <2>1, <2>7, <3>2, <3>3, Evicted DEF SameOnDisk, DiskKey
    <3> QED
      BY <3>1, <3>4, SweptSame
  <2>9. bufDescTable' \in [Frames -> BufDesc] /\ bufDescTable'[f] = Set(k)
    BY <1>2, <2>0, <2>2, SweptFields, DescriptorTypes DEF IInv
  <2>10. /\ bufPool' \in [Frames -> Data]
         /\ bufPool'[f] = Empty
         /\ \A g \in Frames \ {f} : bufPool'[g] = bufPool[g]
    BY <1>2, <2>2, DataAssumption DEF IInv, TypeOK
  <2>11. NoInternalError' /\ outcome' \in Outcome
    BY <2>6, Outcomes DEF Call, Result
  <2>12. IInv'
    BY <2>1, <2>2, <2>4, <2>6, <2>7, <2>8, <2>9, <2>10, <2>11, DataAssumption, Occupied
  <2> QED
    BY <2>11, <2>12
<1> QED
  BY <1>1, <1>2 DEF AllocPage

(* A call that moves nothing. *)
LEMMA IdleKeeps ==
    ASSUME IInv, UNCHANGED <<bufDescTable, bufPool, hashTable, clockHand, disk>>,
           outcome' \in Outcome
    PROVE  IInv'
  BY DEF IInv, TypeOK, HashAgrees, CleanMatchesDisk, ResidentInUse, InUse, DiskPage

LEMMA UnPinPageKeeps ==
    ASSUME IInv, NEW k \in PageKey, NEW dirty \in BOOLEAN, UnPinPage(k, dirty)
    PROVE  IInv' /\ NoInternalError'
<1> DEFINE f == hashTable[k]
<1>1. UNCHANGED <<bufPool, hashTable, clockHand, disk>>
  BY DEF UnPinPage
<1>2. NoInternalError' /\ outcome' \in Outcome
  <2>1. \E res \in {"HashNotFound", "PageNotPinned", "ok"} : Ended("unPinPage", res)
    BY DEF UnPinPage
  <2> QED
    BY <2>1, Outcomes DEF Call, Result
<1>3. CASE f = NoFrame
  BY <1>1, <1>2, <1>3, IdleKeeps DEF UnPinPage
<1>4. CASE f # NoFrame
  <2>1. f \in Frames /\ InUse(f) /\ bufDescTable[f].page = k
    BY <1>4 DEF IInv, TypeOK, HashAgrees
  <2>2. /\ Declares(k, dirty)
        /\ bufDescTable' = [bufDescTable EXCEPT ![f].dirty = @ \/ dirty,
                                                ![f].pinCnt = IF @ = 0 THEN 0 ELSE @ - 1]
    BY <1>4 DEF UnPinPage
  <2>3. bufDescTable \in [Frames -> BufDesc] /\ bufDescTable[f] \in BufDesc
    BY <2>1 DEF IInv, TypeOK
  <2>4. (IF bufDescTable[f].pinCnt = 0 THEN 0 ELSE bufDescTable[f].pinCnt - 1) \in Nat
    BY <2>3 DEF BufDesc
  <2>5. (bufDescTable[f].dirty \/ dirty) \in BOOLEAN
    OBVIOUS
  <2>6. bufDescTable' \in [Frames -> BufDesc]
    BY <2>1, <2>2, <2>3, <2>4, <2>5 DEF BufDesc
  <2>7. \A g \in Frames :
           /\ bufDescTable'[g].page = bufDescTable[g].page
           /\ bufDescTable'[g].valid = bufDescTable[g].valid
           /\ g # f => bufDescTable'[g] = bufDescTable[g]
    BY <2>1, <2>2, <2>3 DEF BufDesc
  <2>8. /\ bufDescTable'[f].dirty <=> bufDescTable[f].dirty \/ dirty
        /\ bufDescTable'[f].pinCnt = IF bufDescTable[f].pinCnt = 0 THEN 0
                                     ELSE bufDescTable[f].pinCnt - 1
    BY <2>1, <2>2, <2>3 DEF BufDesc
  <2>9. \A g \in Frames : InUse(g)' <=> InUse(g)
    BY <2>7 DEF InUse
  <2>10. TypeOK'
    BY <1>1, <1>2, <2>1, <2>6, <2>7, <2>9 DEF IInv, TypeOK
  <2>11. HashAgrees'
    BY <1>1, <2>7, <2>9 DEF IInv, HashAgrees
  <2>12. ASSUME NEW g \in Frames, InUse(g)', ~bufDescTable'[g].dirty, bufDescTable'[g].pinCnt = 0
         PROVE  bufPool'[g] = disk'[DiskPage(bufDescTable'[g].page)]
    <3>1. CASE g # f
      BY <1>1, <2>7, <2>9, <2>12, <3>1 DEF IInv, CleanMatchesDisk
    <3>2. CASE g = f
      <4>1. ~bufDescTable[f].dirty /\ ~dirty
        BY <2>8, <2>12, <3>2
      <4>2. bufDescTable[f].pinCnt \in Nat
        BY <2>3 DEF BufDesc
      <4>3. CASE bufDescTable[f].pinCnt = 0
        BY <1>1, <2>1, <2>7, <3>2, <4>1, <4>3 DEF IInv, CleanMatchesDisk
      <4>4. CASE bufDescTable[f].pinCnt = 1
        BY <1>1, <2>1, <2>2, <2>7, <3>2, <4>1, <4>4 DEF Declares
      <4>5. bufDescTable[f].pinCnt \in {0, 1}
        BY <2>8, <2>12, <3>2, <4>2
      <4> QED
        BY <4>3, <4>4, <4>5
    <3> QED
      BY <3>1, <3>2
  <2>13. CleanMatchesDisk'
    BY <2>12 DEF CleanMatchesDisk, DiskPage
  <2>14. ResidentInUse'
    BY <1>1, <2>7, <2>9 DEF IInv, ResidentInUse, DiskPage
  <2> QED
    BY <1>2, <2>10, <2>11, <2>13, <2>14 DEF IInv
<1> QED
  BY <1>3, <1>4

LEMMA ClientWriteKeeps ==
    ASSUME IInv, NEW k \in PageKey, NEW d \in Data, ClientWrite(k, d)
    PROVE  IInv' /\ NoInternalError'
<1> DEFINE f == hashTable[k]
<1>1. /\ bufPool' = [bufPool EXCEPT ![f] = d]
      /\ bufDescTable[f].pinCnt > 0
      /\ UNCHANGED <<bufDescTable, hashTable, clockHand, disk>>
      /\ Ended("write", "ok")
  BY DEF ClientWrite
<1>2. NoInternalError' /\ outcome' \in Outcome
  BY <1>1, Outcomes DEF Call, Result
<1>3. f \in Frames
  BY DEF ClientWrite, IInv, TypeOK
<1>4. TypeOK'
  BY <1>1, <1>2, <1>3 DEF IInv, TypeOK, InUse
<1>5. HashAgrees' /\ ResidentInUse'
  BY <1>1 DEF IInv, HashAgrees, ResidentInUse, InUse, DiskPage
<1>6. CleanMatchesDisk'
  <2>1. \A g \in Frames : g # f => bufPool'[g] = bufPool[g]
    BY <1>1, <1>3 DEF IInv, TypeOK
  <2>2. bufDescTable[f].pinCnt # 0
    BY <1>1, <1>3 DEF IInv, TypeOK, BufDesc
  <2> QED
    BY <1>1, <2>1, <2>2 DEF IInv, CleanMatchesDisk, InUse, DiskPage
<1> QED
  BY <1>2, <1>4, <1>5, <1>6 DEF IInv

LEMMA DisposePageKeeps ==
    ASSUME OwnFiles, IInv, NEW k \in PageKey, DisposePage(k)
    PROVE  IInv' /\ NoInternalError'
<1> DEFINE f == hashTable[k]
<1>1. UNCHANGED <<bufPool, clockHand>>
  BY DEF DisposePage
<1>2. CASE f = NoFrame
  <2>1. NoInternalError' /\ outcome' \in Outcome
    BY <1>2, Outcomes DEF DisposePage, Call, Result
  <2> QED
    BY <1>1, <1>2, <2>1, IdleKeeps DEF DisposePage
<1>3. CASE f # NoFrame
  <2>1. f \in Frames /\ InUse(f) /\ bufDescTable[f].page = k
    BY <1>3 DEF IInv, TypeOK, HashAgrees
  <2>2. disk[DiskPage(k)] # Free
    BY <2>1 DEF IInv, ResidentInUse
  <2>3. /\ bufDescTable' = [bufDescTable EXCEPT ![f] = Clear]
        /\ hashTable' = [hashTable EXCEPT ![k] = NoFrame]
        /\ disk' = [disk EXCEPT ![DiskPage(k)] = Free]
        /\ Ended("disposePage", "ok")
    BY <1>3, <2>2 DEF DisposePage
  <2>4. NoInternalError' /\ outcome' \in Outcome
    BY <2>3, Outcomes DEF Call, Result
  <2>5. /\ bufDescTable' \in [Frames -> BufDesc]
        /\ bufDescTable'[f] = Clear
        /\ disk' \in [DiskKey -> Data \cup {Free}]
        /\ hashTable' \in [PageKey -> Frames \cup {NoFrame}]
        /\ clockHand' \in Frames
        /\ bufPool' = bufPool
    BY <1>1, <2>1, <2>3, DescriptorTypes DEF IInv, TypeOK
  <2>6. ASSUME NEW g \in Frames \ {f} PROVE SameFrame(g) /\ SameOnDisk(g)
    <3>1. bufDescTable'[g] = bufDescTable[g]
      BY <2>3 DEF IInv, TypeOK
    <3>2. InUse(g) => DiskPage(bufDescTable[g].page) # DiskPage(k)
      BY <2>1, OneFrame DEF IInv, OneFramePerPage
    <3>3. InUse(g) => DiskPage(bufDescTable[g].page) \in DiskKey
      BY DEF IInv, TypeOK, InUse, BufDesc, DiskKey
    <3>4. SameOnDisk(g)
      BY <2>3, <3>2, <3>3 DEF SameOnDisk, IInv, TypeOK
    <3> QED
      BY <3>1, <3>4 DEF SameFrame, IInv, TypeOK
  <2>7. \A j \in PageKey : hashTable'[j] = IF Lost({f}, j) THEN NoFrame ELSE hashTable[j]
    BY <2>1, <2>3 DEF Lost, IInv, TypeOK
  <2>8. {f} \in SUBSET Frames
    BY <2>1
  <2>9. IInv'
    BY <2>4, <2>5, <2>6, <2>7, <2>8, Released
  <2> QED
    BY <2>4, <2>9
<1> QED
  BY <1>2, <1>3

(* The one thing that stops flushFile is a pin. *)
LEMMA FlushStops ==
    ASSUME OwnFiles, IInv, NEW h \in File, NEW f \in Owned(h)
    PROVE  /\ InUse(f)
           /\ FlushError(f) \in {"ok", "PagePinned"}
           /\ FlushError(f) = "ok" => bufDescTable[f].pinCnt = 0
<1>1. f \in Frames /\ bufDescTable[f].page # NoPage
  BY DEF Owned
<1>2. InUse(f) /\ bufDescTable[f] \in BufDesc
  BY <1>1 DEF IInv, TypeOK, Clear
<1>3. ~Unhashable(f)
  <2>1. ASSUME NEW g \in Frames, g < f, bufDescTable[g].page = bufDescTable[f].page
        PROVE  FALSE
    <3>1. InUse(g)
      BY <1>1, <2>1 DEF IInv, TypeOK, Clear
    <3>2. g = f
      BY <1>1, <1>2, <2>1, <3>1, OneFrame DEF OneFramePerPage, IInv
    <3> QED
      BY <2>1, <3>2, NumBufsAssumption DEF Frames
  <2> QED
    BY <1>1, <2>1, Writable DEF Unhashable
<1>4. ~Unwritable(f)
  BY <1>1, Writable
<1>5. bufDescTable[f].pinCnt > 0 \/ bufDescTable[f].pinCnt = 0
  BY <1>2 DEF BufDesc
<1> QED
  BY <1>2, <1>3, <1>4, <1>5 DEF FlushError, InUse

LEMMA FlushFileKeeps ==
    ASSUME OwnFiles, IInv, NEW h \in File, FlushFile(h)
    PROVE  IInv' /\ NoInternalError'
<1> DEFINE Stuck == {f \in Owned(h) : FlushError(f) # "ok"}
           Flushed == {f \in Owned(h) : \A g \in Stuck : f < g}
           First == {f \in Stuck : \A g \in Stuck : f <= g}
           Half == {f \in First : FlushError(f) = "HashNotFound"}
<1>0. Owned(h) \in SUBSET Frames
  BY DEF Owned
<1>1. Half = {}
  BY FlushStops
<1>2. /\ disk' = WrittenBack(Flushed)
      /\ bufDescTable' = [f \in Frames |-> IF f \in Flushed THEN Clear ELSE bufDescTable[f]]
      /\ hashTable' = [k \in PageKey |->
                          IF \E f \in Flushed : bufDescTable[f].page = k
                          THEN NoFrame ELSE hashTable[k]]
      /\ (Stuck = {} /\ Ended("flushFile", "ok")) \/ \E f \in First : Ended("flushFile", FlushError(f))
      /\ UNCHANGED <<bufPool, clockHand>>
  <2>1. disk' = WrittenBack(Flushed \cup Half)
    BY DEF FlushFile
  <2>2. Flushed \cup Half = Flushed
    BY <1>1
  <2>3. bufDescTable' = [f \in Frames |->
              IF f \in Flushed THEN Clear
              ELSE IF f \in Half THEN [bufDescTable[f] EXCEPT !.dirty = FALSE]
              ELSE bufDescTable[f]]
    BY DEF FlushFile
  <2>4. bufDescTable' = [f \in Frames |-> IF f \in Flushed THEN Clear ELSE bufDescTable[f]]
    BY <1>1, <2>3
  <2> QED
    BY <2>1, <2>2, <2>4 DEF FlushFile
<1>3. NoInternalError' /\ outcome' \in Outcome
  <2>1. Ended("flushFile", "ok") \/ Ended("flushFile", "PagePinned")
    BY <1>2, FlushStops
  <2> QED
    BY <2>1, Outcomes DEF Call, Result
<1>4. \A f \in Flushed : f \in Frames /\ InUse(f)
  BY <1>0, FlushStops
<1>5. Flushed \in SUBSET Frames
  BY <1>4
<1>6. /\ bufDescTable' \in [Frames -> BufDesc]
      /\ \A f \in Flushed : bufDescTable'[f] = Clear
      /\ bufPool' = bufPool
      /\ clockHand' \in Frames
      /\ disk' \in [DiskKey -> Data \cup {Free}]
      /\ hashTable' \in [PageKey -> Frames \cup {NoFrame}]
  <2> HIDE DEF Flushed
  <2> QED
    BY <1>2, <1>5, DescriptorTypes, WrittenBackDisk DEF IInv, TypeOK
<1>7. \A k \in PageKey : hashTable'[k] = IF Lost(Flushed, k) THEN NoFrame ELSE hashTable[k]
  <2> HIDE DEF Flushed
  <2> QED
    BY <1>2, <1>4 DEF Lost
<1>8. ASSUME NEW f \in Frames \ Flushed PROVE SameFrame(f) /\ SameOnDisk(f)
  <2> HIDE DEF Flushed
  <2>1. bufDescTable'[f] = bufDescTable[f]
    BY <1>2
  <2>2. InUse(f) => DiskPage(bufDescTable[f].page) \in DiskKey
    BY DEF IInv, TypeOK, InUse, BufDesc, DiskKey
  <2>3. InUse(f) => \A g \in Flushed : ~DirtyFor(g, DiskPage(bufDescTable[f].page))
    BY <1>4, OneFrame DEF IInv, OneFramePerPage, DirtyFor
  <2>4. SameOnDisk(f)
    BY <1>2, <1>5, <2>2, <2>3, WrittenBackDisk DEF SameOnDisk
  <2> QED
    BY <2>1, <2>4 DEF SameFrame, IInv, TypeOK
<1>9. IInv'
  <2> HIDE DEF Flushed
  <2> QED
    BY <1>3, <1>5, <1>6, <1>7, <1>8, Released
<1> QED
  BY <1>3, <1>9

LEMMA RestartKeeps ==
    ASSUME OwnFiles, IInv, Restart
    PROVE  IInv' /\ NoInternalError'
<1> DEFINE Used == {f \in Frames : bufDescTable[f].valid}
           Written == {f \in Used : \A g \in Used : Unwritable(g) => f < g}
<1>1. Written = Used
  BY Writable
<1>2. /\ disk' = WrittenBack(Used)
      /\ bufDescTable' = [f \in Frames |-> Clear]
      /\ bufPool' = [f \in Frames |-> Empty]
      /\ hashTable' = [k \in PageKey |-> NoFrame]
      /\ clockHand' = NumBufs - 1
      /\ Ended("BufMgr", "ok")
  BY <1>1 DEF Restart
<1>3. NoInternalError' /\ outcome' \in Outcome
  BY <1>2, Outcomes DEF Call, Result
<1>4. \A f \in Frames : bufDescTable'[f] = Clear /\ ~InUse(f)'
  BY <1>2 DEF Clear, InUse
<1>5. TypeOK'
  <2>1. disk' \in [DiskKey -> Data \cup {Free}]
    BY <1>2, WrittenBackDisk
  <2>2. clockHand' \in Frames
    BY <1>2, NumBufsAssumption DEF Frames
  <2> QED
    BY <1>2, <1>3, <1>4, <2>1, <2>2, DescriptorTypes, DataAssumption DEF TypeOK
<1>6. HashAgrees'
  BY <1>2, <1>4, FileAssumption, NumBufsAssumption DEF HashAgrees, Frames
<1>7. CleanMatchesDisk' /\ ResidentInUse'
  BY <1>4 DEF CleanMatchesDisk, ResidentInUse
<1> QED
  BY <1>3, <1>5, <1>6, <1>7 DEF IInv

-----------------------------------------------------------------------------
(* The theorems. *)

LEMMA InitHolds ==
    Init => IInv /\ NoInternalError
<1> SUFFICES ASSUME Init PROVE IInv /\ NoInternalError
  OBVIOUS
<1>1. \A f \in Frames : bufDescTable[f] = Clear /\ ~InUse(f)
  BY DEF Init, InUse, Clear
<1>2. TypeOK
  BY <1>1, DescriptorTypes, DataAssumption, NumBufsAssumption
     DEF Init, TypeOK, Frames, Outcome, Call, Result
<1>3. HashAgrees
  BY <1>1, FileAssumption, NumBufsAssumption DEF Init, HashAgrees, Frames
<1>4. CleanMatchesDisk /\ ResidentInUse
  BY <1>1 DEF CleanMatchesDisk, ResidentInUse
<1>5. NoInternalError
  BY DEF Init, NoInternalError
<1> QED
  BY <1>2, <1>3, <1>4, <1>5 DEF IInv

Inv == IInv /\ NoInternalError

LEMMA StepKeeps ==
    ASSUME OwnFiles, Inv, [Next]_vars
    PROVE  Inv'
<1>1. CASE UNCHANGED vars
  BY <1>1 DEF vars, Inv, IInv, TypeOK, HashAgrees, CleanMatchesDisk, ResidentInUse, InUse,
              DiskPage, NoInternalError
<1>2. ASSUME NEW k \in PageKey, ReadPage(k) PROVE Inv'
  <2>1. CASE ReadHit(k)
    BY <2>1, ReadHitKeeps DEF Inv
  <2>2. ASSUME NEW n \in Scans, ReadMiss(k, n) PROVE Inv'
    BY <2>2, ReadMissKeeps DEF Inv
  <2>3. CASE AllocBufThrows
    BY <2>3, AllocBufThrowsKeeps DEF Inv
  <2> QED
    BY <1>2, <2>1, <2>2, <2>3 DEF ReadPage
<1>3. ASSUME NEW k \in PageKey, AllocPage(k) PROVE Inv'
  BY <1>3, AllocPageKeeps DEF Inv
<1>4. ASSUME NEW k \in PageKey, DisposePage(k) PROVE Inv'
  BY <1>4, DisposePageKeeps DEF Inv
<1>5. ASSUME NEW k \in PageKey, NEW dirty \in BOOLEAN, UnPinPage(k, dirty) PROVE Inv'
  BY <1>5, UnPinPageKeeps DEF Inv
<1>6. ASSUME NEW k \in PageKey, NEW d \in Data, ClientWrite(k, d) PROVE Inv'
  BY <1>6, ClientWriteKeeps DEF Inv
<1>7. ASSUME NEW h \in File, FlushFile(h) PROVE Inv'
  BY <1>7, FlushFileKeeps DEF Inv
<1>8. CASE Restart
  BY <1>8, RestartKeeps DEF Inv
<1> QED
  BY <1>1, <1>2, <1>3, <1>4, <1>5, <1>6, <1>7, <1>8 DEF Next

(* The strengthened invariant holds in every reachable state. *)
THEOREM Invariance == ASSUME OwnFiles PROVE Spec => []Inv
<1>1. Init => Inv
  BY InitHolds DEF Inv
<1>2. Inv /\ [Next]_vars => Inv'
  BY StepKeeps
<1> QED
  BY <1>1, <1>2, PTL DEF Spec

(* The hash table and the descriptors of the frames never disagree. *)
THEOREM HashTableAgrees == ASSUME OwnFiles PROVE Spec => []HashAgrees
<1>1. Inv => HashAgrees
  BY DEF Inv, IInv
<1> QED
  BY <1>1, Invariance, PTL

(* A frame given away without a write never held anything the disk lacks.  *)
THEOREM NoUpdateLost == ASSUME OwnFiles PROVE Spec => []CleanMatchesDisk
<1>1. Inv => CleanMatchesDisk
  BY DEF Inv, IInv
<1> QED
  BY <1>1, Invariance, PTL

(* No call ends with an exception that only a broken pool can cause. *)
THEOREM InternallySound == ASSUME OwnFiles PROVE Spec => []NoInternalError
<1>1. Inv => NoInternalError
  BY DEF Inv
<1> QED
  BY <1>1, Invariance, PTL
=============================================================================

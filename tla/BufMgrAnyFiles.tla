---------------------------- MODULE BufMgrAnyFiles --------------------------
(***************************************************************************)
(* Proofs about the buffer manager that ask nothing of the files: they     *)
(* hold as well when several File objects have one file open, where the    *)
(* pool may hold a page twice and callers may see stale pages, as for any  *)
(* pool size and page contents.                                            *)
(***************************************************************************)
EXTENDS BufMgr, FiniteSetTheorems, TLAPS

-----------------------------------------------------------------------------
(* The clock. *)

(* The hand visits frames of the pool. *)
LEMMA ScanFrameType ==
    ASSUME TypeOK, NEW i \in Nat
    PROVE  ScanFrame(i) \in Frames
  BY NumBufsAssumption DEF TypeOK, Frames, ScanFrame

(* The second round visits every frame. *)
LEMMA SecondRound ==
    ASSUME TypeOK, NEW f \in Frames
    PROVE  \E i \in Scans : i > NumBufs /\ ScanFrame(i) = f
<1>0. NumBufs \in Nat \ {0} /\ clockHand \in 0 .. NumBufs - 1 /\ f \in 0 .. NumBufs - 1
  BY NumBufsAssumption DEF TypeOK, Frames
<1>1. CASE f > clockHand
  <2>1. NumBufs + f - clockHand \in Scans /\ NumBufs + f - clockHand > NumBufs
    BY <1>0, <1>1 DEF Scans
  <2>2. ScanFrame(NumBufs + f - clockHand) = f
    <3>1. clockHand + (NumBufs + f - clockHand) = NumBufs + f
      BY <1>0
    <3>2. (NumBufs + f) % NumBufs = f
      BY <1>0
    <3> QED
      BY <3>1, <3>2 DEF ScanFrame
  <2> QED
    BY <2>1, <2>2
<1>2. CASE f <= clockHand
  <2>1. 2 * NumBufs + f - clockHand \in Scans /\ 2 * NumBufs + f - clockHand > NumBufs
    BY <1>0, <1>2 DEF Scans
  <2>2. ScanFrame(2 * NumBufs + f - clockHand) = f
    <3>1. clockHand + (2 * NumBufs + f - clockHand) = 2 * NumBufs + f
      BY <1>0
    <3>2. (2 * NumBufs + f) % NumBufs = f
      BY <1>0
    <3> QED
      BY <3>1, <3>2 DEF ScanFrame
  <2> QED
    BY <2>1, <2>2
<1> QED
  BY <1>0, <1>1, <1>2

(* When no scan finds a frame, every frame is in use and pinned. *)
LEMMA NoFrameMeansPinned ==
    ASSUME TypeOK, \A i \in Scans : ~Takes(i), NEW f \in Frames
    PROVE  InUse(f) /\ bufDescTable[f].pinCnt > 0
<1>1. PICK i \in Scans : i > NumBufs /\ ScanFrame(i) = f
  BY SecondRound
<1>2. ~Takes(i)
  BY <1>1
<1>3. bufDescTable[f] \in BufDesc
  BY DEF TypeOK
<1> QED
  BY <1>1, <1>2, <1>3 DEF Takes, InUse, BufDesc

(* The frame a scan stops at is unused or unpinned. *)
LEMMA ChosenFrame ==
    ASSUME TypeOK, NEW n \in Scans, Chosen(n)
    PROVE  /\ ScanFrame(n) \in Frames
           /\ InUse(ScanFrame(n)) => bufDescTable[ScanFrame(n)].pinCnt = 0
<1>1. n \in Nat
  BY NumBufsAssumption DEF Scans
<1> QED
  BY <1>1, ScanFrameType DEF Chosen, Takes, InUse

(* Passing over a frame changes nothing but its reference bit. *)
LEMMA SweptFields ==
    ASSUME TypeOK, NEW n \in Nat
    PROVE  /\ Swept(n) \in [Frames -> BufDesc]
           /\ \A f \in Frames :
                 /\ Swept(n)[f].page = bufDescTable[f].page
                 /\ Swept(n)[f].pinCnt = bufDescTable[f].pinCnt
                 /\ Swept(n)[f].dirty = bufDescTable[f].dirty
                 /\ Swept(n)[f].valid = bufDescTable[f].valid
                 /\ ~InUse(f) => Swept(n)[f] = Clear
<1>1. ASSUME NEW f \in Frames
      PROVE  /\ Swept(n)[f] \in BufDesc
             /\ Swept(n)[f].page = bufDescTable[f].page
             /\ Swept(n)[f].pinCnt = bufDescTable[f].pinCnt
             /\ Swept(n)[f].dirty = bufDescTable[f].dirty
             /\ Swept(n)[f].valid = bufDescTable[f].valid
             /\ ~InUse(f) => Swept(n)[f] = Clear
  <2>1. bufDescTable[f] \in BufDesc /\ (~InUse(f) => bufDescTable[f] = Clear)
    BY DEF TypeOK
  <2>2. \/ Swept(n)[f] = bufDescTable[f]
        \/ Swept(n)[f] = [bufDescTable[f] EXCEPT !.refbit = FALSE]
    BY DEF Swept
  <2>3. [bufDescTable[f] EXCEPT !.refbit = FALSE] \in BufDesc
    BY <2>1 DEF BufDesc
  <2>4. bufDescTable[f] = Clear => [bufDescTable[f] EXCEPT !.refbit = FALSE] = Clear
    <3>1. Clear.refbit = FALSE
      BY DEF Clear
    <3> QED
      BY <2>1, <3>1 DEF BufDesc
  <2>5. /\ Swept(n)[f].page = bufDescTable[f].page
        /\ Swept(n)[f].pinCnt = bufDescTable[f].pinCnt
        /\ Swept(n)[f].dirty = bufDescTable[f].dirty
        /\ Swept(n)[f].valid = bufDescTable[f].valid
    BY <2>1, <2>2 DEF BufDesc
  <2> QED
    BY <2>1, <2>2, <2>3, <2>4, <2>5
<1>2. Swept(n) = [f \in Frames |-> Swept(n)[f]]
  BY DEF Swept
<1> QED
  BY <1>1, <1>2
-----------------------------------------------------------------------------
(* Types. *)

LEMMA DescriptorTypes ==
    /\ Clear \in BufDesc
    /\ \A k \in PageKey : Set(k) \in BufDesc
  BY DEF Clear, Set, BufDesc

(* Of some frames one is the last: the frames after it are the fewest, as  *)
(* strict inclusion of finite sets is well-founded.                        *)
LEMMA LastFrame ==
    ASSUME NEW T \in SUBSET Frames, T # {}
    PROVE  \E f \in T : \A g \in T : g <= f
<1> DEFINE After(f) == {g \in T : g > f}
           Afters == {After(f) : f \in T}
<1>0. T \subseteq 0 .. NumBufs - 1 /\ NumBufs \in Nat
  BY NumBufsAssumption DEF Frames
<1>1. IsFiniteSet(Frames)
  BY <1>0, FS_Interval, NumBufsAssumption DEF Frames
<1>2. FiniteSubsetsOf(Frames) = SUBSET Frames
  BY <1>1, FS_FiniteSubsetsOfFinite
<1>3. Afters \subseteq SUBSET Frames /\ Afters # {}
  OBVIOUS
<1>4. \E U \in Afters : \A V \in Afters : ~(<<V, U>> \in StrictSubsetOrdering(Frames))
  <2> HIDE DEF Afters
  <2>1. IsWellFoundedOn(StrictSubsetOrdering(Frames), FiniteSubsetsOf(Frames))
    BY FS_StrictSubsetOrderingWellFounded
  <2> QED
    BY <1>2, <1>3, <2>1, WFMin
<1>5. PICK f \in T : \A g \in T : ~(<<After(g), After(f)>> \in StrictSubsetOrdering(Frames))
  BY <1>4
<1>6. ASSUME NEW g \in T, g > f PROVE FALSE
  <2>1. After(g) \subseteq After(f) /\ g \in After(f) /\ g \notin After(g)
    <3>1. f \in Int /\ g \in Int /\ \A j \in T : j \in Int
      BY <1>0
    <3>2. ~(g > g) /\ \A j \in T : j > g => j > f
      BY <1>6, <3>1
    <3> QED
      BY <1>6, <3>2
  <2>2. After(g) \in SUBSET Frames /\ After(f) \in SUBSET Frames
    OBVIOUS
  <2> HIDE DEF After
  <2> QED
    BY <1>5, <2>1, <2>2 DEF StrictSubsetOrdering
<1> QED
  BY <1>0, <1>6

LEMMA WrittenBackType ==
    ASSUME TypeOK, NEW F \in SUBSET Frames
    PROVE  WrittenBack(F) \in [DiskKey -> Data \cup {Free}]
<1>1. ASSUME NEW x \in DiskKey, NEW f \in F, DirtyFor(f, x)
      PROVE  WrittenBack(F)[x] \in Data
  <2> DEFINE T == {g \in F : DirtyFor(g, x)}
  <2>1. T \in SUBSET Frames /\ T # {}
    BY <1>1
  <2>2. \E g \in T : \A j \in T : j <= g
    <3> HIDE DEF T
    <3> QED
      BY <2>1, LastFrame
  <2>3. \E g \in F : DirtyFor(g, x) /\ \A j \in F : DirtyFor(j, x) => j <= g
    BY <2>2
  <2>4. WrittenBack(F)[x] = bufPool[CHOOSE g \in F :
                                DirtyFor(g, x) /\ \A j \in F : DirtyFor(j, x) => j <= g]
    BY <1>1 DEF WrittenBack
  <2> QED
    BY <2>3, <2>4 DEF TypeOK
<1>2. ASSUME NEW x \in DiskKey, \A f \in F : ~DirtyFor(f, x)
      PROVE  WrittenBack(F)[x] = disk[x]
  BY <1>2 DEF WrittenBack
<1>3. \A x \in DiskKey : WrittenBack(F)[x] \in Data \cup {Free}
  BY <1>1, <1>2 DEF TypeOK
<1>4. WrittenBack(F) = [x \in DiskKey |-> WrittenBack(F)[x]]
  BY DEF WrittenBack
<1> QED
  BY <1>3, <1>4

(* A write-back frees no page. *)
LEMMA WrittenBackKeeps ==
    ASSUME TypeOK, NEW f \in Frames, NEW x \in DiskKey, disk[x] # Free
    PROVE  WrittenBack({f})[x] # Free
<1>1. CASE DirtyFor(f, x)
  <2>1. (CHOOSE g \in {f} :
            DirtyFor(g, x) /\ \A j \in {f} : DirtyFor(j, x) => j <= g) = f
    BY <1>1, NumBufsAssumption DEF Frames
  <2>2. WrittenBack({f})[x] = bufPool[f]
    BY <1>1, <2>1 DEF WrittenBack
  <2> QED
    BY <2>2, DataAssumption DEF TypeOK
<1>2. CASE ~DirtyFor(f, x)
  BY <1>2 DEF WrittenBack
<1> QED
  BY <1>1, <1>2

LEMMA UnhashedType ==
    ASSUME TypeOK, NEW f \in Frames
    PROVE  /\ Unhashed(f) \in [PageKey -> Frames \cup {NoFrame}]
           /\ \A k \in PageKey :
                 Unhashed(f)[k] =
                    IF InUse(f) /\ bufDescTable[f].page = k THEN NoFrame ELSE hashTable[k]
  BY DEF Unhashed, InUse, TypeOK

-----------------------------------------------------------------------------
(* Each call keeps the types and the table.                                *)

SInv == TypeOK /\ HashSound

(* The frame keeps its page, or gets a descriptor of its own. *)
Kept(f) ==
    /\ bufDescTable'[f].page = bufDescTable[f].page
    /\ bufDescTable'[f].valid = bufDescTable[f].valid
    /\ ~InUse(f) => bufDescTable'[f] = Clear

Given(f) == bufDescTable'[f] = Clear \/ \E k \in PageKey : bufDescTable'[f] = Set(k)

(* An entry that stays leads to a frame that keeps its page, and a new one *)
(* to the frame the page was just put in.                                  *)
EntryHolds(k) ==
    \/ hashTable'[k] = NoFrame
    \/ hashTable'[k] = hashTable[k] /\ Kept(hashTable[k])
    \/ hashTable'[k] \in Frames /\ bufDescTable'[hashTable'[k]] = Set(k)

LEMMA TableKept ==
    ASSUME SInv,
           bufDescTable' \in [Frames -> BufDesc],
           bufPool' \in [Frames -> Data],
           hashTable' \in [PageKey -> Frames \cup {NoFrame}],
           clockHand' \in Frames,
           disk' \in [DiskKey -> Data \cup {Free}],
           outcome' \in Outcome,
           \A f \in Frames : Kept(f) \/ Given(f),
           \A k \in PageKey : EntryHolds(k)
    PROVE  SInv'
<1>1. ASSUME NEW f \in Frames
      PROVE  IF InUse(f)' THEN bufDescTable'[f].page # NoPage ELSE bufDescTable'[f] = Clear
  <2>1. CASE Kept(f)
    BY <2>1 DEF SInv, TypeOK, Kept, InUse
  <2>2. CASE bufDescTable'[f] = Clear
    BY <2>2 DEF Clear, InUse
  <2>3. ASSUME NEW k \in PageKey, bufDescTable'[f] = Set(k)
        PROVE  InUse(f)' /\ bufDescTable'[f].page # NoPage
    BY <2>3, FileAssumption DEF Set, InUse, PageKey
  <2> QED
    BY <2>1, <2>2, <2>3 DEF Given
<1>2. ASSUME NEW k \in PageKey, hashTable'[k] # NoFrame
      PROVE  bufDescTable'[hashTable'[k]].valid /\ bufDescTable'[hashTable'[k]].page = k
  <2>1. CASE hashTable'[k] = hashTable[k] /\ Kept(hashTable[k])
    BY <1>2, <2>1 DEF SInv, HashSound, Kept, InUse
  <2>2. CASE bufDescTable'[hashTable'[k]] = Set(k)
    BY <2>2 DEF Set
  <2> QED
    BY <1>2, <2>1, <2>2 DEF EntryHolds
<1>3. TypeOK'
  BY <1>1 DEF TypeOK
<1>4. HashSound'
  BY <1>2 DEF HashSound, InUse
<1> QED
  BY <1>3, <1>4 DEF SInv

(* A frame that keeps page and valid bit is kept. *)
LEMMA SweptKept ==
    ASSUME SInv, NEW n \in Nat, NEW f \in Frames, bufDescTable'[f] = Swept(n)[f]
    PROVE  Kept(f)
  BY SweptFields DEF SInv, Kept

(* The frame allocBuf chose is unhashed and takes descriptor d. *)
LEMMA FrameGiven ==
    ASSUME SInv, NEW n \in Scans, Chosen(n),
           NEW d \in {Clear} \cup {Set(k) : k \in PageKey},
           bufDescTable' = [Swept(n) EXCEPT ![ScanFrame(n)] = d]
    PROVE  /\ bufDescTable' \in [Frames -> BufDesc]
           /\ \A f \in Frames : Kept(f) \/ Given(f)
           /\ \A k \in PageKey :
                 hashTable'[k] = Unhashed(ScanFrame(n))[k] => EntryHolds(k)
<1> DEFINE v == ScanFrame(n)
<1>0. n \in Nat /\ v \in Frames
  BY NumBufsAssumption, ChosenFrame DEF Scans, SInv
<1>1. Swept(n) \in [Frames -> BufDesc] /\ d \in BufDesc
  BY <1>0, SweptFields, DescriptorTypes DEF SInv
<1>2. bufDescTable' \in [Frames -> BufDesc] /\ bufDescTable'[v] = d
  BY <1>0, <1>1
<1>3. ASSUME NEW f \in Frames, f # v PROVE Kept(f)
  BY <1>0, <1>1, <1>3, SweptKept
<1>4. Given(v)
  BY <1>2 DEF Given
<1>5. ASSUME NEW k \in PageKey, hashTable'[k] = Unhashed(v)[k] PROVE EntryHolds(k)
  <2>1. CASE Unhashed(v)[k] = NoFrame
    BY <1>5, <2>1 DEF EntryHolds
  <2>2. CASE Unhashed(v)[k] # NoFrame
    <3>1. hashTable'[k] = hashTable[k] /\ ~(InUse(v) /\ bufDescTable[v].page = k)
      BY <1>0, <1>5, <2>2, UnhashedType DEF SInv
    <3>2. hashTable[k] # v /\ hashTable[k] \in Frames
      BY <1>5, <2>2, <3>1 DEF SInv, HashSound, TypeOK
    <3> QED
      BY <1>3, <3>1, <3>2 DEF EntryHolds
  <2> QED
    BY <2>1, <2>2
<1> QED
  BY <1>2, <1>3, <1>4, <1>5

(* A call that only sweeps, with entries removed or not. *)
LEMMA AllocBufThrowsSound ==
    ASSUME SInv, AllocBufThrows
    PROVE  SInv' /\ ExceededOnlyWhenAllPinned'
<1>1. PICK n \in Scans : bufDescTable' = Swept(n) /\ clockHand' = ScanFrame(n)
  <2>1. 2 * NumBufs \in Scans
    BY NumBufsAssumption DEF Scans
  <2> QED
    BY <2>1 DEF AllocBufThrows
<1>2. n \in Nat
  BY NumBufsAssumption DEF Scans
<1>3. bufDescTable' \in [Frames -> BufDesc] /\ \A f \in Frames : Kept(f)
  BY <1>1, <1>2, SweptFields, SweptKept DEF SInv
<1>4. clockHand' \in Frames
  BY <1>1, <1>2, ScanFrameType DEF SInv
<1>5. /\ hashTable' \in [PageKey -> Frames \cup {NoFrame}]
      /\ \A k \in PageKey : hashTable'[k] \in {NoFrame, hashTable[k]}
  <2>1. ASSUME NEW m \in Scans, Chosen(m), hashTable' = Unhashed(ScanFrame(m))
        PROVE  /\ hashTable' \in [PageKey -> Frames \cup {NoFrame}]
               /\ \A k \in PageKey : hashTable'[k] \in {NoFrame, hashTable[k]}
    BY <2>1, ChosenFrame, UnhashedType DEF SInv
  <2>2. CASE hashTable' = hashTable
    BY <2>2 DEF SInv, TypeOK
  <2> QED
    BY <2>1, <2>2 DEF AllocBufThrows
<1>6. \A k \in PageKey : EntryHolds(k)
  BY <1>3, <1>5 DEF EntryHolds, SInv, TypeOK
<1>7. bufPool' = bufPool /\ disk' = disk
  BY DEF AllocBufThrows
<1>8. outcome' \in Outcome
  BY DEF AllocBufThrows, Ended, Outcome, Call, Result
<1>9. SInv'
  BY <1>3, <1>4, <1>5, <1>6, <1>7, <1>8, TableKept DEF SInv, TypeOK
<1>10. ExceededOnlyWhenAllPinned'
  <2>1. SUFFICES ASSUME outcome'.res = "BufferExceeded", NEW f \in Frames
                 PROVE  bufDescTable'[f].valid /\ bufDescTable'[f].pinCnt > 0
    BY DEF ExceededOnlyWhenAllPinned, InUse
  <2>2. \A i \in Scans : ~Takes(i)
    BY <2>1 DEF AllocBufThrows, Ended
  <2>3. InUse(f) /\ bufDescTable[f].pinCnt > 0
    BY <2>2, NoFrameMeansPinned DEF SInv
  <2> QED
    BY <1>1, <1>2, <2>3, SweptFields DEF SInv, InUse
<1> QED
  BY <1>9, <1>10

NotExceeded == outcome'.res # "BufferExceeded"

LEMMA ReadHitSound ==
    ASSUME SInv, NEW k \in PageKey, ReadHit(k)
    PROVE  SInv' /\ NotExceeded
<1> DEFINE f == hashTable[k]
<1>1. f \in Frames /\ InUse(f) /\ bufDescTable \in [Frames -> BufDesc]
  BY DEF ReadHit, SInv, TypeOK, HashSound
<1>2. bufDescTable' = [bufDescTable EXCEPT ![f].refbit = TRUE, ![f].pinCnt = @ + 1]
  BY DEF ReadHit
<1>3. bufDescTable' \in [Frames -> BufDesc]
  <2>1. bufDescTable[f].pinCnt + 1 \in Nat
    BY <1>1 DEF BufDesc
  <2> QED
    BY <1>1, <1>2, <2>1 DEF BufDesc
<1>4. ASSUME NEW g \in Frames PROVE Kept(g)
  <2>1. /\ bufDescTable'[g].page = bufDescTable[g].page
        /\ bufDescTable'[g].valid = bufDescTable[g].valid
        /\ ~InUse(g) => bufDescTable'[g] = bufDescTable[g]
    BY <1>1, <1>2 DEF BufDesc
  <2> QED
    BY <2>1 DEF Kept, SInv, TypeOK
<1>5. UNCHANGED <<bufPool, hashTable, clockHand, disk>>
  BY DEF ReadHit
<1>6. outcome' \in Outcome /\ NotExceeded
  BY DEF ReadHit, Ended, Outcome, Call, Result, NotExceeded
<1>7. \A j \in PageKey : EntryHolds(j)
  BY <1>4, <1>5 DEF EntryHolds, SInv, TypeOK
<1>8. SInv'
  BY <1>3, <1>4, <1>5, <1>6, <1>7, TableKept DEF SInv, TypeOK
<1> QED
  BY <1>6, <1>8

LEMMA ReadMissSound ==
    ASSUME SInv, NEW k \in PageKey, NEW n \in Scans, ReadMiss(k, n)
    PROVE  SInv' /\ NotExceeded
<1> DEFINE f == ScanFrame(n)
<1>1. Chosen(n) /\ clockHand' = f /\ disk' = WrittenBack({f})
  BY DEF ReadMiss, AllocBuf
<1>2. f \in Frames
  BY <1>1, ChosenFrame DEF SInv
<1>3. disk' \in [DiskKey -> Data \cup {Free}]
  BY <1>1, <1>2, WrittenBackType DEF SInv
<1>4. Unhashed(f) \in [PageKey -> Frames \cup {NoFrame}]
  BY <1>2, UnhashedType DEF SInv
<1>5. outcome' \in Outcome /\ NotExceeded
  BY DEF ReadMiss, Ended, Outcome, Call, Result, NotExceeded
<1>6. CASE /\ disk[DiskPage(k)] # Free
           /\ bufPool' = [bufPool EXCEPT ![f] = disk'[DiskPage(k)]]
           /\ bufDescTable' = [Swept(n) EXCEPT ![f] = Set(k)]
           /\ hashTable' = [Unhashed(f) EXCEPT ![k] = f]
  <2>1. DiskPage(k) \in DiskKey /\ disk'[DiskPage(k)] \in Data
    <3>1. DiskPage(k) \in DiskKey
      BY DEF DiskKey
    <3>2. disk'[DiskPage(k)] # Free
      BY <1>1, <1>2, <1>6, <3>1, WrittenBackKeeps DEF SInv
    <3> QED
      BY <1>3, <3>1, <3>2
  <2>2. bufPool' \in [Frames -> Data]
    BY <1>6, <2>1 DEF SInv, TypeOK
  <2>3. hashTable' \in [PageKey -> Frames \cup {NoFrame}]
    BY <1>2, <1>4, <1>6
  <2>4. /\ bufDescTable' \in [Frames -> BufDesc]
        /\ \A g \in Frames : Kept(g) \/ Given(g)
        /\ \A j \in PageKey : hashTable'[j] = Unhashed(f)[j] => EntryHolds(j)
    BY <1>1, <1>6, FrameGiven
  <2>5. \A j \in PageKey : j # k => hashTable'[j] = Unhashed(f)[j]
    BY <1>4, <1>6
  <2>6. EntryHolds(k)
    <3>1. Swept(n) \in [Frames -> BufDesc]
      BY NumBufsAssumption, SweptFields DEF Scans, SInv
    <3>2. hashTable'[k] = f /\ bufDescTable'[f] = Set(k)
      BY <1>2, <1>4, <1>6, <3>1
    <3> QED
      BY <1>2, <3>2 DEF EntryHolds
  <2> QED
    BY <1>1, <1>2, <1>3, <1>5, <2>2, <2>3, <2>4, <2>5, <2>6, TableKept
<1>7. CASE /\ bufDescTable' = [Swept(n) EXCEPT ![f] = Clear]
           /\ hashTable' = Unhashed(f)
           /\ UNCHANGED bufPool
  <2>1. bufPool' \in [Frames -> Data]
    BY <1>7 DEF SInv, TypeOK
  <2>2. /\ bufDescTable' \in [Frames -> BufDesc]
        /\ \A g \in Frames : Kept(g) \/ Given(g)
        /\ \A j \in PageKey : hashTable'[j] = Unhashed(f)[j] => EntryHolds(j)
    BY <1>1, <1>7, FrameGiven
  <2> QED
    BY <1>1, <1>2, <1>3, <1>4, <1>5, <1>7, <2>1, <2>2, TableKept
<1> QED
  BY <1>6, <1>7 DEF ReadMiss

LEMMA AllocPageSound ==
    ASSUME SInv, NEW k \in PageKey, NEW n \in Scans, AllocBuf(n),
           disk' = [WrittenBack({ScanFrame(n)}) EXCEPT ![DiskPage(k)] = Empty],
           bufPool' = [bufPool EXCEPT ![ScanFrame(n)] = Empty],
           bufDescTable' = [Swept(n) EXCEPT ![ScanFrame(n)] = Set(k)],
           IF Unhashed(ScanFrame(n))[k] = NoFrame
           THEN /\ hashTable' = [Unhashed(ScanFrame(n)) EXCEPT ![k] = ScanFrame(n)]
                /\ Ended("allocPage", "ok")
           ELSE /\ hashTable' = Unhashed(ScanFrame(n))
                /\ Ended("allocPage", "HashAlreadyPresent")
    PROVE  SInv' /\ NotExceeded
<1> DEFINE f == ScanFrame(n)
<1>1. Chosen(n) /\ clockHand' = f
  BY DEF AllocBuf
<1>2. f \in Frames
  BY <1>1, ChosenFrame DEF SInv
<1>3. disk' \in [DiskKey -> Data \cup {Free}]
  BY <1>2, WrittenBackType, DataAssumption DEF SInv
<1>4. Unhashed(f) \in [PageKey -> Frames \cup {NoFrame}]
  BY <1>2, UnhashedType DEF SInv
<1>5. outcome' \in Outcome /\ NotExceeded
  BY DEF Ended, Outcome, Call, Result, NotExceeded
<1>6. bufPool' \in [Frames -> Data]
  BY DataAssumption DEF SInv, TypeOK
<1>7. /\ bufDescTable' \in [Frames -> BufDesc]
      /\ \A g \in Frames : Kept(g) \/ Given(g)
      /\ \A j \in PageKey : hashTable'[j] = Unhashed(f)[j] => EntryHolds(j)
  BY <1>1, FrameGiven
<1>8. CASE hashTable' = [Unhashed(f) EXCEPT ![k] = f]
  <2>1. hashTable' \in [PageKey -> Frames \cup {NoFrame}]
    BY <1>2, <1>4, <1>8
  <2>2. \A j \in PageKey : j # k => hashTable'[j] = Unhashed(f)[j]
    BY <1>4, <1>8
  <2>3. EntryHolds(k)
    <3>1. Swept(n) \in [Frames -> BufDesc]
      BY NumBufsAssumption, SweptFields DEF Scans, SInv
    <3>2. hashTable'[k] = f /\ bufDescTable'[f] = Set(k)
      BY <1>2, <1>4, <1>8, <3>1
    <3> QED
      BY <1>2, <3>2 DEF EntryHolds
  <2> QED
    BY <1>1, <1>2, <1>3, <1>5, <1>6, <1>7, <2>1, <2>2, <2>3, TableKept
<1>9. CASE hashTable' = Unhashed(f)
  BY <1>1, <1>2, <1>3, <1>4, <1>5, <1>6, <1>7, <1>9, TableKept
<1> QED
  BY <1>8, <1>9

LEMMA UnPinPageSound ==
    ASSUME SInv, NEW k \in PageKey, NEW dirty \in BOOLEAN, UnPinPage(k, dirty)
    PROVE  SInv' /\ NotExceeded
<1> DEFINE f == hashTable[k]
<1>1. UNCHANGED <<bufPool, hashTable, clockHand, disk>>
  BY DEF UnPinPage
<1>2. outcome' \in Outcome /\ NotExceeded
  BY DEF UnPinPage, Ended, Outcome, Call, Result, NotExceeded
<1>3. bufDescTable \in [Frames -> BufDesc]
  BY DEF SInv, TypeOK
<1>4. bufDescTable' \in [Frames -> BufDesc] /\ \A g \in Frames : Kept(g)
  <2>1. CASE f = NoFrame
    BY <1>3, <2>1 DEF UnPinPage, Kept, SInv, TypeOK
  <2>2. CASE f # NoFrame
    <3>1. f \in Frames /\ InUse(f)
      BY <2>2 DEF SInv, TypeOK, HashSound
    <3>2. bufDescTable' = [bufDescTable EXCEPT ![f].dirty = @ \/ dirty,
                                               ![f].pinCnt = IF @ = 0 THEN 0 ELSE @ - 1]
      BY <2>2 DEF UnPinPage
    <3>3. (IF bufDescTable[f].pinCnt = 0 THEN 0 ELSE bufDescTable[f].pinCnt - 1) \in Nat
      BY <1>3, <3>1 DEF BufDesc
    <3>4. (bufDescTable[f].dirty \/ dirty) \in BOOLEAN
      OBVIOUS
    <3>5. bufDescTable' \in [Frames -> BufDesc]
      BY <1>3, <3>1, <3>2, <3>3, <3>4 DEF BufDesc
    <3>6. ASSUME NEW g \in Frames PROVE Kept(g)
      <4>1. /\ bufDescTable'[g].page = bufDescTable[g].page
            /\ bufDescTable'[g].valid = bufDescTable[g].valid
            /\ ~InUse(g) => bufDescTable'[g] = bufDescTable[g]
        BY <1>3, <3>1, <3>2 DEF BufDesc
      <4> QED
        BY <4>1 DEF Kept, SInv, TypeOK
    <3> QED
      BY <3>5, <3>6
  <2> QED
    BY <2>1, <2>2
<1>5. \A j \in PageKey : EntryHolds(j)
  BY <1>1, <1>4 DEF EntryHolds, SInv, TypeOK
<1>6. SInv'
  BY <1>1, <1>2, <1>4, <1>5, TableKept DEF SInv, TypeOK
<1> QED
  BY <1>2, <1>6

LEMMA ClientWriteSound ==
    ASSUME SInv, NEW k \in PageKey, NEW d \in Data, ClientWrite(k, d)
    PROVE  SInv' /\ NotExceeded
<1>1. /\ bufPool' = [bufPool EXCEPT ![hashTable[k]] = d]
      /\ UNCHANGED <<bufDescTable, hashTable, clockHand, disk>>
  BY DEF ClientWrite
<1>2. outcome' \in Outcome /\ NotExceeded
  BY DEF ClientWrite, Ended, Outcome, Call, Result, NotExceeded
<1>3. bufPool' \in [Frames -> Data]
  BY <1>1 DEF SInv, TypeOK
<1> QED
  BY <1>1, <1>2, <1>3 DEF SInv, TypeOK, HashSound, InUse

LEMMA DisposePageSound ==
    ASSUME SInv, NEW k \in PageKey, DisposePage(k)
    PROVE  SInv' /\ NotExceeded
<1> DEFINE f == hashTable[k]
<1>1. UNCHANGED <<bufPool, clockHand>>
  BY DEF DisposePage
<1>2. outcome' \in Outcome /\ NotExceeded
  BY DEF DisposePage, Ended, Outcome, Call, Result, NotExceeded
<1>3. CASE f = NoFrame
  BY <1>1, <1>2, <1>3 DEF DisposePage, SInv, TypeOK, HashSound, InUse
<1>4. CASE f # NoFrame
  <2>1. f \in Frames /\ bufDescTable[f].page = k
    BY <1>4 DEF SInv, TypeOK, HashSound
  <2>2. /\ bufDescTable' = [bufDescTable EXCEPT ![f] = Clear]
        /\ hashTable' = [hashTable EXCEPT ![k] = NoFrame]
        /\ disk' = [disk EXCEPT ![DiskPage(k)] = Free]
    BY <1>4 DEF DisposePage
  <2>3. bufDescTable' \in [Frames -> BufDesc] /\ bufDescTable'[f] = Clear
    BY <2>1, <2>2, DescriptorTypes DEF SInv, TypeOK
  <2>4. \A g \in Frames : g # f => Kept(g)
    BY <2>2 DEF Kept, SInv, TypeOK
  <2>5. \A g \in Frames : Kept(g) \/ Given(g)
    BY <2>3, <2>4 DEF Given
  <2>6. /\ hashTable' \in [PageKey -> Frames \cup {NoFrame}]
        /\ disk' \in [DiskKey -> Data \cup {Free}]
    BY <2>2 DEF SInv, TypeOK
  <2>7. ASSUME NEW j \in PageKey PROVE EntryHolds(j)
    <3>1. CASE j = k
      BY <2>2, <3>1 DEF EntryHolds, SInv, TypeOK
    <3>2. CASE hashTable[j] = NoFrame
      BY <2>2, <3>2 DEF EntryHolds, SInv, TypeOK
    <3>3. CASE j # k /\ hashTable[j] # NoFrame
      <4>1. hashTable'[j] = hashTable[j]
        BY <2>2, <3>3 DEF SInv, TypeOK
      <4>2. hashTable[j] \in Frames /\ hashTable[j] # f
        BY <2>1, <3>3 DEF SInv, TypeOK, HashSound
      <4> QED
        BY <2>4, <4>1, <4>2 DEF EntryHolds
    <3> QED
      BY <3>1, <3>2, <3>3
  <2>8. SInv'
    BY <1>1, <1>2, <2>3, <2>5, <2>6, <2>7, TableKept DEF SInv, TypeOK
  <2> QED
    BY <1>2, <2>8
<1> QED
  BY <1>3, <1>4

LEMMA FlushFileSound ==
    ASSUME SInv, NEW h \in File, FlushFile(h)
    PROVE  SInv' /\ NotExceeded
<1> DEFINE Stuck == {f \in Owned(h) : FlushError(f) # "ok"}
           Flushed == {f \in Owned(h) : \A g \in Stuck : f < g}
           First == {f \in Stuck : \A g \in Stuck : f <= g}
           Half == {f \in First : FlushError(f) = "HashNotFound"}
<1>0. Flushed \in SUBSET Frames /\ Half \in SUBSET Frames
  BY DEF Owned
<1>1. /\ disk' = WrittenBack(Flushed \cup Half)
      /\ bufDescTable' =
            [f \in Frames |->
                IF f \in Flushed THEN Clear
                ELSE IF f \in Half THEN [bufDescTable[f] EXCEPT !.dirty = FALSE]
                ELSE bufDescTable[f]]
      /\ hashTable' =
            [k \in PageKey |->
                IF \E f \in Flushed : bufDescTable[f].page = k THEN NoFrame ELSE hashTable[k]]
      /\ UNCHANGED <<bufPool, clockHand>>
  BY DEF FlushFile
<1>2. outcome' \in Outcome /\ NotExceeded
  <2>1. \E res \in Result \ {"BufferExceeded"} : Ended("flushFile", res)
    <3>1. \A f \in Frames : FlushError(f) \in Result \ {"BufferExceeded"}
      BY DEF FlushError, Result
    <3>2. First \subseteq Frames
      BY DEF Owned
    <3>3. \/ Ended("flushFile", "ok")
          \/ \E f \in First : Ended("flushFile", FlushError(f))
      BY DEF FlushFile
    <3> QED
      BY <3>1, <3>2, <3>3 DEF Result
  <2> QED
    BY <2>1 DEF Ended, Outcome, Call, NotExceeded
<1> HIDE DEF Stuck, Flushed, First, Half
<1>3. disk' \in [DiskKey -> Data \cup {Free}]
  BY <1>0, <1>1, WrittenBackType DEF SInv
<1>4. hashTable' \in [PageKey -> Frames \cup {NoFrame}]
  BY <1>1 DEF SInv, TypeOK
<1>5. ASSUME NEW f \in Frames
      PROVE  /\ bufDescTable'[f] \in BufDesc
             /\ IF f \in Flushed THEN bufDescTable'[f] = Clear ELSE Kept(f)
  <2>0. bufDescTable[f] \in BufDesc /\ (~InUse(f) => bufDescTable[f] = Clear)
    BY DEF SInv, TypeOK
  <2>1. CASE f \in Flushed
    BY <1>1, <2>1, DescriptorTypes
  <2>2. CASE f \notin Flushed /\ f \in Half
    <3>1. bufDescTable'[f] = [bufDescTable[f] EXCEPT !.dirty = FALSE]
      BY <1>1, <2>2
    <3>2. /\ bufDescTable'[f] \in BufDesc
          /\ bufDescTable'[f].page = bufDescTable[f].page
          /\ bufDescTable'[f].valid = bufDescTable[f].valid
      BY <2>0, <3>1 DEF BufDesc
    <3>3. ~InUse(f) => bufDescTable'[f] = Clear
      <4>1. Clear.dirty = FALSE
        BY DEF Clear
      <4> QED
        BY <2>0, <3>1, <4>1 DEF BufDesc
    <3> QED
      BY <2>2, <3>2, <3>3 DEF Kept
  <2>3. CASE f \notin Flushed /\ f \notin Half
    BY <1>1, <2>0, <2>3 DEF Kept
  <2> QED
    BY <2>1, <2>2, <2>3
<1>6. bufDescTable' \in [Frames -> BufDesc]
  <2>1. bufDescTable' = [f \in Frames |-> bufDescTable'[f]]
    BY <1>1
  <2> QED
    BY <1>5, <2>1
<1>7. \A f \in Frames : Kept(f) \/ Given(f)
  BY <1>5 DEF Given
<1>8. ASSUME NEW k \in PageKey PROVE EntryHolds(k)
  <2>1. CASE \E f \in Flushed : bufDescTable[f].page = k
    BY <1>1, <2>1 DEF EntryHolds
  <2>2. CASE ~\E f \in Flushed : bufDescTable[f].page = k
    <3>1. hashTable'[k] = hashTable[k]
      BY <1>1, <2>2
    <3>2. hashTable[k] # NoFrame => hashTable[k] \in Frames /\ hashTable[k] \notin Flushed
      BY <2>2 DEF SInv, TypeOK, HashSound
    <3> QED
      BY <1>5, <3>1, <3>2 DEF EntryHolds
  <2> QED
    BY <2>1, <2>2
<1>9. SInv'
  BY <1>1, <1>2, <1>3, <1>4, <1>6, <1>7, <1>8, TableKept DEF SInv, TypeOK
<1> QED
  BY <1>2, <1>9

LEMMA FreshSound ==
    ASSUME bufDescTable' = [f \in Frames |-> Clear],
           bufPool' = [f \in Frames |-> Empty],
           hashTable' = [k \in PageKey |-> NoFrame],
           clockHand' = NumBufs - 1,
           disk' \in [DiskKey -> Data \cup {Free}],
           outcome' \in Outcome
    PROVE  SInv'
<1>1. clockHand' \in Frames
  BY NumBufsAssumption DEF Frames
<1>2. \A f \in Frames : bufDescTable'[f] = Clear /\ ~InUse(f)'
  BY DEF Clear, InUse
<1>3. TypeOK'
  BY <1>1, <1>2, DescriptorTypes, DataAssumption DEF TypeOK
<1>4. HashSound'
  BY DEF HashSound
<1> QED
  BY <1>3, <1>4 DEF SInv

LEMMA RestartSound ==
    ASSUME SInv, Restart
    PROVE  SInv' /\ NotExceeded
<1> DEFINE Used == {f \in Frames : bufDescTable[f].valid}
           Written == {f \in Used : \A g \in Used : Unwritable(g) => f < g}
<1>1. Written \in SUBSET Frames
  OBVIOUS
<1>2. disk' = WrittenBack(Written)
  BY DEF Restart
<1>3. outcome' \in Outcome /\ NotExceeded
  BY DEF Restart, Ended, Outcome, Call, Result, NotExceeded
<1>4. disk' \in [DiskKey -> Data \cup {Free}]
  <2> HIDE DEF Written
  <2> QED
    BY <1>1, <1>2, WrittenBackType DEF SInv
<1>5. SInv'
  BY <1>3, <1>4, FreshSound DEF Restart
<1> QED
  BY <1>3, <1>5

-----------------------------------------------------------------------------
(* The invariant. *)

AnyInv == SInv /\ ExceededOnlyWhenAllPinned

LEMMA InitSound == Init => AnyInv
<1> SUFFICES ASSUME Init PROVE AnyInv
  OBVIOUS
<1>1. \A f \in Frames : bufDescTable[f] = Clear /\ ~InUse(f)
  BY DEF Init, InUse, Clear
<1>2. TypeOK
  BY <1>1, DescriptorTypes, DataAssumption, NumBufsAssumption
     DEF Init, TypeOK, Frames, Outcome, Call, Result
<1> QED
  BY <1>2 DEF Init, AnyInv, SInv, HashSound, ExceededOnlyWhenAllPinned

LEMMA StepSound ==
    ASSUME AnyInv, [Next]_vars
    PROVE  AnyInv'
<1>0. SInv
  BY DEF AnyInv
<1>1. CASE UNCHANGED vars
  BY <1>1 DEF vars, AnyInv, SInv, TypeOK, HashSound, InUse, ExceededOnlyWhenAllPinned
<1>2. SInv' /\ NotExceeded => AnyInv'
  BY DEF AnyInv, NotExceeded, ExceededOnlyWhenAllPinned
<1>3. ASSUME NEW k \in PageKey, ReadPage(k) PROVE AnyInv'
  <2>1. CASE ReadHit(k)
    BY <1>0, <1>2, <2>1, ReadHitSound
  <2>2. ASSUME NEW n \in Scans, ReadMiss(k, n) PROVE AnyInv'
    BY <1>0, <1>2, <2>2, ReadMissSound
  <2>3. CASE AllocBufThrows
    BY <1>0, <2>3, AllocBufThrowsSound DEF AnyInv
  <2> QED
    BY <1>3, <2>1, <2>2, <2>3 DEF ReadPage
<1>4. ASSUME NEW k \in PageKey, AllocPage(k) PROVE AnyInv'
  <2>1. CASE AllocBufThrows
    BY <1>0, <2>1, AllocBufThrowsSound DEF AnyInv
  <2>2. CASE ~AllocBufThrows
    BY <1>0, <1>2, <1>4, <2>2, AllocPageSound DEF AllocPage
  <2> QED
    BY <2>1, <2>2
<1>5. ASSUME NEW k \in PageKey, DisposePage(k) PROVE AnyInv'
  BY <1>0, <1>2, <1>5, DisposePageSound
<1>6. ASSUME NEW k \in PageKey, NEW dirty \in BOOLEAN, UnPinPage(k, dirty) PROVE AnyInv'
  BY <1>0, <1>2, <1>6, UnPinPageSound
<1>7. ASSUME NEW k \in PageKey, NEW d \in Data, ClientWrite(k, d) PROVE AnyInv'
  BY <1>0, <1>2, <1>7, ClientWriteSound
<1>8. ASSUME NEW h \in File, FlushFile(h) PROVE AnyInv'
  BY <1>0, <1>2, <1>8, FlushFileSound
<1>9. CASE Restart
  BY <1>0, <1>2, <1>9, RestartSound
<1> QED
  BY <1>1, <1>3, <1>4, <1>5, <1>6, <1>7, <1>8, <1>9 DEF Next

(* The two parts are inductive together, whatever files the callers open.  *)
THEOREM AnyFilesInvariance == Spec => []AnyInv
<1>1. Init => AnyInv
  BY InitSound
<1>2. AnyInv /\ [Next]_vars => AnyInv'
  BY StepSound
<1> QED
  BY <1>1, <1>2, PTL DEF Spec

(* The descriptors, the pool, the table, the hand and the disk keep their  *)
(* types, and a frame that holds no page is blank.                         *)
THEOREM TypeCorrect == Spec => []TypeOK
<1>1. AnyInv => TypeOK
  BY DEF AnyInv, SInv
<1> QED
  BY <1>1, AnyFilesInvariance, PTL

(* A lookup never leads to the frame of another page, nor to one that was  *)
(* given away, not even after a call that ended with an exception.         *)
THEOREM LookupsSound == Spec => []HashSound
<1>1. AnyInv => HashSound
  BY DEF AnyInv, SInv
<1> QED
  BY <1>1, AnyFilesInvariance, PTL

(* The clock gives up only when every frame is pinned. *)
THEOREM ExceededMeansPinned == Spec => []ExceededOnlyWhenAllPinned
<1>1. AnyInv => ExceededOnlyWhenAllPinned
  BY DEF AnyInv
<1> QED
  BY <1>1, AnyFilesInvariance, PTL

-----------------------------------------------------------------------------
(* What a step may do.  allocBuf is the only way a frame changes hands, so *)
(* what it chooses decides.                                                *)

PinnedStays ==
    \A f \in Frames :
        bufDescTable[f].pinCnt > 0 =>
            \/ bufDescTable'[f].page = bufDescTable[f].page
            \/ outcome'.op \in {"disposePage", "BufMgr", "~BufMgr"}

GivesSecondChance ==
    \A f \in Frames :
        /\ outcome'.op \in {"readPage", "allocPage"}
        /\ InUse(f)
        /\ bufDescTable[f].refbit
        /\ bufDescTable'[f].page # bufDescTable[f].page
        => \A g \in Frames :
              InUse(g) /\ (bufDescTable[g].pinCnt = 0 => bufDescTable[g].refbit)

PagesKept == \A f \in Frames : bufDescTable'[f].page = bufDescTable[f].page

(* The first round visits every frame. *)
LEMMA FirstRound ==
    ASSUME TypeOK, NEW f \in Frames
    PROVE  \E i \in 1 .. NumBufs : ScanFrame(i) = f
<1>0. NumBufs \in Nat \ {0} /\ clockHand \in 0 .. NumBufs - 1 /\ f \in 0 .. NumBufs - 1
  BY NumBufsAssumption DEF TypeOK, Frames
<1>1. CASE f > clockHand
  <2>1. f - clockHand \in 1 .. NumBufs
    BY <1>0, <1>1
  <2>2. clockHand + (f - clockHand) = f /\ f % NumBufs = f
    BY <1>0
  <2> QED
    BY <2>1, <2>2 DEF ScanFrame
<1>2. CASE f <= clockHand
  <2>1. NumBufs + f - clockHand \in 1 .. NumBufs
    BY <1>0, <1>2
  <2>2. clockHand + (NumBufs + f - clockHand) = NumBufs + f
    BY <1>0
  <2>3. (NumBufs + f) % NumBufs = f
    BY <1>0
  <2> QED
    BY <2>1, <2>2, <2>3 DEF ScanFrame
<1> QED
  BY <1>0, <1>1, <1>2

(* Only the frame allocBuf chose changes its page, and that one is not     *)
(* pinned; if it was used lately, a whole round found nothing better.      *)
LEMMA TakenFrame ==
    ASSUME TypeOK, NEW n \in Scans, Chosen(n), NEW d,
           bufDescTable' = [Swept(n) EXCEPT ![ScanFrame(n)] = d]
    PROVE  PinnedStays /\ GivesSecondChance
<1> DEFINE v == ScanFrame(n)
<1>0. n \in Nat /\ n <= 2 * NumBufs /\ n >= 1 /\ v \in Frames
  BY NumBufsAssumption, ChosenFrame DEF Scans
<1>1. ASSUME NEW f \in Frames, f # v
      PROVE  bufDescTable'[f].page = bufDescTable[f].page
  <2>1. bufDescTable'[f] = Swept(n)[f]
    BY <1>0, <1>1, SweptFields
  <2> QED
    BY <1>0, <2>1, SweptFields
<1>2. bufDescTable[v] \in BufDesc /\ bufDescTable[v].pinCnt = 0
  BY <1>0, ChosenFrame DEF TypeOK, InUse, Clear
<1>3. PinnedStays
  BY <1>1, <1>2 DEF PinnedStays
<1>4. ASSUME InUse(v), bufDescTable[v].refbit, NEW g \in Frames
      PROVE  InUse(g) /\ (bufDescTable[g].pinCnt = 0 => bufDescTable[g].refbit)
  <2>1. n > NumBufs
    BY <1>4 DEF Chosen, Takes, InUse
  <2>2. PICK i \in 1 .. NumBufs : ScanFrame(i) = g
    BY FirstRound
  <2>3. ~Takes(i)
    BY <1>0, <2>1, <2>2, NumBufsAssumption DEF Chosen
  <2> QED
    BY <2>2, <2>3 DEF Takes, InUse
<1>5. GivesSecondChance
  BY <1>1, <1>4 DEF GivesSecondChance
<1> QED
  BY <1>3, <1>5

LEMMA KeptPages ==
    ASSUME PagesKept
    PROVE  PinnedStays /\ GivesSecondChance
  BY DEF PagesKept, PinnedStays, GivesSecondChance

LEMMA SweepKeepsPages ==
    ASSUME TypeOK, AllocBufThrows
    PROVE  PagesKept
<1>1. PICK n \in Scans : bufDescTable' = Swept(n)
  <2>1. 2 * NumBufs \in Scans
    BY NumBufsAssumption DEF Scans
  <2> QED
    BY <2>1 DEF AllocBufThrows
<1>2. n \in Nat
  BY NumBufsAssumption DEF Scans
<1> QED
  BY <1>1, <1>2, SweptFields DEF PagesKept

LEMMA StepOfPages ==
    ASSUME SInv, Next
    PROVE  PinnedStays /\ GivesSecondChance
<1>0. TypeOK /\ bufDescTable \in [Frames -> BufDesc]
  BY DEF SInv, TypeOK
<1>1. CASE AllocBufThrows
  BY <1>0, <1>1, SweepKeepsPages, KeptPages
<1>2. ASSUME NEW k \in PageKey, ReadPage(k) PROVE PinnedStays /\ GivesSecondChance
  <2>1. CASE ReadHit(k)
    <3>1. PagesKept
      BY <1>0, <2>1 DEF ReadHit, PagesKept, BufDesc
    <3> QED
      BY <3>1, KeptPages
  <2>2. ASSUME NEW n \in Scans, ReadMiss(k, n) PROVE PinnedStays /\ GivesSecondChance
    <3>1. Chosen(n) /\ \E d : bufDescTable' = [Swept(n) EXCEPT ![ScanFrame(n)] = d]
      BY <2>2 DEF ReadMiss, AllocBuf
    <3> QED
      BY <1>0, <3>1, TakenFrame
  <2> QED
    BY <1>1, <1>2, <2>1, <2>2 DEF ReadPage
<1>3. ASSUME NEW k \in PageKey, AllocPage(k) PROVE PinnedStays /\ GivesSecondChance
  <2>1. ASSUME NEW n \in Scans, Chosen(n),
               bufDescTable' = [Swept(n) EXCEPT ![ScanFrame(n)] = Set(k)]
        PROVE  PinnedStays /\ GivesSecondChance
    BY <1>0, <2>1, TakenFrame
  <2> QED
    BY <1>1, <1>3, <2>1 DEF AllocPage, AllocBuf
<1>4. ASSUME NEW k \in PageKey, DisposePage(k) PROVE PinnedStays /\ GivesSecondChance
  BY <1>4 DEF DisposePage, Ended, PinnedStays, GivesSecondChance
<1>5. ASSUME NEW k \in PageKey, NEW dirty \in BOOLEAN, UnPinPage(k, dirty)
      PROVE  PinnedStays /\ GivesSecondChance
  <2>1. PagesKept
    BY <1>0, <1>5 DEF UnPinPage, PagesKept, BufDesc
  <2> QED
    BY <2>1, KeptPages
<1>6. ASSUME NEW k \in PageKey, NEW d \in Data, ClientWrite(k, d)
      PROVE  PinnedStays /\ GivesSecondChance
  BY <1>6 DEF ClientWrite, PinnedStays, GivesSecondChance
<1>7. ASSUME NEW h \in File, FlushFile(h) PROVE PinnedStays /\ GivesSecondChance
  <2>1. outcome'.op = "flushFile"
    BY <1>7 DEF FlushFile, Ended
  <2>2. ASSUME NEW f \in Frames, bufDescTable[f].pinCnt > 0
        PROVE  bufDescTable'[f].page = bufDescTable[f].page
    <3>1. FlushError(f) # "ok"
      BY <2>2 DEF FlushError
    <3>2. f \in Owned(h) => ~(f < f)
      BY NumBufsAssumption DEF Frames
    <3>3. bufDescTable'[f] = bufDescTable[f]
          \/ bufDescTable'[f] = [bufDescTable[f] EXCEPT !.dirty = FALSE]
      BY <1>7, <3>1, <3>2 DEF FlushFile
    <3> QED
      BY <1>0, <3>3 DEF BufDesc
  <2> QED
    BY <2>1, <2>2 DEF PinnedStays, GivesSecondChance
<1>8. CASE Restart
  BY <1>8 DEF Restart, Ended, PinnedStays, GivesSecondChance
<1> QED
  BY <1>2, <1>3, <1>4, <1>5, <1>6, <1>7, <1>8 DEF Next

(* A pinned frame keeps its page until the page is disposed of or the      *)
(* manager goes.                                                           *)
THEOREM PinnedFramesStay == Spec => PinnedStay
<1>1. AnyInv /\ [Next]_vars => [PinnedStays]_vars
  BY StepOfPages DEF AnyInv
<1>2. [][PinnedStays]_vars => PinnedStay
  BY PTL DEF PinnedStay, PinnedStays
<1> QED
  BY <1>1, <1>2, AnyFilesInvariance, PTL DEF Spec

(* The clock gives every page that was used a second chance. *)
THEOREM ChanceGiven == Spec => SecondChance
<1>1. AnyInv /\ [Next]_vars => [GivesSecondChance]_vars
  BY StepOfPages DEF AnyInv
<1>2. [][GivesSecondChance]_vars => SecondChance
  BY PTL DEF SecondChance, GivesSecondChance
<1> QED
  BY <1>1, <1>2, AnyFilesInvariance, PTL DEF Spec
=============================================================================

------------------------------- MODULE BufMgr -------------------------------
(***************************************************************************)
(* The buffer manager of p3/src/buffer.cpp with the hash table of          *)
(* p3/src/bufHashTbl.cpp: a pool of NumBufs frames, the descriptors of the *)
(* frames, the table from (file, page) to frame and the clock hand.  One   *)
(* action is one call of a public method (the class is not thread safe and *)
(* a call runs to its end), with the exception it throws as its outcome.   *)
(*                                                                         *)
(* The files are modelled from how the manager uses them: which pages are  *)
(* in use and what they hold on disk.  The table is keyed, as in the code, *)
(* by the File OBJECT; FileOf names the file that object has open.         *)
(*                                                                         *)
(* Left out: bufStats (counters that nothing reads back) and the chains of *)
(* the hash table, whose entries are a function from key to frame.         *)
(***************************************************************************)
EXTENDS Integers, FiniteSets

CONSTANTS
    File,          \* File objects (the pointers passed to every method)
    FileOf,        \* FileOf[h]: the file in the file system object h has open
    PageNo,        \* bound: the page numbers a file can use
    Data,          \* bound: what a page can hold
    Empty,         \* what a new page holds (Page::initialize)
    Free,          \* on disk: not in use, never allocated or deleted
    NoPage,        \* descriptor of no page: file NULL, pageNo INVALID_NUMBER
    NoFrame,       \* no entry in the hash table
    NumBufs,       \* frames in the pool
    MaxPin         \* bound: pins one page may have at once

ASSUME NumBufsAssumption == NumBufs \in Nat \ {0}
ASSUME DataAssumption == Empty \in Data /\ Free \notin Data
ASSUME FileAssumption ==
    /\ NoPage \notin File \X PageNo
    /\ NoFrame \notin Nat
    /\ MaxPin \in Nat

VARIABLES
    bufDescTable,  \* BufDesc of every frame
    bufPool,       \* the page a frame holds
    hashTable,     \* hashTable[k]: the frame of page k, or NoFrame
    clockHand,
    disk,          \* what the files hold
    outcome        \* which function ended the last call, and how

vars == <<bufDescTable, bufPool, hashTable, clockHand, disk, outcome>>

Frames == 0 .. NumBufs - 1
PageKey == File \X PageNo
DiskPage(k) == <<FileOf[k[1]], k[2]>>
DiskKey == {DiskPage(k) : k \in PageKey}

BufDesc ==
    [page : PageKey \cup {NoPage}, pinCnt : Nat,
     dirty : BOOLEAN, valid : BOOLEAN, refbit : BOOLEAN]

Clear ==
    [page |-> NoPage, pinCnt |-> 0, dirty |-> FALSE, valid |-> FALSE, refbit |-> FALSE]

Set(k) ==
    [page |-> k, pinCnt |-> 1, dirty |-> FALSE, valid |-> TRUE, refbit |-> TRUE]

Call == {"BufMgr", "~BufMgr", "allocBuf", "readPage", "unPinPage", "allocPage",
         "flushFile", "disposePage", "write"}
Result == {"ok", "HashNotFound", "HashAlreadyPresent", "PageNotPinned", "PagePinned",
           "BadBuffer", "BufferExceeded", "InvalidPage"}
Outcome == [op : Call, res : Result]

Ended(op, res) == outcome' = [op |-> op, res |-> res]

Init ==
    /\ bufDescTable = [f \in Frames |-> Clear]
    /\ bufPool = [f \in Frames |-> Empty]
    /\ hashTable = [k \in PageKey |-> NoFrame]
    /\ clockHand = NumBufs - 1
    /\ disk = [x \in DiskKey |-> Free]
    /\ outcome = [op |-> "BufMgr", res |-> "ok"]

-----------------------------------------------------------------------------
(* allocBuf: the clock.  The hand visits frames ScanFrame(1), ScanFrame(2) *)
(* and so on, at most twice round; a frame it passes loses its refbit.     *)

ScanFrame(i) == (clockHand + i) % NumBufs

(* Mutant: one round of the clock only. *)
OneRound == 1 .. NumBufs

Scans == 1 .. 2 * NumBufs

(* Mutant: the pin count is not looked at. *)
TakesPinned(i) ==
    LET d == bufDescTable[ScanFrame(i)] IN ~d.valid \/ i > NumBufs \/ ~d.refbit

(* Mutant: the reference bit is not looked at. *)
TakesReferenced(i) ==
    LET d == bufDescTable[ScanFrame(i)] IN ~d.valid \/ d.pinCnt = 0

(* Scan i stops at a frame that is unused, or unpinned with its refbit     *)
(* clear; on the second round every refbit has been cleared.               *)
Takes(i) ==
    LET d == bufDescTable[ScanFrame(i)] IN
    \/ ~d.valid
    \/ d.pinCnt = 0 /\ (i > NumBufs \/ ~d.refbit)

Chosen(n) == Takes(n) /\ \A i \in 1 .. n - 1 : ~Takes(i)

Swept(n) ==
    [f \in Frames |->
        IF \E i \in 1 .. n : ScanFrame(i) = f
        THEN [bufDescTable[f] EXCEPT !.refbit = FALSE]
        ELSE bufDescTable[f]]

(* Mutant: the victim keeps its entry. *)
StillHashed(f) == hashTable

Unhashed(f) ==
    IF bufDescTable[f].valid
    THEN [hashTable EXCEPT ![bufDescTable[f].page] = NoFrame]
    ELSE hashTable

(* File::writePage refuses a page that is no longer in use. *)
Unwritable(f) ==
    bufDescTable[f].dirty /\ disk[DiskPage(bufDescTable[f].page)] = Free

DirtyFor(f, x) == bufDescTable[f].dirty /\ DiskPage(bufDescTable[f].page) = x

(* Mutant: nothing is written back. *)
NothingWritten(F) == disk

(* The disk after the dirty frames of F are written, in the order of the   *)
(* frames: of two that hold the same page of a file the later one stays.   *)
WrittenBack(F) ==
    [x \in DiskKey |->
        IF \E f \in F : DirtyFor(f, x)
        THEN bufPool[CHOOSE f \in F :
                        DirtyFor(f, x) /\ \A g \in F : DirtyFor(g, x) => g <= f]
        ELSE disk[x]]

NotHashed(f) ==
    bufDescTable[f].valid /\ hashTable[bufDescTable[f].page] = NoFrame

(* allocBuf returns the frame its n-th scan stops at. *)
AllocBuf(n) ==
    /\ Chosen(n)
    /\ ~NotHashed(ScanFrame(n))
    /\ ~Unwritable(ScanFrame(n))
    /\ clockHand' = ScanFrame(n)

(* allocBuf throws: the clock has moved and the refbits are cleared.       *)
AllocBufThrows ==
    \/ /\ \A i \in Scans : ~Takes(i)
       /\ bufDescTable' = Swept(2 * NumBufs)
       /\ clockHand' = ScanFrame(2 * NumBufs)
       /\ Ended("allocBuf", "BufferExceeded")
       /\ UNCHANGED <<bufPool, hashTable, disk>>
    \/ \E n \in Scans :
       /\ Chosen(n)
       /\ bufDescTable' = Swept(n)
       /\ clockHand' = ScanFrame(n)
       /\ \/ /\ NotHashed(ScanFrame(n))
             /\ Ended("allocBuf", "HashNotFound")
             /\ UNCHANGED hashTable
          \/ /\ ~NotHashed(ScanFrame(n))
             /\ Unwritable(ScanFrame(n))
             /\ hashTable' = Unhashed(ScanFrame(n))
             /\ Ended("allocBuf", "InvalidPage")
       /\ UNCHANGED <<bufPool, disk>>

-----------------------------------------------------------------------------
(* The public methods. *)

ReadHit(k) ==
    /\ hashTable[k] # NoFrame
    /\ bufDescTable[hashTable[k]].pinCnt < MaxPin
    /\ bufDescTable' =
          [bufDescTable EXCEPT ![hashTable[k]].refbit = TRUE, ![hashTable[k]].pinCnt = @ + 1]
    /\ Ended("readPage", "ok")
    /\ UNCHANGED <<bufPool, hashTable, clockHand, disk>>

ReadMiss(k, n) ==
    LET f == ScanFrame(n) IN
    /\ hashTable[k] = NoFrame
    /\ AllocBuf(n)
    /\ disk' = WrittenBack({f})
    /\ \/ /\ disk[DiskPage(k)] # Free
          /\ bufPool' = [bufPool EXCEPT ![f] = disk'[DiskPage(k)]]
          /\ bufDescTable' = [Swept(n) EXCEPT ![f] = Set(k)]
          /\ hashTable' = [Unhashed(f) EXCEPT ![k] = f]
          /\ Ended("readPage", "ok")
       \/ /\ disk[DiskPage(k)] = Free
          /\ bufDescTable' = [Swept(n) EXCEPT ![f] = Clear]
          /\ hashTable' = Unhashed(f)
          /\ Ended("readPage", "InvalidPage")
          /\ UNCHANGED bufPool

ReadPage(k) ==
    \/ ReadHit(k)
    \/ \E n \in Scans : ReadMiss(k, n)
    \/ hashTable[k] = NoFrame /\ AllocBufThrows

(* File::allocatePage gives page number k[2], unused so far.  The page is  *)
(* written empty to the file before the caller sees it.                    *)
AllocPage(k) ==
    \/ \E n \in Scans :
       LET f == ScanFrame(n) IN
       /\ AllocBuf(n)
       /\ disk[DiskPage(k)] = Free
       /\ disk' = [WrittenBack({f}) EXCEPT ![DiskPage(k)] = Empty]
       /\ bufPool' = [bufPool EXCEPT ![f] = Empty]
       /\ bufDescTable' = [Swept(n) EXCEPT ![f] = Set(k)]
       /\ IF Unhashed(f)[k] = NoFrame
          THEN /\ hashTable' = [Unhashed(f) EXCEPT ![k] = f]
               /\ Ended("allocPage", "ok")
          ELSE /\ hashTable' = Unhashed(f)
               /\ Ended("allocPage", "HashAlreadyPresent")
    \/ AllocBufThrows

(* A caller that changed the page says so: when the last pin goes, a       *)
(* change nobody has declared yet is declared.                             *)
Declares(k, dirty) ==
    LET d == bufDescTable[hashTable[k]] IN
    dirty \/ d.dirty \/ d.pinCnt # 1 \/ bufPool[hashTable[k]] = disk[DiskPage(k)]

(* Mutant: the pin count is decremented unchecked. *)
UnPinUnchecked(k, dirty) ==
    LET f == hashTable[k] IN
    /\ f # NoFrame
    /\ bufDescTable' = [bufDescTable EXCEPT ![f].dirty = @ \/ dirty, ![f].pinCnt = @ - 1]
    /\ Ended("unPinPage", "ok")
    /\ UNCHANGED <<bufPool, hashTable, clockHand, disk>>

(* Mutant: the last unpin says whether the page is dirty. *)
UnPinForgets(k, dirty) ==
    LET f == hashTable[k] IN
    /\ f # NoFrame
    /\ bufDescTable[f].pinCnt > 0
    /\ Declares(k, dirty)
    /\ bufDescTable' = [bufDescTable EXCEPT ![f].dirty = dirty, ![f].pinCnt = @ - 1]
    /\ Ended("unPinPage", "ok")
    /\ UNCHANGED <<bufPool, hashTable, clockHand, disk>>

(* The dirty bit is set before the pin count is looked at. *)
UnPinPage(k, dirty) ==
    LET f == hashTable[k] IN
    /\ IF f = NoFrame
       THEN UNCHANGED bufDescTable /\ Ended("unPinPage", "HashNotFound")
       ELSE /\ Declares(k, dirty)
            /\ bufDescTable' =
                  [bufDescTable EXCEPT
                      ![f].dirty = @ \/ dirty,
                      ![f].pinCnt = IF @ = 0 THEN 0 ELSE @ - 1]
            /\ IF bufDescTable[f].pinCnt = 0
               THEN Ended("unPinPage", "PageNotPinned")
               ELSE Ended("unPinPage", "ok")
    /\ UNCHANGED <<bufPool, hashTable, clockHand, disk>>

(* A caller changes the page through the pointer it holds. *)
ClientWrite(k, d) ==
    /\ hashTable[k] # NoFrame
    /\ bufDescTable[hashTable[k]].pinCnt > 0
    /\ bufPool' = [bufPool EXCEPT ![hashTable[k]] = d]
    /\ Ended("write", "ok")
    /\ UNCHANGED <<bufDescTable, hashTable, clockHand, disk>>

Owned(h) ==
    {f \in Frames : bufDescTable[f].page # NoPage /\ bufDescTable[f].page[1] = h}

(* The entry of the page is gone, or goes when an earlier frame is flushed. *)
Unhashable(f) ==
    \/ NotHashed(f)
    \/ \E g \in Frames : g < f /\ bufDescTable[g].page = bufDescTable[f].page

FlushError(f) ==
    IF ~bufDescTable[f].valid THEN "BadBuffer"
    ELSE IF bufDescTable[f].pinCnt > 0 THEN "PagePinned"
    ELSE IF Unwritable(f) THEN "InvalidPage"
    ELSE IF Unhashable(f) THEN "HashNotFound"
    ELSE "ok"

(* flushFile walks the frames in order and throws at the first it cannot   *)
(* flush, with the frames before it already written and cleared; a frame   *)
(* that has no entry left is written before the throw.                     *)
FlushFile(h) ==
    LET Stuck == {f \in Owned(h) : FlushError(f) # "ok"}
        Flushed == {f \in Owned(h) : \A g \in Stuck : f < g}
        First == {f \in Stuck : \A g \in Stuck : f <= g}
        Half == {f \in First : FlushError(f) = "HashNotFound"}
    IN
    /\ disk' = WrittenBack(Flushed \cup Half)
    /\ bufDescTable' =
          [f \in Frames |->
              IF f \in Flushed THEN Clear
              ELSE IF f \in Half THEN [bufDescTable[f] EXCEPT !.dirty = FALSE]
              ELSE bufDescTable[f]]
    /\ hashTable' =
          [k \in PageKey |->
              IF \E f \in Flushed : bufDescTable[f].page = k THEN NoFrame ELSE hashTable[k]]
    /\ \/ Stuck = {} /\ Ended("flushFile", "ok")
       \/ \E f \in First : Ended("flushFile", FlushError(f))
    /\ UNCHANGED <<bufPool, clockHand>>

(* Mutant: the entry of the page stays in the hash table. *)
DisposeKeepsEntry(k) ==
    LET f == hashTable[k] IN
    /\ f # NoFrame
    /\ bufDescTable' = [bufDescTable EXCEPT ![f] = Clear]
    /\ disk' = [disk EXCEPT ![DiskPage(k)] = Free]
    /\ Ended("disposePage", "ok")
    /\ UNCHANGED <<bufPool, hashTable, clockHand>>

(* The pin count is not looked at: the pins a page has go with it. *)
DisposePage(k) ==
    LET f == hashTable[k] IN
    /\ IF f = NoFrame
       THEN Ended("disposePage", "HashNotFound") /\ UNCHANGED <<bufDescTable, hashTable, disk>>
       ELSE /\ bufDescTable' = [bufDescTable EXCEPT ![f] = Clear]
            /\ hashTable' = [hashTable EXCEPT ![k] = NoFrame]
            /\ disk' = [disk EXCEPT ![DiskPage(k)] = Free]
            /\ IF disk[DiskPage(k)] = Free
               THEN Ended("disposePage", "InvalidPage")
               ELSE Ended("disposePage", "ok")
    /\ UNCHANGED <<bufPool, clockHand>>

(* ~BufMgr writes every dirty page, pinned or not, and a new manager is    *)
(* opened on the files; callers have declared their changes by then.  A    *)
(* write that throws in the destructor ends the program there, and the new *)
(* manager is that of the next run.                                        *)
Restart ==
    LET Used == {f \in Frames : bufDescTable[f].valid}
        Written == {f \in Used : \A g \in Used : Unwritable(g) => f < g}
    IN
    /\ \A f \in Used :
          bufDescTable[f].dirty \/ bufPool[f] = disk[DiskPage(bufDescTable[f].page)]
    /\ disk' = WrittenBack(Written)
    /\ bufDescTable' = [f \in Frames |-> Clear]
    /\ bufPool' = [f \in Frames |-> Empty]
    /\ hashTable' = [k \in PageKey |-> NoFrame]
    /\ clockHand' = NumBufs - 1
    /\ IF Written = Used THEN Ended("BufMgr", "ok") ELSE Ended("~BufMgr", "InvalidPage")

Next ==
    \/ \E k \in PageKey :
          \/ ReadPage(k)
          \/ AllocPage(k)
          \/ DisposePage(k)
          \/ \E dirty \in BOOLEAN : UnPinPage(k, dirty)
          \/ \E d \in Data : ClientWrite(k, d)
    \/ \E h \in File : FlushFile(h)
    \/ Restart

Spec == Init /\ [][Next]_vars

-----------------------------------------------------------------------------
(* What must hold. *)

InUse(f) == bufDescTable[f].valid

(* Every variable keeps its type; a frame that holds no page is blank. *)
TypeOK ==
    /\ bufDescTable \in [Frames -> BufDesc]
    /\ bufPool \in [Frames -> Data]
    /\ hashTable \in [PageKey -> Frames \cup {NoFrame}]
    /\ clockHand \in Frames
    /\ disk \in [DiskKey -> Data \cup {Free}]
    /\ outcome \in Outcome
    /\ \A f \in Frames :
          IF InUse(f) THEN bufDescTable[f].page # NoPage ELSE bufDescTable[f] = Clear

(* An entry of the hash table leads to the frame that holds the page: the  *)
(* lookups of readPage, unPinPage and disposePage touch no other frame.    *)
HashSound ==
    \A k \in PageKey :
        hashTable[k] # NoFrame =>
            /\ InUse(hashTable[k])
            /\ bufDescTable[hashTable[k]].page = k

(* The hash table and the descriptors say the same thing: a page in the    *)
(* pool is found, in one frame, and a page that is not is not found.       *)
HashAgrees ==
    \A k \in PageKey, f \in Frames :
        hashTable[k] = f <=> InUse(f) /\ bufDescTable[f].page = k

(* A frame that may be given away without a write (allocBuf and flushFile  *)
(* write dirty frames only) holds what the disk holds.                     *)
CleanMatchesDisk ==
    \A f \in Frames :
        InUse(f) /\ ~bufDescTable[f].dirty /\ bufDescTable[f].pinCnt = 0 =>
            bufPool[f] = disk[DiskPage(bufDescTable[f].page)]

(* No call ends with an exception that only a broken pool can cause: the   *)
(* remove of allocBuf and flushFile finds its entry, the insert of         *)
(* readPage and allocPage finds none, and no write-back is refused.        *)
NoInternalError ==
    /\ outcome.res \notin {"HashAlreadyPresent", "BadBuffer"}
    /\ outcome.op \in {"allocBuf", "flushFile", "disposePage", "~BufMgr"} =>
          outcome.res # "InvalidPage"
    /\ outcome.op \in {"allocBuf", "flushFile"} => outcome.res # "HashNotFound"

(* BufferExceededException means what it says: two rounds of the clock     *)
(* give up only when no frame could have been taken.                       *)
ExceededOnlyWhenAllPinned ==
    outcome.res = "BufferExceeded" =>
        \A f \in Frames : InUse(f) /\ bufDescTable[f].pinCnt > 0

(* A page of a file is in one frame at most (buffer.h, readPage: a page    *)
(* that is already in the pool is not read into another frame).            *)
OneFramePerPage ==
    \A f, g \in Frames :
        InUse(f) /\ InUse(g) /\ DiskPage(bufDescTable[f].page) = DiskPage(bufDescTable[g].page)
            => f = g

(* A pinned frame keeps its page, whatever the other callers ask for: only *)
(* disposePage, which does not look at pins, or the end of the manager     *)
(* takes it away.                                                          *)
PinnedStay ==
    [][\A f \in Frames :
          bufDescTable[f].pinCnt > 0 =>
              \/ bufDescTable'[f].page = bufDescTable[f].page
              \/ outcome'.op \in {"disposePage", "BufMgr", "~BufMgr"}]_vars

(* Second chance: a page that was used since the hand last passed it is    *)
(* evicted only when no frame was free and every unpinned one was used     *)
(* since then too.                                                         *)
SecondChance ==
    [][\A f \in Frames :
          /\ outcome'.op \in {"readPage", "allocPage"}
          /\ InUse(f)
          /\ bufDescTable[f].refbit
          /\ bufDescTable'[f].page # bufDescTable[f].page
          => \A g \in Frames :
                InUse(g) /\ (bufDescTable[g].pinCnt = 0 => bufDescTable[g].refbit)]_vars
=============================================================================

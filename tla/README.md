# Verification of BadgerDB (`p3/src`)

TLA+ models of the storage engine in `src/p3/src`: the buffer manager, the
B+ tree index and the file scan on top of it, the page file, the File objects
and the slotted page below it. TLC checks the models on small instances; TLAPS
proves the invariants of the buffer manager, of the page file, of the File
objects, of the file scan, of the slotted page and of the tree (all but what a
search finds), and that the buffer manager and the slotted page implement their
contracts, for every number of frames, files, pages, callers and entries and every
size of pages, records and nodes. `PROJECT.json` ties every
definition to the lines it models, every run to the question it answers, and
every hazard of the code to the properties that watch it.

The models are written from the code. Where the code and its documentation
disagree the model follows the code, and a run shows the disagreement
(section 5).

## 1. The system

BadgerDB is a single-threaded C++ library. A caller owns a buffer manager and
opens files; indexes and file scans work on pages of those files, which they
pin in the pool while they use them.

| component | code | state it keeps | operations | status |
|---|---|---|---|---|
| Buffer manager | `buffer.cpp`, `buffer.h` | a descriptor per frame (page, pins, dirty, valid, refbit), the frames, the clock hand | `readPage`, `unPinPage`, `allocPage`, `flushFile`, `disposePage`, constructor, destructor | `BufMgr` |
| Buffer hash table | `bufHashTbl.cpp` | chains of (file, page, frame) | `insert`, `lookup`, `remove` | a function in `BufMgr`; chains not modelled |
| B+ tree index | `btree.cpp`, `btree.h` | nodes in pages of the index file, root page, two counters, one scan | `insertEntry`, `startScan`, `scanNext`, `endScan`, constructor, destructor | `BTreeIndex` |
| Page file | `file.cpp`, `file_iterator.h` | header; a sorted list of used pages and a stack of free ones, threaded through the pages | `allocatePage`, `readPage`, `writePage`, `deletePage`, iterator | `PageFile` |
| Blob file | `file.cpp` | header | as above; never reuses a page | page numbers only, in `BTreeIndex` |
| File handles | `file.cpp:29-163` | open count and stream per file name | create, open, copy, assign, close, remove | `FileHandles` |
| Slotted page | `page.cpp`, `page_iterator.h` | header, slot array, records | insert, update, delete, get record; iterator | `Page`, contract `PageRecords` |
| File scan | `filescan.cpp` | file iterator, record iterator, one pin | constructor, destructor, `scanNext`, `markDirty` | `FileScan` |
| Exceptions | `exceptions/` | none | | outcomes of the models' actions |
| Earlier buffer manager | `p2/BufMgr-2021/src` | as the buffer manager | as the buffer manager | not modelled |
| eBay loader | `group_project_1_old` | dictionaries of users and items | one pass over JSON files | not modelled |
| Skeleton, tests, generated HTML | `p3_original`, `main.cpp`, `docs` | | | not modelled |

How they interact: `BTreeIndex` and `FileScan` call `BufMgr`; `BufMgr` calls
its hash table and, to fill and empty frames, the virtual `readPage`,
`writePage`, `allocatePage` and `deletePage` of a `File`; a `PageFile`
iterates over itself to keep its used list sorted. The constructor of an index
scans the relation and inserts each record. Nothing runs concurrently and there are no callbacks.
What makes the code hard is elsewhere:

* order of calls: eviction, hits, flushes and disposals edit the same table;
  pages are split, reused and unlinked in any order;
* calls that fail half way: a pool without a free frame throws out of the
  middle of an insertion or a scan, a refused write out of the middle of an
  eviction or of a destructor;
* state that outlives the step that set it: dirty and reference bits, a scan's
  position, the `level` of a node, a page copy older than the page's link;
* limits: a full pool, a full leaf, a full non-leaf node, an emptied file.

`PROJECT.json` lists these hazards at their lines.

What makes each component correct: the *buffer manager* gives a reader what
was last written, keeps pinned pages in place, and refuses a page only when
every frame is pinned. The *index* keeps every entry where a search looks for
it, a scan returns exactly the entries in its range in order, and pins are
balanced. The *page file* keeps its two lists disjoint and complete and
relinks pages without touching their records. The *slotted page* keeps its
records apart and their numbers stable, loses no space, and its iterator
misses no record. *File handles* share one stream per file name until the last
is closed. The *file scan* passes no page that has records, returns no record
twice unless an exception has set it back, holds one pin on its page and none
without one, and writes only what it was told is dirty.

## 2. Modules

```
PageStore                                         PageRecords
    ^ implements (checked, proved)                    ^ implements (checked, proved)
BufMgrStore --> BufMgr <-- BufMgrAnyFiles           Page <-- MCPage
    ^    ^                      ^                     ^--- PageProofs
    |    |                 BufMgrProofs             PageFile <-- MCPageFile
    |    |                      ^                       ^
MCBufMgr BufMgrStoreProofs -----+                   FileHandles  PageFileProofs
                                                        ^             ^
BTreeIndex <-- MCBTree                              FileScan          |
    ^                                                ^    ^           |
BTreeProofs <-- BTreeOrderProofs                     |    |           |
                                              MCFileScan  FileScanProofs
```

An arrow leads from a module to one that it extends; `PageFileProofs` extends `PageFile`.

**`BufMgr`**: one action per public method, as a call runs to its end.
`bufDescTable`, `bufPool`, `hashTable` and `clockHand` are the members of the
class, `disk` is what the files hold, and `outcome` is the function that ended
the last call and the exception it threw. The clock of `allocBuf` is not a
loop but its result: scan `n` stops at frame `ScanFrame(n)` if `Takes(n)` and
no earlier scan did, and the frames passed lose their reference bits
(`Swept`). Each way `allocBuf` throws leaves the hand, the bits and the table
as the code leaves them. `flushFile` is one step that writes and clears the
frames before the first it cannot flush. The table is keyed by the File
*object* as in the code; `FileOf` says which file that object has open, so that
two objects on one file can be examined. External: the caller changes a pinned
page through its pointer (`ClientWrite`) and declares the change by its last
unpin (`Declares`). Without that the pool is entitled to lose it.

**`PageStore`** is the contract a caller relies on, with no frames: content
and pins of every page. **`BufMgrStore`** is the refinement mapping: content is
the frame's if the page is resident and the disk's if not.

**`BTreeIndex`**: `nodes[p]` is the node in page `p`, `pins[p]` the pins the
index holds. The buffer manager is taken at its contract: a page can be pinned
if it is pinned already or fewer than `NumBufs` are (`HasFrame`).
`insertEntry` is cut where it can run out of frames: `InsertEntry` goes down
and puts the entry into the leaf or splits it, `EnterIntoParent` is one turn of
the loop that climbs, `MakeNewRoot` the end of the method. Likewise `StartScan`
goes down and `SeekFirst` is one turn of its loop. `call` holds the local
variables that live across these steps. `findLeaf`
and `findParent` are modelled by the way they walk, with `level` and
`nodeOccupancy` deciding what is a leaf, and with the probe key that
`findParent` reads through the wrong layout when its target is a leaf. The
split of a non-leaf node does what the code does, its overwritten key
included. `Reopen` is the destructor followed by the constructor on the
existing file. The header page, touched at open and close only, is not counted.
`tried`, `stored` and `returned` are history variables that no action reads.

**`PageFile`**: `header` and `pages` are the bytes on disk that matter: use,
link and records. Loops over a `FileIterator` are modelled by the way they go
(`Visited`), which may break at a wanted page, come to the end, throw at a free
page, or go round for ever. A `Page` that a caller read long ago may be written
back at any time with the link it had then; `LinkOnDisk` is why that is harmless.

**`FileHandles`** extends it with the File objects that callers hold:
`open_files` is the pair of static maps `open_counts_` and `open_streams_`,
`handle` the name and stream of each object. Copies and assignments (to the
object itself too) open and close as the code does. Creating or removing the
file `REL` empties the pages of `PageFile`; other files have no pages in
the model.

**`FileScan`** extends that with one scan. It has a File object of its own, so
the pool keeps its frames apart from those of the callers, who read and write
the file directly in the model. `frames` has the frames of the scan that a lookup
may find, clean and unpinned ones too: `readPage` of a page that is there
still returns it as it was when it was read (`Read`, `Content`). A frame without
a pin can be evicted at any time (`Evict`). When its write-back is refused, since another
caller deleted the page, its entry in the hash table is gone and the frame is
not (`hashed` is FALSE); once its page is read again it is one that the table
does not lead to (`lost`), and its next eviction takes the entry of the other frame.
`scanNext` is one action with a disjunct for each way it ends: at the end, with the next record
of the page, unable to unpin its page, with `readPage` throwing on the way, or on
another page. Where `readPage` throws (`ReadThrows`: no frame is free, or the clock stops at
one that cannot be cleared, of the scan or of another caller) the old page is unpinned,
there is no current page, and the next call begins again at the first (`filescan.cpp:46`).
`due` and `marked` are history variables. Others evict frames between two calls of the scan only;
one that goes within a call goes for the page that is read next, and is as well evicted
before the call, or, if it is the page just left, after it.

**`Page`** keeps `data_` cell by cell, since the hazard is that slots and
records share memory: a slot is whatever lies where the slot should be, and a
record's bytes may be taken for one. `getAvailableSlot`, `insertRecordInSlot`
and the compaction of `deleteRecord` are operators, each public method is one
action. `deleteRecord` moves the cells that the code computes (`MovedCells`:
as many as the records to the left have bytes, from the least of their offsets
on), which an empty record in the free space can make the wrong ones. What a
call does that takes record bytes for a slot, or moves slots as if they were
records, is undefined (`undefined`, after which the model stops). **`PageRecords`** is the contract: a map
from number to record, with the space a page has. It allows an insertion that
needs a new slot to fail with `SlotInUse` (section 5) and numbers above all that
are in use to be taken for records. `RecordsSafe` leaves open, besides, what a
deletion or an update does while an empty record lies astray (`Stray`), since
what the code does then keeps no contract (section 5), and nothing else.

The operators marked as mutants in the modules are not part of the models; each is a
plausible bug, and putting it in the place of the definition that follows it makes TLC refute
the property `PROJECT.json` names with it.

## 3. Runs that pass

| run | instance | what it shows |
|---|---|---|
| `bufmgr` | 2 frames, 1 file, 3 pages, 2 pins a page | pool, table and disk agree; no internal exception; a full pool is really full; pinned pages stay; second chance; `BufMgr` implements `PageStore` |
| `bufmgr_alias` | 2 frames, 2 File objects on one file, 2 pages | calls end with internal exceptions here, and even so a lookup never leads to a wrong frame and pinned pages stay |
| `btree_any_order` | 7 keys in every order, leaves of 4, nodes of 2, 5 frames, four scans | no entry lost, pins balanced, scans tell the truth |
| `btree_ascending` | 14 ascending keys: three levels; two scans, 5 frames, under fairness | searches reach every entry, scans complete, five frames suffice with a scan open, every call ends |
| `btree_starved` | 16 keys, 4 frames, with scans and without | an insertion that runs out of frames at any point loses no stored entry, and `findLeaf` takes no node for one of the other kind (`KindsTold`); without a scan open four frames, the report's minimum, are enough (`FourFramesSuffice`) |
| `file_scan` | 3 pages, 2 callers, 2 files, one scan | both lists exact, File objects share their stream, no page goes under an open file; the scan passes no page that has records, goes forward between exceptions, keeps its pins balanced when reads and write-backs fail, and writes only marked pages |
| `page` | 8 cells, slots of 2, records of 0, 1 and 3 | the layout has no gap and no overlap, the iterator misses nothing, `Page` implements `PageRecords` but for `Stray` |

Bounds, and why they are enough.

* *Pool.* Three pages compete for two frames, so that every page can be
  evicted for another while the second is pinned or not, and two rounds of the
  clock differ from one. A second pin tells "unpinned" from "unpinned once". Frames, files and pages
  are unbounded in the proofs.
* *Tree.* The smallest even sizes for which all branches exist: `LeafSize` 4,
  `NonLeafSize` 2. The code's sizes (682 and 1022 by `btree.h`'s formula for
  8 kB pages) are even too. Seven keys in every order split the first leaf and
  both halves and make a root; fourteen ascending ones split non-leaf nodes and the root again.
  The first run stops before a non-leaf node splits and the second splits
  them in the one order for which the code is right. That is deliberate:
  `btree_non_leaf_split` shows what happens otherwise, and after it the tree
  satisfies none of these properties.
* *Frames.* Five are what a scan and an insertion with the caller's page
  need (checked on the larger tree, since the smaller one has no more pages than that), four are what the report asks for without a scan, and with four and a scan open
  every `BufferExceededException` of `insertEntry` and `startScan` occurs.
* *File.* Three pages are a head, a middle and a tail of the used list; any of
  them can be deleted, wait on the free list and be reused under the scan.
  `NeverEmptied` keeps the last used page from being deleted (the violation run
  `pagefile_emptied` drops it), `Recreates` (FALSE) keeps callers from creating
  a file that is open (section 5). `MaxOpen` (2) is how many of the three File objects
  there are at a time: the scan's and a caller's, or those of both callers, who copy and assign them.
  Any File object that is open on the file gives access to all its pages, so that a second caller beside the scan
  would add nothing to what can happen to them; higher counts are left to the proofs. `MaxUnHashed` (1) bounds the frames of the scan that the table
  does not lead to: one is enough for an eviction that fails, for a stale frame beside a new one, and
  for the new one's entry to go with it. A page has no records or
  two, so that a scan can be in the middle of one. `SYMMETRY Alike` swaps the
  two callers, whom nothing tells apart. `VIEW SystemState` leaves `outcome` out of
  the state but for whether the program has ended, and the numbers of streams but for
  which are the same: no action reads the rest of it, no
  invariant does either, and the action properties that do read `outcome'` of
  the step itself.
* *Page.* Eight cells hold up to four slots of two cells, or records of up to
  three: enough for a record that moves on to where a slot will be, for an unused slot
  between used ones, for equal offsets (the empty record) and for a full page.
  One record begins with a zero byte, which reads as an unused slot. In eight
  cells a wrong move always reaches the slot array; `page_empty_record` takes nine,
  where there is room for one that does not.

`CHECK_DEADLOCK FALSE` is set where the program may end: in
`MCBTreeStarved.cfg` and `MCFileScan.cfg` an exception can leave a destructor;
after a page has taken bytes for a slot (`MCPage.cfg`, `MCPageStaleSlot.cfg`,
`MCPageEmptyRecord.cfg`) the model stops.

*Fairness.* `FairSpec` asks weak fairness of the steps inside a call
(`EnterIntoParent`, `MakeNewRoot`, `SeekFirst`) and of nothing else: there is
one thread, nothing blocks, and a call that has begun runs. No caller is assumed to
call anything.

## 4. Proofs

### The buffer manager

For every `NumBufs >= 1` and every set of
File objects, page numbers and contents. The theorems in `BufMgrAnyFiles` need nothing more;
they hold also when several File objects have one file open:

| theorem | property |
|---|---|
| `TypeCorrect` | `TypeOK` |
| `LookupsSound` | `HashSound`: an entry of the table leads to the frame of that page |
| `ExceededMeansPinned` | `ExceededOnlyWhenAllPinned` |
| `PinnedFramesStay` | `PinnedStay` |
| `ChanceGiven` | `SecondChance` |

Those in `BufMgrProofs` and `BufMgrStoreProofs` assume `OwnFiles`, that
different File objects have different files open:

| theorem | property |
|---|---|
| `HashTableAgrees` | `HashAgrees`: table and descriptors say the same |
| `NoUpdateLost` | `CleanMatchesDisk`: a frame given away without a write holds what the disk holds |
| `InternallySound` | `NoInternalError`: no exception that only a broken pool can cause |
| `StoreImplemented` | `ImplementsStore`: `BufMgr` implements `PageStore` |

The assumption is necessary: with two objects on one file a page can be in two
frames, each unaware of what is written to the other, and none of the four holds.

The argument. Without the assumption the inductive invariant is `AnyInv`: the types
(with a frame without a page blank), `HashSound`, and that an exceeded pool is pinned.
What evicts is the clock, and the facts about it are lemmas: two rounds pass every frame
(`SecondRound`), so when no scan takes a frame every frame is pinned; the frame
a scan takes is free or unpinned; a page that was used is taken on the second
round only, after a first round that took nothing (`FirstRound`, `TakenFrame`).
That of several frames with one page the last to be written stays needs the
greatest of a finite set of frames (`LastFrame`).

With the assumption none of the properties is inductive alone. That an update is not lost
needs the table to be exact (or an eviction clears the wrong entry and the
page comes back from disk under a stale frame); that no write-back is refused
needs every resident page to be in use on disk; both need the types. `Invariance` proves their
conjunction, action by action, with the eviction inside `readPage` and
`allocPage` as lemmas of their own.

The refinement rests on that invariant. Seen from the store, a page stays in
its frame, stays out of the pool, or leaves it unpinned and saved
(`SameView`), and each of these leaves its content and pins as they were
(`KeptView`); a call changes at most one page otherwise. An eviction saves its
victim because a dirty frame is written and a clean one matches the disk
(`Saved`). The store is full when `NumBufs` *pages* are pinned and the
pool gives up when every *frame* is: pinned frames and pinned pages
correspond one to one (`FullMeansAllPinned`).

### The page file, the File objects and the scan

For every `MaxPages`, every set of callers, file names and page contents.

| module | theorem | property |
|---|---|---|
| `PageFileProofs` | `FileTyped` | `TypeOK` |
| | `FreeListTrue` | `FreeListExact`, also for a file that has been emptied |
| | `UsedListTrue` | `UsedListExact`, assuming `NeverEmptied` |
| `FileScanProofs` | `HandlesTrue` | `HandlesExact` |
| | `PagesOutlast` | `PagesOutlastOpen`, assuming `~Recreates` |
| | `ListsTrue` | `TypeOK`, `UsedListExact` and `FreeListExact` under callers and a scan |
| | `ScanPinsBalanced` | `PinsBalanced` |
| | `ScanIsComplete` | `ScanComplete` |
| | `ScanGoesForward` | `Forward` |
| | `OnlyWrites` | `OnlyWritesChange` |

Both assumptions are necessary: `pagefile_emptied` shows what happens without the
first, and without the second `file.cpp:79` empties the file (section 5). `FileScan` assumes
`NeverEmptied` throughout (`ScanAssumption`).

*The lists.* `ListsInv` has the types, the free list as an explicit order whose
length the header counts (`FreeCounted`), and, for a file that is never
emptied, the used list in ascending order (`UsedAscending`) and `NeverBlank`:
a file with no used page has no pages. `NeverBlank` is what makes the old link
of a page that becomes first and only harmless; it is what emptying a file breaks. That
the loops over a `FileIterator` end where they should is an induction along
the list, which is out of the provers' reach as a rule with a formula for parameter;
the lemmas take the least counterexample instead (`LeastIndex`, from the
well-foundedness of `<` on the natural numbers). `StopsBefore` and
`FindsBefore` show that `allocatePage` and `deletePage` find the page to
relink, `NotItself` that this is not the deleted page.

*The File objects.* `HandlesExact` is inductive once every open file is known
to exist and the File object of a scan to be open for as long as the scan is there
(`ScanHolds`); the counts are cardinalities, and a stream is new because finitely
many are in use.

*The scan.* `ScanInv` adds to `ListsInv` what every frame of the scan has
(`FramesFine`, `LostFine`: its type, one pin if it is the current page's and none
otherwise, and a marked page if it is dirty), that the scan is on a page it has a frame
of (`ScanFine`), and that the pages still due lie ahead
of the scan's page (`DueAhead`, which strengthens `ScanComplete`). It is
inductive because the used list ascends: the step from the current page
stops at the first page ahead that has records (`StopsAtFirst`), so that it passes none
that is due, and comes to the end only when there is none (`EndsWithout`). What
`readPage`, `unPinPage` and a failed eviction do to the frames is a lemma for each, which says
that they stay fine and that readers of used pages find what they found before
(`SameContent`). `Forward` follows from the same invariant: `GoesOn` gives a page of a higher
number, every way that `readPage` throws is an outcome other than "ok", and no
call of another (`OthersAreNotScanNext`) moves the scan.

### The slotted page

For every `DATA_SIZE`, every `SLOT_SIZE >= 1` and every set of records.
`ByteAssumption` says only that the model can tell a byte from a slot.

| module | theorem | property |
|---|---|---|
| `PageProofs` | `TypeCorrect` | `TypeOK` |
| | `LayoutTrue` | `LayoutExact` |
| | `IteratesOverAll` | `IterationComplete` |
| | `PageImplemented` | `RecordsSafe`: `Page` implements `PageRecords` but for `Stray` |
| | `WholeRecordsKept` | `Records!Spec`, with no exception, if there are no empty records |
| | `WholeOthersStay` | `OthersStay`, if there are no empty records |

*The layout.* `LayoutExact` says of the cells that they are covered and covered
once, but it is not inductive: it does not say that the slot array holds slots
and the rest of the page bytes, without which a moved byte could become a slot. `Sound` adds
that, and states the layout by intervals (`Tiling`): of two records that are
not empty one lies left of the other, and each cell from the upper bound on
is in one of them. An insertion puts a record in front of the others (`TilingWith`); a
deletion shifts those in front of the hole right over it (`TilingWithout`, a
case for each pair of records before, behind and across the hole). Empty
records have offsets that say nothing, so that `Tiling` leaves them out; they
may lie astray and `Sound` holds all the same. What a step does to cells
is stated once (`IsFilled`, `IsClosed`) and used by cell after that.
`IInv` asks for `Sound` while the page is `Running`: an insertion that finds its new
slot in use has counted it already, and the page stops being exact with it.

*The contract.* `Contents` is what the slots in use locate. The bytes of the
records and the cells from the upper bound on correspond one to one
(`BytesCount`), so that `hasSpaceForRecord` and the check in `updateRecord` are
exactly `Fits`; `getAvailableSlot` gives the lowest number that is free
(`SlotIsLowest`); the last slot is the highest number in use
(`SlotsAreHighest`), which needs the compaction of the slot array to be right. When no
record lies astray the cells that move are those left of the hole, all of them and
no other (`AllLeftMove`), and every record finds its own bytes again
(`OthersKept`). `Stray` cannot be left out: `page_empty_record` is the
counterexample. Without empty records it is never true, since what a page
holds are records and these have bytes (`RecordsStored`, `NoneAstray`).

### The tree

In `BTreeProofs` and `BTreeOrderProofs`, for every set of entries and order of insertion (`Before`), all scans, and
every size of nodes and pool that the code's arithmetic allows
(`SizeAssumption`, `PoolAssumption`).

| theorem | property | assuming |
|---|---|---|
| `TypeCorrect` | `TypeOK` | |
| `KindsAreTold` | `KindsTold` | |
| `NoneLost` | `NoEntryLost` | |
| `FourFrames` | `FourFramesSuffice` | `NumBufs >= CallerPins + 3` |
| `FramesSuffice` | `NeverExceeded` | `NumBufs >= CallerPins + 4` |
| `PinsAreBalanced` | `PinsBalanced` | `NumBufs >= CallerPins + 4` |
| `SearchFinds` | `Searchable` | `KeysDiffer`, the same pool, and `[]SplitsRight` |
| `ScansAreComplete` | `ScanComplete` | the same |
| `NoSuchKeyIsTrue` | `NoSuchKeyTrue` | the same |
| `UpwardsSearchFinds` | `Searchable` | `KeysDiffer`, the same pool, and `InsertedUpwards` |
| `UpwardsScansAreComplete` | `ScanComplete` and `NoSuchKeyTrue` | the same |

The last five are in `BTreeOrderProofs`.

The assumptions on the pool are those of the runs: with one page of the caller,
four frames (`MCBTreeStarved.cfg`) and five (`MCBTreeAscending.cfg`). Where they
fail the code does throw `BufferExceededException` and pins do leak, which
`btree_starved` goes through; the first three theorems hold even then, and they hold
after the non-leaf split of section 5 has gone wrong.

*The heights.* None of this is inductive as it stands. That a child is a page of
the right kind follows from the `level` of the page above, which is copied at every split
and is right only if the whole subtree is of one depth; that the loop of `insertEntry`
ends at the root and not above or below it depends on a depth counted on the way
down. `IInv` therefore asks for a function that gives every page its height: leaves at
0, a non-leaf node one above each of its children, `level` 1 exactly above
leaves, no page above the root and none beside it (`Stands`, `OneTop`), and for the call
in progress that the parent it is about to change is one above the page it split
and `currDepth` below the root (`CallOK`). A split gives the new page the height of the old
(`WithHeight`), a new root one more. Then `Way` comes to a leaf after
as many steps as the root is high (`WayIs`, `LeafForIs`), and `findParent`
returns the root, a page one above its target, or comes to a leaf (`ParentIs`). The last is the call
that is `lost` (section 5); it cannot be ruled out.

*Recursion.* `below`, `parent` and `from` in the model are recursive functions, and
what they compute is an induction that the provers have no rule for. They are proved
to exist by building them up height by height (`Unfolds`), and the facts
about them by taking the least height at which one fails (`LeastNumber`).

*The frames.* The pins are bounded below in `IInv`: the root and the scan's page have
theirs, others may have leaked. With frames enough they are exact
(`Exact`, also between the steps of a call), because then no call throws half way;
this in turn is because at most the root, the scan's page, a page and its sibling are
pinned at once (`RoomFor`, `InsertWithFrames`, `EnterWithFrames`, `NewRootWithFrames`). The
two are proved together.

*The chain.* `ChainOK` says that there is a distance from the right end, which falls by
one along `rightSibPageNo`, is different for different leaves and greatest for page 1;
that each leaf has its entries once and no two leaves share one; and that what is
stored is in some leaf, with the entry of an `insertEntry` still on its
way up. A leaf split inserts a distance (`ChainedBehind`); the steps higher up leave
the leaves alone (`SameLeaves`). Walking the chain then meets every leaf once (`ChainIs`).

*The order.* What a search finds is false of the code in general
(`btree_non_leaf_split`, `btree_duplicates`), and the proof says when it is true.
`KeysDiffer` asks for one record per key. `SplitsRight` is a
state predicate: a full non-leaf node that is about to be entered is entered at
or right of the key that will move up. It follows when the entries are inserted in ascending
order (`InsertedUpwards`, which says it by `Before`): no key in a node is above the entry
on its way up, so that the page that was split is the last child of its parent
(`UpwardSplitsRight`). It also holds as long as no full non-leaf node is entered, which
is the case of `btree_any_order`: seven keys do not split a non-leaf node.

`Orderly` is inductive with `IInv` and `ChainOK`. It asks for a function `R` that gives every
page the set of keys that a search brings there: pages of one height share
none, the root has them all, the keys of a leaf are among its own, and those of a
child are what `findIndex` leaves it of its parent's (`Ranged`, `Keeps`). While
`insertEntry` climbs, the two halves of a split have what their parent still
takes for one (`HalfDone`, `Pending`), and the key that goes up parts them. That the key of
the call is sent the same way by `findParent` as by `findLeaf` is part of this; with it no
call is `lost`. The chain runs in the order of the keys (`Lined`). The pool is large enough
because a call that throws half way would leave its halves unjoined.

*The scan over the tree.* From `Orderly` between calls the leaves are sorted along the
chain (`SortedAtRest`; no leaf but a lone one is empty, `Filled`). `Ahead` is what lies
behind the scan's position, in its leaf and to the right. `Halfway` says that what is in
the range was returned or is ahead, that what was returned is ascending, and that all of it
is below all that is ahead; `Started`, that nothing ahead is below the range. `Follows` asks
for `Halfway` while a scan is open in which nothing was inserted. One lemma per step
of the code keeps it: entries below the range are passed (`Seeks`), the next is
taken (`Takes`), one past the high end means that all the rest are (`ComesToEnd`), and the
end of a leaf leads on to the next (`Hops`). `Stocked` relates
`leafOccupancy`, by which `startScan` takes the tree for empty, to what was inserted.

### What is not proved

* `CallsEnd`: liveness under fairness is out of the prover's reach.
* `Searchable`, `ScanComplete` and `NoSuchKeyTrue` of the tree without `SplitsRight` or
  with equal keys: they are false there (section 5). What a scan returns
  while entries are inserted is not stated: the code promises nothing of it.

## 5. Where the code and its documentation disagree

Where a run is named, TLC finds the counterexample in it.

* `btree_non_leaf_split`: a full non-leaf node split by a key for its left
  half overwrites that key with the one that moves up before storing it
  (`btree.cpp:322`). Later entries are put and sought in the wrong leaf, and
  `startScan` denies a key that is there. Ascending insertions never take this
  branch. The proof of `SearchFinds` shows a second wrong branch, which needs a key for the
  middle: one that is above the left half but still below the key that moves up goes into
  the right node (`btree.cpp:335`), where no search for it comes. So it takes
  a key at or above the one that moves up (`SplitsRight`). Inserting 1, 2, 3, 7, 8, 9,
  10, 4, 5, 6 in nodes of these sizes ends in that branch, and `Searchable` is false after it;
  no run of its own shows it. A still later `findParent` may walk into a leaf and read it as a
  non-leaf node, which is undefined behaviour; the model stops there (`lost`). TLC comes
  to this with sixteen distinct keys in nodes of these sizes; no run of its own
  shows it, since the cause is the same.
* `btree_duplicates`: of equal keys on both sides of a split a scan that
  starts at that key misses those on the left (`btree.cpp:418`).
* `pagefile_emptied`: the first page allocated in a file whose pages were all
  deleted keeps its link into the free list (`file.cpp:180`), against
  `page.h:57`. The next allocation or iteration throws or goes round for ever.
* `page_empty_record`: an empty record may be left behind in the free space:
  it stays where it is when the record at the same offset is deleted. The next
  deletion of a record to its right starts to move from there
  (`page.cpp:92`), moves too few cells that matter, and a record that nobody
  touched is no longer what it was, against `page.h:103-104`. Without empty
  records this is proved impossible (section 4).
* `page_stale_slot`: the slot array grows over bytes that moved records left behind
  (`page.cpp:171`). One that is not zero where the slot's `used` will be makes
  `getAvailableSlot` return a slot that looks used, against `page.h:287`, and an
  insertion for which `hasSpaceForRecord` found space throws `SlotInUseException`.
* No run: the destructor of an index throws when a scan lost its page for want of a
  frame (`btree.cpp:735`, from `Reopen`), while `btree.h:399` says that it "should not throw any
  exceptions". The page that `startScan` or `scanNext` moves to is noted before it is read,
  and `endScan` unpins it whether it was or not. `btree_starved` goes through this outcome (`terminate`).
* No run: creating a file that some File object has open does not throw
  (`file.cpp:79`), though `file.h:83-84` says it does; the constructor writes the
  header of an empty file, and the pages are gone for those who use them.
  With `Recreates` TRUE the model does this, and `PagesOutlastOpen` fails.
* No run: two File objects on one file bring one page into two frames
  (`buffer.cpp:128`), while `buffer.h:223` says a page present in the pool is
  not read again. `bufmgr_alias` shows what still holds then.
* No run: `disposePage` of a page that is not in the pool throws and deletes
  nothing (`buffer.cpp:220`), while `buffer.h:264` says it deletes from the
  file, "and also from buffer pool if present". `PageStore` has what the code does.

## 6. What is left out

Inside the modelled components: statistics and printing; the chains and the
hash function of the table; the layout of tree nodes in bytes; the content of
record ids; I/O errors of the streams, which the code does not look at; the
16-bit wrap of offsets, which 8 kB pages do not reach. Key types
other than integers do not exist in `btree.cpp`. `BlobFile` is modelled by its
numbering of pages only. A caller that goes on using
a pointer after `unPinPage` or `disposePage` is outside the contract and is
not modelled, nor is a caller that calls `scanNext` of an index again after it threw
`BufferExceededException`: the scan's page pointer is then stale. An end of
the program between two writes of `allocatePage` or `deletePage` leaves the
lists of a file broken; nothing in the code repairs that, so there is nothing
to check.

Not modelled:

* the earlier buffer manager of `p2`: superseded, and nothing in `p3` uses it.
  Its clock ends its do-while when it meets a reference bit (`buffer.cpp:70`
  there), which `PROJECT.json` lists as a hazard;
* the eBay loader: a converter with no state between runs;
* `p3_original`, `main.cpp` and the exception classes: the same files with an empty
  `btree.cpp`, a driver, and messages;
* the HTML under `docs` with its JavaScript (jQuery, menus, search): it comes with
  Doxygen, runs in a reader's browser and has no part in the database.

## 7. What could follow

1. What remains true of equal keys, which the proofs about the order exclude.
2. `BufHashTbl`: the chains, refining the function used in `BufMgr`.
3. An abstract index, a sorted multiset of entries with a cursor, for
   `BTreeIndex` to implement as long as no non-leaf node splits wrongly.
4. The composition of the scan with `BufMgr` itself in place of its contract.

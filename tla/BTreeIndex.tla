----------------------------- MODULE BTreeIndex -----------------------------
(***************************************************************************)
(* The B+ tree index of p3/src/btree.cpp over the buffer manager's         *)
(* contract (PageStore.tla): the nodes, which are pages of the index file, *)
(* the pins the index holds on them, the fields of BTreeIndex, and its one *)
(* scan.  insertEntry and startScan take one step per loop iteration that  *)
(* can run out of frames, so that a BufferExceededException thrown half    *)
(* way leaves behind what the code leaves behind.                          *)
(*                                                                         *)
(* Pages are numbered from 1 in the order they are allocated; the header   *)
(* page, which is page 1 of the file and is read at open and written at    *)
(* close only, is not counted.                                             *)
(***************************************************************************)
EXTENDS Integers, FiniteSets, Sequences, SequencesExt

CONSTANTS
    Entry,         \* bound: the entries that are inserted, each a key and a record id
    Before,        \* bound: the pairs of them of which the first is inserted first
    ScanArgs,      \* bound: what startScan is called with: low, lowOp, high, highOp
    LeafSize,      \* INTARRAYLEAFSIZE: entries a leaf can hold
    NonLeafSize,   \* INTARRAYNONLEAFSIZE: keys a non-leaf node can hold
    NumBufs,       \* frames in the buffer pool
    CallerPins     \* frames the caller keeps pinned meanwhile

(* The sizes in the code are even, and findParent reads the second key of  *)
(* a leaf that has just been split.                                        *)
ASSUME SizeAssumption ==
    /\ LeafSize \in Nat /\ LeafSize % 2 = 0 /\ LeafSize >= 4
    /\ NonLeafSize \in Nat /\ NonLeafSize % 2 = 0 /\ NonLeafSize >= 2
ASSUME PoolAssumption == NumBufs \in Nat /\ CallerPins \in Nat /\ NumBufs > CallerPins
ASSUME EntryAssumption ==
    /\ \A e \in Entry : Len(e) = 2 /\ e[1] \in Int
    /\ Before \subseteq Entry \X Entry
ASSUME ScanAssumption ==
    ScanArgs \subseteq Int \X {"GT", "GTE", "LT", "LTE"} \X Int \X {"GT", "GTE", "LT", "LTE"}

VARIABLES
    nodes,          \* nodes[p]: the node in page p
    pins,           \* pins[p]: how often the index has pinned page p
    rootPageNum,
    leafOccupancy,
    nodeOccupancy,
    call,           \* the call in progress and its local variables
    scan,           \* the members specific to scanning
    outcome,        \* the last call to end, and how
    tried,          \* history: the entries insertEntry was called with
    stored,         \* history: the entries insertEntry returned for
    returned        \* history: the entries the scan returned, those it has to
                    \* return, and whether one was inserted meanwhile

treeVars == <<nodes, pins, rootPageNum, leafOccupancy, nodeOccupancy>>
historyVars == <<tried, stored, returned>>
vars == <<treeVars, call, scan, outcome, historyVars>>

Page == DOMAIN nodes
Key == {e[1] : e \in Entry}
NoPage == 0

Leaf(entries, right) == [leaf |-> TRUE, entries |-> entries, right |-> right]
NonLeaf(keys, pages, level) ==
    [leaf |-> FALSE, keys |-> keys, pages |-> pages, level |-> level]

Keys(node) ==
    IF node.leaf THEN [i \in DOMAIN node.entries |-> node.entries[i][1]] ELSE node.keys

Idle == call.at = "idle"
AtRest == [at |-> "idle"]

Ended(op, res) ==
    /\ outcome' = [op |-> op, res |-> res]
    /\ call' = AtRest

NoScan ==
    [executing |-> FALSE, low |-> 0, lowOp |-> "GTE", high |-> 0, highOp |-> "LTE",
     page |-> NoPage, next |-> 0, ready |-> FALSE]

NothingReturned == [entries |-> <<>>, among |-> {}, disturbed |-> FALSE]

Init ==
    /\ nodes = <<Leaf(<<>>, NoPage)>>
    /\ pins = <<1>>
    /\ rootPageNum = 1
    /\ leafOccupancy = 0
    /\ nodeOccupancy = 0
    /\ call = AtRest
    /\ scan = NoScan
    /\ outcome = [op |-> "BTreeIndex", res |-> "ok"]
    /\ tried = {}
    /\ stored = {}
    /\ returned = NothingReturned

-----------------------------------------------------------------------------
(* The buffer manager: a pin needs a frame unless the page has one. *)

AllButOne(ps, p) ==   \* mutant: the clock misses a frame
    \/ p \in DOMAIN ps /\ ps[p] > 0
    \/ Cardinality({q \in DOMAIN ps : ps[q] > 0}) + CallerPins + 1 < NumBufs
HasFrame(ps, p) ==
    \/ p \in DOMAIN ps /\ ps[p] > 0
    \/ Cardinality({q \in DOMAIN ps : ps[q] > 0}) + CallerPins < NumBufs

Pin(ps, p) == [ps EXCEPT ![p] = @ + 1]
UnPin(ps, p) == [ps EXCEPT ![p] = @ - 1]

(* The number allocPage gives the next page. *)
NewPage == Len(nodes) + 1

-----------------------------------------------------------------------------
(* Finding the way. *)

(* findIndex, and the loops of findLeaf and findParent that do the same:   *)
(* how many keys from the left are passed by k.                            *)
FindIndex(keys, k) ==
    Cardinality({i \in DOMAIN keys : \A j \in 1 .. i : k >= keys[j]})

Child(p, k) == nodes[p].pages[FindIndex(nodes[p].keys, k) + 1]

(* findLeaf from the root: the pages on the way of key k.  Whether a page   *)
(* is a leaf is told from nodeOccupancy for the root, and for the others   *)
(* from the level of the page above.  A leaf that is taken for a non-leaf  *)
(* node (KindsTold: there is none) ends the way here; the code reads on.   *)
Way(k) ==
    LET below[p \in Page] ==
            IF nodes[p].leaf THEN <<>>
            ELSE <<Child(p, k)>> \o IF nodes[p].level = 1 THEN <<>> ELSE below[Child(p, k)]
    IN <<rootPageNum>> \o IF nodeOccupancy = 0 THEN <<>> ELSE below[rootPageNum]

LeafFor(k) == Last(Way(k))

(* The steps of the way at which there is no frame: findLeaf, which holds  *)
(* one page at a time, throws at the first.                                *)
Blocked(ps, k) == {i \in DOMAIN Way(k) : ~HasFrame(ps, Way(k)[i])}

(* findParent: on the way of one key of the target, the page whose child   *)
(* the target is; the parent of the root is the root.  The key is read     *)
(* through the layout of a non-leaf node, whose first key lies where a     *)
(* leaf has its second.  NoPage: the target is not on the way, and the     *)
(* code goes on into a leaf as if it were a non-leaf node.                 *)
ProbeKey(node) == IF node.leaf THEN Keys(node)[2] ELSE node.keys[1]

ParentIn(ns, target) ==
    LET k == ProbeKey(ns[target])
        Below(p) == ns[p].pages[FindIndex(ns[p].keys, k) + 1]
        parent[p \in DOMAIN ns] ==
            IF ns[p].leaf THEN NoPage
            ELSE IF Below(p) = target THEN p
            ELSE parent[Below(p)]
    IN IF target = rootPageNum THEN target ELSE parent[rootPageNum]

-----------------------------------------------------------------------------
(* insertEntry. *)

WithEntry(entries, e) ==
    InsertAt(entries, FindIndex([i \in DOMAIN entries |-> entries[i][1]], e[1]) + 1, e)

(* Mutant: the entry in the middle is in neither half. *)
SplitLeafDrops(entries, e) ==
    <<WithEntry(SubSeq(entries, 1, LeafSize \div 2), e),
      SubSeq(entries, LeafSize \div 2 + 2, LeafSize)>>

(* The two leaves a full one becomes: the new entry goes left when its     *)
(* place is in the left half, or at its end.                               *)
SplitLeaf(entries, e) ==
    LET half == LeafSize \div 2
        left == SubSeq(entries, 1, half)
        right == SubSeq(entries, half + 1, LeafSize)
    IN IF FindIndex([i \in DOMAIN entries |-> entries[i][1]], e[1]) <= half
       THEN <<WithEntry(left, e), right>>
       ELSE <<left, WithEntry(right, e)>>

(* Mutant: the new child is placed left of its key. *)
WithChildLeft(node, k, p) ==
    LET i == FindIndex(node.keys, k) IN
    NonLeaf(InsertAt(node.keys, i + 1, k), InsertAt(node.pages, i + 1, p), node.level)

(* Key k goes to its place among the keys, and page p right of it. *)
WithChild(node, k, p) ==
    LET i == FindIndex(node.keys, k) IN
    NonLeaf(InsertAt(node.keys, i + 1, k), InsertAt(node.pages, i + 2, p), node.level)

(* The two nodes a full one becomes with key k and page p, and the key     *)
(* that moves up.  On the left the key that moves up is also the one that  *)
(* is inserted, in place of k and of the last key that stays.  (The branch *)
(* of the code that moves k up itself asks for a k above all keys of the   *)
(* left half, and is within insertLeft, which asks for one below.)         *)
SplitNonLeaf(node, k, p) ==
    LET insertLeft == FindIndex(node.keys, k) < NonLeafSize \div 2
        copyNum == IF insertLeft THEN NonLeafSize \div 2 ELSE (NonLeafSize - 1) \div 2
        kept == NonLeafSize - copyNum
        right == NonLeaf(SubSeq(node.keys, kept + 1, NonLeafSize),
                         SubSeq(node.pages, kept + 1, NonLeafSize + 1), node.level)
        left == NonLeaf(SubSeq(node.keys, 1, kept - 1), SubSeq(node.pages, 1, kept), node.level)
    IN IF insertLeft
       THEN [left |-> WithChild(left, node.keys[kept + 1], p),
             right |-> right, up |-> node.keys[kept + 1]]
       ELSE [left |-> left, right |-> WithChild(right, k, p), up |-> node.keys[kept]]

(* The leaf has room for one more entry. *)
FitsOneTooMany(leaf) == Len(leaf.entries) <= LeafSize   \* mutant
Fits(leaf) == Len(leaf.entries) < LeafSize

(* The constructor's loop over the relation, and other callers: every      *)
(* entry once, in an order that Before allows.                             *)
Inserts(e) ==
    /\ e \notin tried
    /\ \A f \in Entry : <<f, e>> \in Before => f \in tried

(* A node was split: what is left to do is to enter key and page into the  *)
(* parent, which findParent looks for in the nodes as they are now.        *)
GoUp(ns, child, key, page, depth, e) ==
    LET parent == ParentIn(ns, child) IN
    IF parent = NoPage
    THEN /\ outcome' = [op |-> "insertEntry", res |-> "undefined"]
         /\ call' = [at |-> "lost"]
    ELSE /\ call' = [at |-> IF depth > 0 THEN "parent" ELSE "newRoot",
                     currId |-> parent, currKey |-> key, prevId |-> page,
                     currDepth |-> depth - 1, entry |-> e]
         /\ UNCHANGED outcome

Disturbs == returned' = [returned EXCEPT !.disturbed = scan.executing]

(* The way down, and the leaf. *)
InsertEntry(e) ==
    LET p == LeafFor(e[1])
        leaf == nodes[p]
        pinned == Pin(pins, p)
    IN
    /\ Idle
    /\ Inserts(e)
    /\ tried' = tried \cup {e}
    /\ leafOccupancy' = leafOccupancy + 1
    /\ Disturbs
    /\ \/ /\ Blocked(pins, e[1]) # {}
          /\ Ended("insertEntry", "BufferExceeded")
          /\ UNCHANGED <<nodes, pins, stored>>
       \/ /\ Blocked(pins, e[1]) = {}
          /\ Fits(leaf)
          /\ nodes' = [nodes EXCEPT ![p].entries = WithEntry(@, e)]
          /\ stored' = stored \cup {e}
          /\ Ended("insertEntry", "ok")
          /\ UNCHANGED pins
       \/ /\ Blocked(pins, e[1]) = {}
          /\ ~Fits(leaf)
          /\ ~HasFrame(pinned, NewPage)
          /\ pins' = pinned
          /\ Ended("insertEntry", "BufferExceeded")
          /\ UNCHANGED <<nodes, stored>>
       \/ /\ Blocked(pins, e[1]) = {}
          /\ ~Fits(leaf)
          /\ HasFrame(pinned, NewPage)
          /\ LET halves == SplitLeaf(leaf.entries, e)
                 split == Append([nodes EXCEPT ![p] = Leaf(halves[1], NewPage)],
                                 Leaf(halves[2], leaf.right))
             IN /\ nodes' = split
                /\ GoUp(split, p, halves[2][1][1], NewPage, Len(Way(e[1])) - 1, e)
          /\ pins' = Append(pins, 0)
          /\ UNCHANGED stored
    /\ UNCHANGED <<rootPageNum, nodeOccupancy, scan>>

(* One level up: enter the key, or split the node too. *)
EnterIntoParent ==
    LET p == call.currId
        node == nodes[p]
        pinned == Pin(pins, p)
    IN
    /\ call.at = "parent"
    /\ nodeOccupancy' = nodeOccupancy + 1
    /\ \/ /\ Len(node.keys) < NonLeafSize
          /\ nodes' = [nodes EXCEPT ![p] = WithChild(node, call.currKey, call.prevId)]
          /\ stored' = stored \cup {call.entry}
          /\ Ended("insertEntry", "ok")
          /\ UNCHANGED pins
       \/ /\ Len(node.keys) = NonLeafSize
          /\ ~HasFrame(pinned, NewPage)
          /\ pins' = pinned
          /\ Ended("insertEntry", "BufferExceeded")
          /\ UNCHANGED <<nodes, stored>>
       \/ /\ Len(node.keys) = NonLeafSize
          /\ HasFrame(pinned, NewPage)
          /\ LET halves == SplitNonLeaf(node, call.currKey, call.prevId)
                 split == Append([nodes EXCEPT ![p] = halves.left], halves.right)
             IN /\ nodes' = split
                /\ GoUp(split, p, halves.up, NewPage, call.currDepth, call.entry)
          /\ pins' = Append(pins, 0)
          /\ UNCHANGED stored
    /\ UNCHANGED <<rootPageNum, leafOccupancy, scan, tried, returned>>

(* The level of a new root: whether its children are leaves. *)
RootLevelOne == 1   \* mutant
RootLevel == IF nodeOccupancy = 0 THEN 1 ELSE 0

(* The old root has been pinned as the root and is pinned once more as a   *)
(* child of the new one; it loses both pins, ps being the pins but the     *)
(* second.                                                                 *)
UnPinnedOnce(ps, old) == ps   \* mutant
UnPinnedTwice(ps, old) == UnPin(ps, old)

(* The root was split.  Its page and that of its new sibling are pinned    *)
(* once more, and the old root loses the pin it had as the root.           *)
MakeNewRoot ==
    LET old == call.currId
        held == Append(pins, 1)
    IN
    /\ call.at = "newRoot"
    /\ HasFrame(pins, NewPage)   \* that of prevId, which was just unpinned
    /\ nodes' = Append(nodes, NonLeaf(<<call.currKey>>, <<old, call.prevId>>, RootLevel))
    /\ rootPageNum' = NewPage
    /\ nodeOccupancy' = nodeOccupancy + 1
    /\ IF HasFrame(held, call.prevId)
       THEN /\ pins' = UnPinnedTwice(held, old)
            /\ stored' = stored \cup {call.entry}
            /\ Ended("insertEntry", "ok")
       ELSE /\ pins' = Pin(held, old)
            /\ Ended("insertEntry", "BufferExceeded")
            /\ UNCHANGED stored
    /\ UNCHANGED <<leafOccupancy, scan, tried, returned>>

-----------------------------------------------------------------------------
(* The scan. *)

(* The key is beyond the range, and is not before it. *)
PastHighLoose(s, k) == k > s.high   \* mutant
PastHigh(s, k) == k > s.high \/ (k = s.high /\ s.highOp = "LT")
AboveLowLoose(s, k) == s.low <= k   \* mutant
AboveLowStrict(s, k) == s.low < k   \* mutant
AboveLow(s, k) == (s.lowOp = "GTE" /\ s.low <= k) \/ (s.lowOp = "GT" /\ s.low < k)

(* What the arguments of startScan say, for the history. *)
InRange(s, k) ==
    /\ k \in s.low .. s.high
    /\ k = s.low => s.lowOp = "GTE"
    /\ k = s.high => s.highOp = "LTE"

(* The pins after the scan gives up its page, if it holds it. *)
NotReleased(s) == pins   \* mutant
Released(s) ==
    IF s.executing /\ pins[s.page] > 0 THEN UnPin(pins, s.page) ELSE pins

(* endScan asks the buffer manager to unpin a page that the scan never got *)
(* hold of: startScan or scanNext ran out of frames.  How that ends turns  *)
(* on whether the page is in the pool still.                               *)
Unheld(s) == s.executing /\ pins[s.page] = 0
UnPinErrors == {"PageNotPinned", "HashNotFound"}

(* The checks of startScan, the end of the scan before, and the way down.  *)
StartScan(s) ==
    LET ps == Released(scan) IN
    /\ Idle
    /\ \/ /\ s.lowOp \notin {"GTE", "GT"} \/ s.highOp \notin {"LTE", "LT"}
          /\ Ended("startScan", "BadOpcodes")
          /\ UNCHANGED <<pins, scan, returned>>
       \/ /\ s.lowOp \in {"GTE", "GT"} /\ s.highOp \in {"LTE", "LT"}
          /\ leafOccupancy = 0
          /\ Ended("startScan", "NoSuchKeyFound")
          /\ UNCHANGED <<pins, scan, returned>>
       \/ /\ s.lowOp \in {"GTE", "GT"} /\ s.highOp \in {"LTE", "LT"}
          /\ leafOccupancy # 0
          /\ pins' = ps
          /\ \/ /\ Unheld(scan)
                /\ scan' = NoScan
                /\ \E res \in UnPinErrors : Ended("startScan", res)
                /\ returned' = NothingReturned
             \/ /\ ~Unheld(scan)
                /\ s.low > s.high
                /\ scan' = NoScan
                /\ Ended("startScan", "BadScanrange")
                /\ returned' = NothingReturned
             \/ /\ ~Unheld(scan)
                /\ s.low <= s.high
                /\ \E i \in Blocked(ps, s.low) :
                      /\ \A j \in Blocked(ps, s.low) : i <= j
                      /\ scan' = [s EXCEPT !.page = Way(s.low)[i]]
                /\ Ended("startScan", "BufferExceeded")
                /\ returned' = NothingReturned
       \/ /\ s.lowOp \in {"GTE", "GT"} /\ s.highOp \in {"LTE", "LT"}
          /\ leafOccupancy # 0
          /\ ~Unheld(scan)
          /\ s.low <= s.high
          /\ Blocked(ps, s.low) = {}
          /\ pins' = Pin(ps, LeafFor(s.low))
          /\ scan' = [s EXCEPT !.page = LeafFor(s.low), !.ready = TRUE]
          /\ returned' = [NothingReturned EXCEPT !.among = {e \in stored : InRange(s, e[1])}]
          /\ call' = [at |-> "seek"]
          /\ UNCHANGED outcome
    /\ UNCHANGED <<nodes, rootPageNum, leafOccupancy, nodeOccupancy, tried, stored>>

(* Mutant: the scan does not get to the page it moves to. *)
StaysPut(p) == scan' = [scan EXCEPT !.next = 0] /\ UNCHANGED pins

(* The scan moves on to page p and gives up the one it is on. *)
MovesTo(p) ==
    LET ps == UnPin(pins, scan.page) IN
    IF HasFrame(ps, p)
    THEN pins' = Pin(ps, p) /\ scan' = [scan EXCEPT !.page = p, !.next = 0]
    ELSE pins' = ps /\ scan' = [scan EXCEPT !.page = p, !.ready = FALSE]

(* One leaf of the search for the first entry in the range. *)
SeekFirst ==
    LET leaf == nodes[scan.page]
        Deciding == {i \in DOMAIN leaf.entries :
                        PastHigh(scan, leaf.entries[i][1]) \/ AboveLow(scan, leaf.entries[i][1])}
    IN
    /\ call.at = "seek"
    /\ \/ \E i \in Deciding :
             /\ \A j \in Deciding : i <= j
             /\ scan' = [scan EXCEPT !.next = i - 1]
             /\ Ended("startScan", IF PastHigh(scan, leaf.entries[i][1])
                                   THEN "NoSuchKeyFound" ELSE "ok")
             /\ UNCHANGED pins
       \/ /\ Deciding = {}
          /\ leaf.right = NoPage
          /\ scan' = [scan EXCEPT !.next = Len(leaf.entries)]
          /\ Ended("startScan", "NoSuchKeyFound")
          /\ UNCHANGED pins
       \/ /\ Deciding = {}
          /\ leaf.right # NoPage
          /\ MovesTo(leaf.right)
          /\ IF scan'.ready THEN UNCHANGED <<call, outcome>> ELSE Ended("startScan", "BufferExceeded")
    /\ UNCHANGED <<nodes, rootPageNum, leafOccupancy, nodeOccupancy, historyVars>>

(* The entry the scan is at, or the end of the range. *)
Yields(p, i) ==
    LET e == nodes[p].entries[i + 1] IN
    IF PastHigh(scan, e[1])
    THEN /\ scan' = [scan EXCEPT !.page = p, !.next = i]
         /\ Ended("scanNext", "IndexScanCompleted")
         /\ UNCHANGED returned
    ELSE /\ scan' = [scan EXCEPT !.page = p, !.next = i + 1]
         /\ returned' = [returned EXCEPT !.entries = Append(@, e)]
         /\ Ended("scanNext", "ok")

(* A caller whose scan ran out of frames does not ask it for more. *)
ScanNext ==
    LET p == scan.page
        q == nodes[p].right
        ps == UnPin(pins, p)
    IN
    /\ Idle
    /\ \/ /\ ~scan.executing
          /\ Ended("scanNext", "ScanNotInitialized")
          /\ UNCHANGED <<pins, scan, returned>>
       \/ /\ scan.executing /\ scan.ready
          /\ scan.next < Len(nodes[p].entries)
          /\ Yields(p, scan.next)
          /\ UNCHANGED pins
       \/ /\ scan.executing /\ scan.ready
          /\ scan.next >= Len(nodes[p].entries)
          /\ \/ /\ q = NoPage
                /\ Ended("scanNext", "IndexScanCompleted")
                /\ UNCHANGED <<pins, scan, returned>>
             \/ /\ q # NoPage
                /\ HasFrame(ps, q)
                /\ pins' = Pin(ps, q)
                /\ Yields(q, 0)
             \/ /\ q # NoPage
                /\ ~HasFrame(ps, q)
                /\ pins' = ps
                /\ scan' = [scan EXCEPT !.page = q, !.ready = FALSE]
                /\ Ended("scanNext", "BufferExceeded")
                /\ UNCHANGED returned
    /\ UNCHANGED <<nodes, rootPageNum, leafOccupancy, nodeOccupancy, tried, stored>>

EndScan ==
    /\ Idle
    /\ IF scan.executing
       THEN /\ pins' = Released(scan)
            /\ scan' = NoScan
            /\ returned' = NothingReturned
            /\ \E res \in IF Unheld(scan) THEN UnPinErrors ELSE {"ok"} : Ended("endScan", res)
       ELSE /\ Ended("endScan", "ScanNotInitialized")
            /\ UNCHANGED <<pins, scan, returned>>
    /\ UNCHANGED <<nodes, rootPageNum, leafOccupancy, nodeOccupancy, tried, stored>>

(* The index is closed and opened again: the scan ends, the header page is *)
(* read and written, the root unpinned and the file flushed.  An exception *)
(* in the destructor ends the program.                                     *)
Reopen ==
    LET ps == Released(scan)
        closed == UnPin(ps, rootPageNum)
    IN
    /\ Idle
    /\ IF /\ ~Unheld(scan)
          /\ HasFrame(ps, NoPage)
          /\ \A p \in Page : closed[p] = 0
       THEN /\ pins' = Pin(closed, rootPageNum)
            /\ scan' = NoScan
            /\ returned' = NothingReturned
            /\ Ended("BTreeIndex", "ok")
       ELSE /\ outcome' = [op |-> "~BTreeIndex", res |-> "terminate"]
            /\ call' = [at |-> "dead"]
            /\ UNCHANGED <<pins, scan, returned>>
    /\ UNCHANGED <<nodes, rootPageNum, leafOccupancy, nodeOccupancy, tried, stored>>

NewScan(a) ==
    [NoScan EXCEPT !.executing = TRUE, !.low = a[1], !.lowOp = a[2], !.high = a[3], !.highOp = a[4]]

Next ==
    \/ \E e \in Entry : InsertEntry(e)
    \/ EnterIntoParent
    \/ MakeNewRoot
    \/ \E a \in ScanArgs : StartScan(NewScan(a))
    \/ SeekFirst
    \/ ScanNext
    \/ EndScan
    \/ Reopen

Spec == Init /\ [][Next]_vars

(* Once begun, a call runs: there is one thread, and nothing it waits for. *)
FairSpec == Spec /\ WF_vars(EnterIntoParent \/ MakeNewRoot \/ SeekFirst)

-----------------------------------------------------------------------------
(* What must hold. *)

NodeOK(node) ==
    IF node.leaf
    THEN /\ node.entries \in Seq(Entry)
         /\ Len(node.entries) <= LeafSize
         /\ node.right \in {NoPage} \cup Page
    ELSE /\ node.keys \in Seq(Key)
         /\ Len(node.keys) \in 1 .. NonLeafSize
         /\ node.pages \in Seq(Page)
         /\ Len(node.pages) = Len(node.keys) + 1
         /\ node.level \in {0, 1}

(* The variables keep their types and no node outgrows its arrays. *)
TypeOK ==
    /\ \A p \in Page : NodeOK(nodes[p])
    /\ pins \in [Page -> Nat]
    /\ rootPageNum \in Page
    /\ leafOccupancy \in Nat /\ nodeOccupancy \in Nat
    /\ call.at \in {"idle", "parent", "newRoot", "seek", "lost", "dead"}
    /\ scan.executing => scan.page \in Page
    /\ tried \subseteq Entry /\ stored \subseteq tried

(* The entries from left to right, along rightSibPageNo.  The first leaf is *)
(* the page that was the first root: a split puts the new leaf right.      *)
ChainEntries ==
    LET from[p \in {q \in Page : nodes[q].leaf}] ==
            nodes[p].entries \o IF nodes[p].right = NoPage THEN <<>> ELSE from[nodes[p].right]
    IN from[1]

(* Every entry whose insertEntry returned is on the chain of leaves, once, *)
(* and nothing is that was not given to insertEntry.                       *)
NoEntryLost ==
    LET all == ChainEntries IN
    /\ stored \subseteq ToSet(all)
    /\ ToSet(all) \subseteq tried
    /\ IsInjective(all)

(* Between calls, the way from the root that a key takes ends in the leaf  *)
(* that has it: no split leaves an entry where a search does not look.     *)
Searchable ==
    Idle => \A e \in stored : e \in ToSet(nodes[LeafFor(e[1])].entries)

(* findLeaf takes no node for one of the other kind: level and             *)
(* nodeOccupancy, which it goes by, say what the page below holds.         *)
(* (findParent, which goes by neither, can come to a leaf after a non-leaf *)
(* node was split wrongly: then the call is lost.)                         *)
KindsTold ==
    /\ nodeOccupancy = 0 <=> nodes[rootPageNum].leaf
    /\ \A p \in Page : ~nodes[p].leaf =>
          \A i \in DOMAIN nodes[p].pages : nodes[p].level = 1 <=> nodes[nodes[p].pages[i]].leaf

(* Between calls the root is pinned once and the page the scan is on once  *)
(* more, and nothing else is.                                              *)
PinsBalanced ==
    Idle => \A p \in Page :
        pins[p] = (IF p = rootPageNum THEN 1 ELSE 0)
                  + (IF scan.executing /\ p = scan.page THEN 1 ELSE 0)

(* The pool is large enough, a scan that is open included. *)
NeverExceeded == outcome.res # "BufferExceeded"

Alone == ~scan.executing /\ \A p \in Page : pins[p] = IF p = rootPageNum THEN 1 ELSE 0

(* design_report.md: four frames are enough, the caller's page among them. *)
(* With no scan open and nothing leaked by a call that failed before, no   *)
(* call ends for want of a frame, whatever it has to split (where NumBufs  *)
(* is 4 and CallerPins 1).                                                 *)
FourFramesSuffice ==
    [][Alone /\ call'.at = "idle" => outcome'.res # "BufferExceeded"]_vars

(* startScan says that there is no such key only if no entry is in range.  *)
NoSuchKeyTrue ==
    Idle /\ outcome = [op |-> "startScan", res |-> "NoSuchKeyFound"] => returned.among = {}

(* A scan during which nothing is inserted returns the entries in its      *)
(* range, each once and none after a greater one, and ends after the last. *)
ScanComplete ==
    Idle /\ scan.executing /\ ~returned.disturbed =>
        LET got == returned.entries IN
        /\ ToSet(got) \subseteq returned.among
        /\ IsInjective(got)
        /\ \A i \in DOMAIN got : \A a \in returned.among :
              a[1] < got[i][1] => a \in ToSet(SubSeq(got, 1, i - 1))
        /\ outcome = [op |-> "scanNext", res |-> "IndexScanCompleted"]
              => ToSet(got) = returned.among

(* Every call ends: the loop of insertEntry comes to the root, and that of *)
(* startScan to an entry in range or to the last leaf.                     *)
CallsEnd == ~Idle /\ call.at # "dead" ~> Idle
=============================================================================

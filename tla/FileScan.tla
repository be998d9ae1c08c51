------------------------------ MODULE FileScan ------------------------------
(***************************************************************************)
(* A FileScan (p3/src/filescan.cpp): a walk over the records of a file     *)
(* through the buffer pool, with a File object of its own, while others    *)
(* allocate, delete and write pages of the file through theirs.  It reads  *)
(* a page of the file twice: from the pool, where it stays as it was when  *)
(* it was read, and, each time it needs the page's number or its link,     *)
(* from the file itself.                                                   *)
(***************************************************************************)
EXTENDS FileHandles

CONSTANTS
    SCAN,        \* the File object of the scan
    MaxUnHashed, \* bound: frames of SCAN that the hash table does not lead to
    Records      \* Records[d]: how many records d is

(* The list of used pages leads over all of them and ends (UsedListExact), *)
(* which is so while a file is never emptied.                              *)
ASSUME ScanAssumption == SCAN \in Handle /\ NeverEmptied
ASSUME RecordsAssumption == Records \in [Data -> Nat] /\ Records[Blank] = 0

VARIABLES
    scan,      \* the FileScan object
    frames,    \* frames[n]: the frame that page n was last read into for SCAN
    lost,      \* other frames of SCAN, which the hash table does not lead to
    due,       \* history: pages with records that the scan has yet to come to
    marked     \* history: pages that it was told are dirty since it read them

scanVars == <<scan, frames, lost, due, marked>>
systemVars == <<allVars, scanVars>>

NULL == INVALID_NUMBER
NoScan == [exists |-> FALSE, filePageIter |-> NULL, curPage |-> NULL,
           slot |-> 0, curDirtyFlag |-> FALSE]
NoFrames == [n \in {} |-> NULL]

Callers == Handle \ {SCAN}

ScanInit ==
    /\ HandlesInit
    /\ scan = NoScan
    /\ frames = NoFrames
    /\ lost = {}
    /\ due = {}
    /\ marked = {}

(* Once an exception leaves a destructor the program has ended. *)
Alive == Running /\ outcome.res # "terminate"

-----------------------------------------------------------------------------
(* The buffer pool.  It has frames of other callers too, and any frame     *)
(* without a pin may be needed for another page at any time.               *)

(* The pages that a lookup finds. *)
Hashed(frs) == {n \in DOMAIN frs : frs[n].hashed}

(* The pages that have records for one who reads them through the pool,    *)
(* where they stay as they were when they were read.                       *)
Content(frs, n) == IF n \in Hashed(frs) THEN frs[n].data ELSE pages[n].data
WithRecords == {n \in Used : Records[Content(frames, n)] > 0}

StillPinned(frs) == frs   \* mutant
UnPinned(frs) ==
    IF scan.curPage = NULL THEN frs
    ELSE [frs EXCEPT ![scan.filePageIter].pins = @ - 1,
                     ![scan.filePageIter].dirty = @ \/ scan.curDirtyFlag]

(* readPage of the pages Q, when it does not throw.  Where a page is in    *)
(* the pool already, its frame stays as it is.                             *)
Fresh(n) == [data |-> pages[n].data, dirty |-> FALSE, pins |-> 0, hashed |-> TRUE]
Read(frs, Q) ==
    [n \in DOMAIN frs \cup Q |-> IF n \in Q \ Hashed(frs) THEN Fresh(n) ELSE frs[n]]
LeftBehind(frs, Q) ==
    {[page |-> n, frame |-> frs[n]] : n \in (Q \cap DOMAIN frs) \ Hashed(frs)}

Pinned(frs, p) == [n \in DOMAIN frs |-> IF n = p THEN [frs[n] EXCEPT !.pins = @ + 1] ELSE frs[n]]

UnHashed(frs, n) == [frs EXCEPT ![n].hashed = FALSE]

WrittenBack(frs) ==
    [n \in DOMAIN pages |->
        IF n \in DOMAIN frs /\ frs[n].dirty THEN [pages[n] EXCEPT !.data = frs[n].data] ELSE pages[n]]

(* The frames of page n that the clock can stop at so that n goes from the *)
(* hash table: the one that n leads to, or a lost one.                     *)
Victims(frs, n) ==
    {v \in {frs[n]} \cup {f.frame : f \in {g \in lost : g.page = n}} : v.pins = 0}

(* The page was deleted, and writePage throws with its entry gone and the  *)
(* frame still valid.                                                      *)
WriteThrows(frs, n) == n \notin Used /\ \E frame \in Victims(frs, n) : frame.dirty

(* Another caller needs a frame.  (Where the entry of a frame is gone      *)
(* already that call throws HashNotFoundException and nothing changes.)    *)
Evict(n) ==
    /\ n \in Hashed(frames)
    /\ \/ /\ WriteThrows(frames, n)
          /\ frames' = UnHashed(frames, n)
          /\ Result("evict", "InvalidPage")
          /\ UNCHANGED <<pages, lost, marked>>
       \/ /\ frames[n].pins = 0 /\ (frames[n].dirty => n \in Used)
          /\ pages' = WrittenBack([m \in {n} |-> frames[m]])
          /\ frames' = [m \in DOMAIN frames \ {n} |-> frames[m]]
          /\ marked' = marked \ ({n} \ {f.page : f \in lost})
          /\ Result("evict", "ok")
          /\ UNCHANGED lost
       \/ \E f \in lost :
             /\ f.page = n /\ (f.frame.dirty => n \in Used)
             /\ pages' = WrittenBack([m \in {n} |-> f.frame])
             /\ frames' = UnHashed(frames, n)
             /\ lost' \in {lost, lost \ {f}}   \* frames that are alike are one in lost
             /\ Result("evict", "ok")
             /\ UNCHANGED marked
    /\ due' = due \cap WithRecords'
    /\ UNCHANGED <<header, handleVars, scan>>

-----------------------------------------------------------------------------
(* The constructor. *)
OpenScan ==
    /\ ~scan.exists
    /\ Construct(SCAN, REL, FALSE)
    /\ scan' = IF handle'[SCAN] = Closed THEN scan
               ELSE [NoScan EXCEPT !.exists = TRUE, !.filePageIter = header.first_used_page]
    /\ UNCHANGED <<frames, lost, due, marked>>

(* The page of the scan can be unpinned: its number, which is read from    *)
(* the file, and its frame are found.                                      *)
CanGoOn == scan.curPage # NULL => scan.filePageIter \in Used \cap Hashed(frames)

(* The destructor unpins the last page and flushes the file, all frames of *)
(* which have to be found.  (When it throws, what it has flushed is left   *)
(* out, as all objects of the program are gone.)                           *)
CloseScan ==
    LET left == UnPinned(frames)
        fails == \/ ~CanGoOn
                 \/ lost # {} \/ DOMAIN left # Hashed(left)
                 \/ \E n \in DOMAIN left : left[n].dirty /\ n \notin Used
    IN /\ scan.exists
       /\ \/ /\ fails
             /\ Result("~FileScan", "terminate")
             /\ open_files' = [n \in {} |-> 0]
             /\ handle' = [h \in Handle |-> Closed]
             /\ scan' = NoScan /\ frames' = NoFrames /\ lost' = {} /\ due' = {} /\ marked' = {}
             /\ UNCHANGED <<fileVars, on_disk>>
          \/ /\ ~fails
             /\ pages' = WrittenBack(left)
             /\ scan' = NoScan /\ frames' = NoFrames /\ lost' = {} /\ due' = {} /\ marked' = {}
             /\ open_files' = ClosedOnce(open_files, REL)
             /\ handle' = [handle EXCEPT ![SCAN] = Closed]
             /\ Result("~FileScan", "ok")
             /\ UNCHANGED <<header, on_disk>>

MarkDirty ==
    /\ scan.exists
    /\ scan' = [scan EXCEPT !.curDirtyFlag = TRUE]
    /\ marked' = marked \cup ({scan.curPage} \ {NULL})
    /\ Result("markDirty", "ok")
    /\ UNCHANGED <<fileVars, handleVars, frames, lost, due>>

-----------------------------------------------------------------------------
(* scanNext. *)

AtEnd == scan.filePageIter = INVALID_NUMBER

(* The next record of the current page; from the page's end, a             *)
(* pageRecordIter goes to its first record.                                *)
HasNext == scan.curPage # NULL /\ scan.slot < Records[frames[scan.curPage].data]

(* Where the loop over the pages starts: at begin() when there is no       *)
(* current page, or behind the current one.                                *)
NotAdvanced ==   \* mutant
    IF scan.curPage = NULL THEN header.first_used_page ELSE scan.filePageIter
From == IF scan.curPage = NULL
        THEN header.first_used_page
        ELSE pages[scan.filePageIter].next_page_number

(* It stops at the first page with records, or at the end. *)
EndsIfEmpty == IF From \in WithRecords THEN From ELSE NULL   \* mutant: `if' for `while'
StopsAt ==
    IF ComesToEnd(From, WithRecords) THEN NULL
    ELSE CHOOSE n \in EndsAt(From, WithRecords) : TRUE

(* The pages that it reads on the way, and those before page q. *)
OnWay == Visited(From, WithRecords) \cap Used
Before(q) == Visited(From, WithRecords \cup {q}) \ {q}

FlagKept == scan.curDirtyFlag   \* mutant
FlagAfterRead == FALSE

(* readPage throws for page q: there is no frame for it, which can be only *)
(* while the scan has none to give back, or the clock stopped at one that  *)
(* it could not clear, of another caller or of the scan.                   *)
ReadThrows(q, frs) ==
    /\ q \notin Hashed(frs)
    /\ \/ /\ scan.curPage = NULL /\ q = From
          /\ frames' = frs
          /\ Result("scanNext", "BufferExceeded")
       \/ /\ frames' = frs
          /\ \E res \in {"InvalidPage", "HashNotFound"} : Result("scanNext", res)
       \/ /\ \E n \in Hashed(frs) : WriteThrows(frs, n) /\ frames' = UnHashed(frs, n)
          /\ Result("scanNext", "InvalidPage")

ScanNext ==
    /\ scan.exists
    /\ \/ /\ AtEnd
          /\ Result("scanNext", "EndOfFile")
          /\ UNCHANGED <<scan, frames, lost, due>>
       \/ /\ ~AtEnd /\ HasNext
          /\ scan' = [scan EXCEPT !.slot = @ + 1]
          /\ Result("scanNext", "ok")
          /\ UNCHANGED <<frames, lost, due>>
       \/ /\ ~AtEnd /\ ~HasNext /\ ~CanGoOn
          /\ scan' = [scan EXCEPT !.slot = 0]
          /\ Result("scanNext", IF scan.filePageIter \in Used THEN "HashNotFound" ELSE "InvalidPage")
          /\ UNCHANGED <<frames, lost, due>>
       \/ /\ ~AtEnd /\ ~HasNext /\ CanGoOn
          /\ \E q \in OnWay :
                /\ ReadThrows(q, Read(UnPinned(frames), Before(q)))
                /\ lost' = lost \cup LeftBehind(UnPinned(frames), Before(q))
                /\ scan' = [scan EXCEPT !.filePageIter = q, !.curPage = NULL, !.slot = 0,
                                        !.curDirtyFlag = @ /\ scan.curPage = NULL /\ q = From]
          /\ due' = {}
       \/ /\ ~AtEnd /\ ~HasNext /\ CanGoOn
          /\ LET readIn == Before(StopsAt) \cup ({StopsAt} \ {NULL}) IN
             /\ frames' = Pinned(Read(UnPinned(frames), readIn), StopsAt)
             /\ lost' = lost \cup LeftBehind(UnPinned(frames), readIn)
          /\ scan' = [exists |-> TRUE, filePageIter |-> StopsAt, curPage |-> StopsAt,
                      slot |-> IF StopsAt = NULL THEN 0 ELSE 1, curDirtyFlag |-> FlagAfterRead]
          /\ due' = (IF scan.curPage = NULL THEN WithRecords ELSE due) \ {StopsAt}
          /\ Result("scanNext", IF StopsAt = NULL THEN "EndOfFile" ELSE "ok")
    /\ UNCHANGED <<fileVars, handleVars, marked>>

(* What others do to the file.  A page that goes, or loses its records, is *)
(* no longer due.                                                          *)
Others ==
    /\ HandlesNext(Callers)
    /\ UNCHANGED <<scan, frames, lost, marked>>
    /\ due' = due \cap WithRecords'

ScanStep == OpenScan \/ CloseScan \/ MarkDirty \/ ScanNext \/ \E n \in PageNo : Evict(n)

SystemNext ==
    /\ Alive
    /\ Others \/ ScanStep
    /\ Cardinality(lost') + Cardinality(DOMAIN frames' \ Hashed(frames')) <= MaxUnHashed

SystemSpec == ScanInit /\ [][SystemNext]_systemVars

-----------------------------------------------------------------------------
(* What must hold. *)

(* The scan holds one pin, on its current page, and none when it has none, *)
(* whatever it has thrown; none is left in a frame that it can no longer   *)
(* find; and the two iterators do not part.                                *)
PinsBalanced ==
    /\ \A n \in DOMAIN frames : frames[n].pins = IF n = scan.curPage THEN 1 ELSE 0
    /\ \A f \in lost : f.frame.pins = 0
    /\ scan.curPage # NULL => scan.curPage \in DOMAIN frames /\ scan.filePageIter = scan.curPage

(* When the scan reports the end, it has been at every page that has had   *)
(* records, as the pool has them, since it began or last began again,      *)
(* though pages before, at and behind its own were allocated, deleted and  *)
(* written meanwhile.                                                      *)
ScanComplete == scan.exists /\ AtEnd => due = {}

(* A record that scanNext returns lies ahead of the one it returned last,  *)
(* unless it has thrown since: it returns none twice between exceptions.   *)
(* (One that is thrown where a page was deleted, or a frame was not to be  *)
(* had, sets it back, to the first record of its page or of the file.)     *)
(* And once it has reported the end it returns no more.                    *)
Forward ==
    [][scan.exists /\ scan'.exists =>
          /\ outcome'.op = "scanNext" /\ outcome'.res = "ok" =>
                \/ scan'.curPage > scan.curPage
                \/ scan'.curPage = scan.curPage /\ scan'.slot > scan.slot
          /\ <<scan'.curPage, scan'.slot>> # <<scan.curPage, scan.slot>> => outcome'.op = "scanNext"
          /\ AtEnd => UNCHANGED <<scan.curPage, scan.slot, scan.filePageIter>>]_systemVars

(* The records of a page change when a caller writes the page, or when the *)
(* scan does that has been told it is dirty, and else stay as they are.    *)
OnlyWritesChange ==
    [][\A n \in DOMAIN pages \cap DOMAIN pages' :
          pages[n].used /\ pages'[n].used /\ pages'[n].data # pages[n].data
              => \/ outcome'.op = "writePage" /\ outcome'.page = n
                 \/ outcome'.op \in {"evict", "~FileScan"} /\ n \in marked]_systemVars
=============================================================================

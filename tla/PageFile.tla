------------------------------ MODULE PageFile ------------------------------
(***************************************************************************)
(* A PageFile of p3/src/file.cpp on disk: the file header, and the pages   *)
(* with the links that string the used pages into one list and the free    *)
(* pages into another.  Every operation reads what it needs from the file  *)
(* and writes the file through before it returns; a caller (in the system, *)
(* a frame of the buffer pool) keeps copies of pages meanwhile, which grow *)
(* stale as the file changes under them, and may write one at any time.    *)
(*                                                                         *)
(* Pages are numbered from 1; page number 0 is Page::INVALID_NUMBER, and   *)
(* the header lies where page 0 would.                                     *)
(***************************************************************************)
EXTENDS Integers, FiniteSets

CONSTANTS
    Data,          \* what the records of a page can be
    Blank,         \* those of a page that has been initialized
    MaxPages,      \* bound: the pages a file grows to
    NeverEmptied   \* bound: the caller keeps a page in the file once it has one

ASSUME DataAssumption == Blank \in Data
ASSUME BoundAssumption == MaxPages \in Nat /\ NeverEmptied \in BOOLEAN

VARIABLES
    header,    \* FileHeader
    pages,     \* pages[n]: page n of the file
    outcome    \* the last call, the page it was for if any, and how it ended

fileVars == <<header, pages>>
vars == <<header, pages, outcome>>

INVALID_NUMBER == 0
PageNo == 1 .. MaxPages
Link == {INVALID_NUMBER} \cup PageNo

(* isUsed, and the other pages. *)
Used == {n \in DOMAIN pages : pages[n].used}
Free == DOMAIN pages \ Used

(* A file just created: a header, and no pages. *)
NewHeader == [num_pages |-> 1, first_used_page |-> INVALID_NUMBER,
              num_free_pages |-> 0, first_free_page |-> INVALID_NUMBER]
NoPages == [n \in {} |-> INVALID_NUMBER]

Outcome(op, n, res) == [op |-> op, page |-> n, res |-> res]

Init ==
    /\ header = NewHeader
    /\ pages = NoPages
    /\ outcome = Outcome("create", INVALID_NUMBER, "ok")

Result(op, res) == outcome' = Outcome(op, INVALID_NUMBER, res)

-----------------------------------------------------------------------------
(* FileIterator: the way from page n that a loop makes which breaks at a   *)
(* page of S.  It leads over used pages only: reading a free one throws.   *)

IsWay(path, n, S) ==
    /\ path[1] = n
    /\ \A i \in DOMAIN path : i + 1 \in DOMAIN path =>
          path[i] \in Used \ S /\ path[i + 1] = pages[path[i]].next_page_number

Visited(n, S) ==
    UNION {{path[i] : i \in DOMAIN path} :
              path \in {w \in UNION {[1 .. l -> DOMAIN pages] : l \in 1 .. Cardinality(DOMAIN pages)} :
                            IsWay(w, n, S)}}

EndsAt(n, S) == Visited(n, S) \cap Used \cap S
ComesToEnd(n, S) ==
    \/ n = INVALID_NUMBER
    \/ \E p \in (Visited(n, S) \cap Used) \ S : pages[p].next_page_number = INVALID_NUMBER

(* from begin() *)
BreaksAt(S) == EndsAt(header.first_used_page, S)
Throws(S) == Visited(header.first_used_page, S) \cap Free # {}

Running == outcome.res # "circles"

-----------------------------------------------------------------------------
(* allocatePage.  A free page is taken before the file grows. *)

Reuses == header.num_free_pages > 0
NewNumber == IF Reuses THEN header.first_free_page ELSE header.num_pages

(* The link the page comes with. *)
OldLink(n) == IF n \in DOMAIN pages THEN pages[n].next_page_number ELSE INVALID_NUMBER

GoesFirst(n) == header.first_used_page = INVALID_NUMBER \/ header.first_used_page > n

(* The pages it can go after. *)
Precedes(n) ==
    {p \in Used : pages[p].next_page_number > n \/ pages[p].next_page_number = INVALID_NUMBER}

(* The free list without its head. *)
CountKept == header.num_free_pages   \* mutant
OneLess == header.num_free_pages - 1

HeaderWith(n) ==
    [num_pages |-> IF Reuses THEN header.num_pages ELSE header.num_pages + 1,
     first_used_page |-> IF GoesFirst(n) THEN n ELSE header.first_used_page,
     num_free_pages |-> IF Reuses THEN OneLess ELSE header.num_free_pages,
     first_free_page |-> IF Reuses THEN OldLink(n) ELSE header.first_free_page]

NewPage(link) == [used |-> TRUE, next_page_number |-> link, data |-> Blank]

(* The page before the new one is written back with the new link. *)
Relinked(p, link) == [pages[p] EXCEPT !.next_page_number = link]

Put(n, page, p, before) ==
    [m \in DOMAIN pages \cup {n} |-> CASE m = n -> page [] m = p -> before [] OTHER -> pages[m]]

AllocatePage ==
    LET n == NewNumber IN
    /\ Running
    /\ Reuses \/ header.num_pages <= MaxPages
    /\ \/ /\ GoesFirst(n)
          /\ LET link == IF header.first_used_page > n THEN header.first_used_page ELSE OldLink(n)
             IN pages' = Put(n, NewPage(link), n, NewPage(link))
          /\ header' = HeaderWith(n)
          /\ Result("allocatePage", "ok")
       \/ /\ ~GoesFirst(n)
          /\ \E p \in BreaksAt(Precedes(n)) :
                pages' = Put(n, NewPage(pages[p].next_page_number), p, Relinked(p, n))
          /\ header' = HeaderWith(n)
          /\ Result("allocatePage", "ok")
       \/ /\ ~GoesFirst(n) /\ BreaksAt(Precedes(n)) = {}
          /\ Result("allocatePage", IF Throws(Precedes(n)) THEN "InvalidPage" ELSE "circles")
          /\ UNCHANGED <<header, pages>>

-----------------------------------------------------------------------------
(* deletePage. *)

Cleared(link) == [used |-> FALSE, next_page_number |-> link, data |-> Blank]

(* What the page before a deleted one is linked to. *)
LinkPast(n) == pages[n].next_page_number

WithFree(n, first) ==
    [header EXCEPT !.first_used_page = first,
                   !.num_free_pages = @ + 1,
                   !.first_free_page = n]

DeletePage(n) ==
    LET pointing == {p \in Used : pages[p].next_page_number = n} IN
    /\ Running
    /\ NeverEmptied => Used # {n}
    /\ \/ /\ n \notin Used
          /\ Result("deletePage", "InvalidPage")
          /\ UNCHANGED <<header, pages>>
       \/ /\ n \in Used
          /\ n = header.first_used_page
          /\ pages' = [pages EXCEPT ![n] = Cleared(header.first_free_page)]
          /\ header' = WithFree(n, pages[n].next_page_number)
          /\ Result("deletePage", "ok")
       \/ /\ n \in Used
          /\ n # header.first_used_page
          /\ \E p \in BreaksAt(pointing) :
                pages' = Put(n, Cleared(header.first_free_page), p, Relinked(p, LinkPast(n)))
          /\ header' = WithFree(n, header.first_used_page)
          /\ Result("deletePage", "ok")
       \/ /\ n \in Used
          /\ n # header.first_used_page
          /\ BreaksAt(pointing) = {}
          /\ IF ComesToEnd(header.first_used_page, pointing)
             THEN /\ pages' = [pages EXCEPT ![n] = Cleared(header.first_free_page)]
                  /\ header' = WithFree(n, header.first_used_page)
                  /\ Result("deletePage", "ok")
             ELSE /\ Result("deletePage", IF Throws(pointing) THEN "InvalidPage" ELSE "circles")
                  /\ UNCHANGED <<header, pages>>

-----------------------------------------------------------------------------
(* readPage gives the caller a copy. *)
ReadPage(n) ==
    /\ Running
    /\ Result("readPage", IF n \in Used THEN "ok" ELSE "InvalidPage")
    /\ UNCHANGED fileVars

(* writePage keeps the link that the page has on disk. *)
LinkOfCopy(n) == INVALID_NUMBER   \* mutant: of a copy as old as the page
LinkOnDisk(n) == pages[n].next_page_number

(* Whoever was given page n by allocatePage or readPage may have a copy of *)
(* it still, with other records by now, and writes it back.                *)
WritePage(n, d) ==
    /\ Running
    /\ n \in DOMAIN pages
    /\ IF n \in Used
       THEN /\ pages' = [pages EXCEPT ![n] = [used |-> TRUE, data |-> d,
                                             next_page_number |-> LinkOnDisk(n)]]
            /\ outcome' = Outcome("writePage", n, "ok")
       ELSE /\ outcome' = Outcome("writePage", n, "InvalidPage")
            /\ UNCHANGED pages
    /\ UNCHANGED header

Next ==
    \/ AllocatePage
    \/ \E n \in PageNo :
          \/ DeletePage(n)
          \/ ReadPage(n)
          \/ \E d \in Data : WritePage(n, d)

Spec == Init /\ [][Next]_vars

-----------------------------------------------------------------------------
(* What must hold. *)

(* The pages of the file are numbered without a gap, and the links are     *)
(* page numbers.                                                           *)
TypeOK ==
    /\ header \in [num_pages : 1 .. MaxPages + 1, first_used_page : Link,
                   num_free_pages : 0 .. MaxPages, first_free_page : Link]
    /\ pages \in [1 .. header.num_pages - 1 ->
                     [used : BOOLEAN, next_page_number : Link, data : Data]]

(* n is the least of the numbers in S, or invalid if there is none. *)
IsLeast(n, S) == IF S = {} THEN n = INVALID_NUMBER ELSE n \in S /\ \A m \in S : n <= m

(* The list of used pages leads through all of them, and no other, in      *)
(* ascending order, which is what a FileIterator and a FileScan go by.     *)
UsedListExact ==
    /\ IsLeast(header.first_used_page, Used)
    /\ \A p \in Used : IsLeast(pages[p].next_page_number, {q \in Used : q > p})

(* The free list leads through all free pages, each once, and the header   *)
(* has counted them: no page is lost to the file, and none is handed out   *)
(* that is in use (the assertion at the end of allocatePage's first branch *)
(* follows).                                                               *)
FreeListExact ==
    /\ header.num_free_pages = Cardinality(Free)
    /\ \E list \in [1 .. header.num_free_pages + 1 -> Free \cup {INVALID_NUMBER}] :
          /\ list[1] = header.first_free_page
          /\ {list[i] : i \in DOMAIN list} = Free \cup {INVALID_NUMBER}
          /\ \A i \in 1 .. header.num_free_pages :
                list[i] \in Free /\ pages[list[i]].next_page_number = list[i + 1]

(* page.h: next_page_number is the number of the next used page. *)
NextIsUsed == \A p \in Used : pages[p].next_page_number \in Used \cup {INVALID_NUMBER}
=============================================================================

-------------------------------- MODULE Page --------------------------------
(***************************************************************************)
(* A slotted page, p3/src/page.cpp, and an iterator on it.  The slots grow *)
(* from the left of data_ and the records from the right, in the same      *)
(* memory, and nothing but the header says where the one ends and the      *)
(* other begins: a slot is whatever lies where the slot should be.         *)
(*                                                                         *)
(* data_ is kept cell by cell.  A cell of a record holds one of its bytes; *)
(* the first cell of a slot in use holds its offset and length, and of an  *)
(* unused one NUL, which is what its byte `used' amounts to.               *)
(***************************************************************************)
EXTENDS Integers, Sequences, FiniteSets

CONSTANTS
    DATA_SIZE,   \* cells in a page
    SLOT_SIZE,   \* sizeof(PageSlot), in cells
    Record,      \* the records there are: sequences of bytes
    NUL          \* the byte 0, which as `used' reads false

ASSUME SizeAssumption == DATA_SIZE \in Nat /\ SLOT_SIZE \in Nat \ {0}
ASSUME RecordAssumption == \A r \in Record : r \in Seq({r[j] : j \in DOMAIN r})

(* A byte is told from a slot. *)
ASSUME ByteAssumption ==
    \A o, l \in 0 .. DATA_SIZE : [item_offset |-> o, item_length |-> l] \notin
        {NUL} \cup UNION {{r[j] : j \in DOMAIN r} : r \in Record}

VARIABLES
    header_,    \* PageHeader
    data_,      \* data_[c]: cell c
    current,    \* the slot that a PageIterator is at; INVALID_SLOT at the end
    due,        \* history: what it found at begin() and has not come to
    outcome     \* the last call, and how it ended

vars == <<header_, data_, current, due, outcome>>

INVALID_SLOT == 0
Cell == 0 .. DATA_SIZE - 1
Byte == {NUL} \cup UNION {{r[j] : j \in DOMAIN r} : r \in Record}

(* The slots that lie within the page, and a record ID of another page. *)
SlotId == 1 .. DATA_SIZE \div SLOT_SIZE
Elsewhere == 0

Init ==
    /\ header_ = [free_space_lower_bound |-> 0, free_space_upper_bound |-> DATA_SIZE,
                  num_slots |-> 0, num_free_slots |-> 0]
    /\ data_ = [c \in Cell |-> NUL]
    /\ current = INVALID_SLOT
    /\ due = {}
    /\ outcome = [op |-> "Page", res |-> "ok"]

Ended(op, res) == outcome' = [op |-> op, res |-> res]
Refused(op, res) == Ended(op, res) /\ UNCHANGED <<header_, data_, current, due>>

(* What a page does that has taken a record's bytes for a slot depends on  *)
(* the bytes: offsets point anywhere, and writing there is undefined.  The *)
(* same goes for one that has moved its slots like bytes.                  *)
Running == outcome.res \notin {"SlotInUse", "undefined"}

-----------------------------------------------------------------------------
(* getSlot, for a slot that may not be one. *)
Start(i) == (i - 1) * SLOT_SIZE
Used(mem, i) == mem[Start(i)] # NUL
IsSlot(mem, i) == mem[Start(i)] \notin Byte

Array(hdr) == 1 .. hdr.num_slots
UsedSlots(hdr, mem) == {i \in Array(hdr) : Used(mem, i)}
Live == UsedSlots(header_, data_)

Cells(slot) == slot.item_offset .. slot.item_offset + slot.item_length - 1
RecordIn(slot) == [j \in 1 .. slot.item_length |-> data_[slot.item_offset + j - 1]]
Slot(i) == data_[Start(i)]

Least(S) == CHOOSE i \in S : \A j \in S : i <= j

getFreeSpace == header_.free_space_upper_bound - header_.free_space_lower_bound

spaceForItsBytes(r) == Len(r) <= getFreeSpace   \* mutant: and none for the slot
hasSpaceForRecord(r) ==
    Len(r) + (IF header_.num_free_slots = 0 THEN SLOT_SIZE ELSE 0) <= getFreeSpace

-----------------------------------------------------------------------------
(* getAvailableSlot: the slot, and what it leaves the header as. *)
AvailableSlot ==
    IF header_.num_free_slots > 0
    THEN Least(Array(header_) \ Live)
    ELSE header_.num_slots + 1

HeaderWithSlot ==
    IF header_.num_free_slots > 0
    THEN header_
    ELSE [header_ EXCEPT !.num_slots = @ + 1, !.num_free_slots = @ + 1,
                         !.free_space_lower_bound = Start(header_.num_slots + 2)]

(* insertRecordInSlot, for a slot that is not in use. *)
HeaderFilled(hdr, r) ==
    [hdr EXCEPT !.free_space_upper_bound = @ - Len(r), !.num_free_slots = @ - 1]

Filled(hdr, mem, i, r) ==
    LET offset == hdr.free_space_upper_bound - Len(r) IN
    [c \in Cell |->
        CASE c = Start(i) -> [item_offset |-> offset, item_length |-> Len(r)]
          [] c \in Start(i) + 1 .. Start(i + 1) - 1 -> NUL
          [] c \in offset .. hdr.free_space_upper_bound - 1 -> r[c - offset + 1]
          [] OTHER -> mem[c]]

InsertRecord(r) ==
    LET i == AvailableSlot IN
    /\ Running
    /\ \/ /\ ~hasSpaceForRecord(r)
          /\ Refused("insertRecord", "InsufficientSpace")
       \/ /\ hasSpaceForRecord(r)
          /\ Used(data_, i)
          /\ header_' = HeaderWithSlot
          /\ Ended("insertRecord", "SlotInUse")
          /\ UNCHANGED <<data_, current, due>>
       \/ /\ hasSpaceForRecord(r)
          /\ ~Used(data_, i)
          /\ header_' = HeaderFilled(HeaderWithSlot, r)
          /\ data_' = Filled(HeaderWithSlot, data_, i, r)
          /\ Ended("insertRecord", "ok")
          /\ UNCHANGED <<current, due>>

-----------------------------------------------------------------------------
(* deleteRecord.  The records that lie left of the deleted one move right  *)
(* over it; what they leave behind is not cleared.  They are taken to fill *)
(* the cells from the least of their offsets on, one after the other, and  *)
(* as many cells move as they have bytes.  (Records do not overlap, so     *)
(* that these are the cells of all of them, counted.)                      *)

NotBefore(i) == {}   \* mutant: the hole is left, and closed over it
Before(i) == {j \in Live : Slot(j).item_offset < Slot(i).item_offset}

move_offset(i) == Least({Slot(j).item_offset : j \in Before(i)})
move_bytes(i) == Cardinality(UNION {Cells(Slot(j)) : j \in Before(i)})

MovedCells(i) ==
    IF move_bytes(i) = 0 THEN {} ELSE move_offset(i) .. move_offset(i) + move_bytes(i) - 1

(* An empty record stays where it is when those that lie left of it go,    *)
(* and may be left astray in the free space, from where cells then move.   *)
(* If it lies in the slot array, slots move.                               *)
MovesSlots(i) == MovedCells(i) \cap 0 .. header_.free_space_lower_bound - 1 # {}

Closed(i) ==
    LET slot == Slot(i)
        shifted == {Start(j) : j \in Before(i)}
        moved == {c + slot.item_length : c \in MovedCells(i)}
    IN [c \in Cell |->
           CASE c \in shifted ->
                    [data_[c] EXCEPT !.item_offset = @ + slot.item_length]
             [] c \in Start(i) .. Start(i + 1) - 1 -> NUL
             [] c \in moved -> data_[c - slot.item_length]
             [] c \in Cells(slot) \ moved -> NUL
             [] OTHER -> data_[c]]

HeaderClosed(i) ==
    [header_ EXCEPT !.free_space_upper_bound = @ + Slot(i).item_length,
                    !.num_free_slots = @ + 1]

(* The last slot takes the unused ones before it along. *)
OnlyTheLast(hdr, mem) == hdr.num_slots - 1   \* mutant
LastUsed(hdr, mem) ==
    LET used == UsedSlots(hdr, mem)
    IN IF used = {} THEN 0 ELSE CHOOSE i \in used : \A j \in used : j <= i

Compacted(hdr, mem) ==
    LET n == LastUsed(hdr, mem) IN
    [hdr EXCEPT !.num_slots = n,
                !.num_free_slots = @ - (hdr.num_slots - n),
                !.free_space_lower_bound = @ - SLOT_SIZE * (hdr.num_slots - n)]

(* validateRecordId looks for the slot wherever the number says. *)
Valid(i) == i # Elsewhere /\ Used(data_, i)

IsRecord(i) == Valid(i) /\ IsSlot(data_, i)

NoRecord(op, i) ==
    \/ ~Valid(i) /\ Refused(op, "InvalidRecord")
    \/ Valid(i) /\ ~IsSlot(data_, i) /\ Refused(op, "undefined")

DeleteRecord(i) ==
    /\ Running
    /\ \/ /\ IsRecord(i)
          /\ ~MovesSlots(i)
          /\ data_' = Closed(i)
          /\ header_' = IF i = header_.num_slots
                        THEN Compacted(HeaderClosed(i), Closed(i))
                        ELSE HeaderClosed(i)
          /\ due' = due \ {i}
          /\ Ended("deleteRecord", "ok")
          /\ UNCHANGED current
       \/ IsRecord(i) /\ MovesSlots(i) /\ Refused("deleteRecord", "undefined")
       \/ NoRecord("deleteRecord", i)

(* Removed without compaction, and put in the same slot. *)
UpdateRecord(i, r) ==
    /\ Running
    /\ \/ /\ IsRecord(i)
          /\ Len(r) > getFreeSpace + Slot(i).item_length
          /\ Refused("updateRecord", "InsufficientSpace")
       \/ /\ IsRecord(i)
          /\ Len(r) <= getFreeSpace + Slot(i).item_length
          /\ ~MovesSlots(i)
          /\ header_' = HeaderFilled(HeaderClosed(i), r)
          /\ data_' = Filled(HeaderClosed(i), Closed(i), i, r)
          /\ Ended("updateRecord", "ok")
          /\ UNCHANGED <<current, due>>
       \/ /\ IsRecord(i)
          /\ Len(r) <= getFreeSpace + Slot(i).item_length
          /\ MovesSlots(i)
          /\ Refused("updateRecord", "undefined")
       \/ NoRecord("updateRecord", i)

GetRecord(i) ==
    /\ Running
    /\ \/ IsRecord(i) /\ Refused("getRecord", "ok")
       \/ NoRecord("getRecord", i)

-----------------------------------------------------------------------------
(* PageIterator, which goes from one used slot to the next, and from the   *)
(* end to the first again.                                                 *)

BeforeLast(start) == {i \in Live : i > start /\ i < header_.num_slots}   \* mutant
After(start) == {i \in Live : i > start}

NextUsedSlot(start) ==
    LET rest == After(start) IN IF rest = {} THEN INVALID_SLOT ELSE Least(rest)

MoveFrom(start, rest) ==
    /\ Running
    /\ current' = NextUsedSlot(start)
    /\ due' = rest \ {current'}
    /\ UNCHANGED <<header_, data_, outcome>>

Begin == MoveFrom(INVALID_SLOT, Live)

Advance == MoveFrom(current, IF current = INVALID_SLOT THEN Live ELSE due)

Next ==
    \/ \E r \in Record : InsertRecord(r)
    \/ \E i \in SlotId \cup {Elsewhere} :
          \/ \E r \in Record : UpdateRecord(i, r)
          \/ DeleteRecord(i)
          \/ GetRecord(i)
    \/ Begin
    \/ Advance

Spec == Init /\ [][Next]_vars

-----------------------------------------------------------------------------
(* What must hold. *)

(* The bounds in the header lie within the page and do not cross, and the  *)
(* iterator is at a slot that is or was one.                               *)
TypeOK ==
    /\ header_ \in [free_space_lower_bound : 0 .. DATA_SIZE,
                    free_space_upper_bound : 0 .. DATA_SIZE,
                    num_slots : 0 .. DATA_SIZE, num_free_slots : 0 .. DATA_SIZE]
    /\ header_.free_space_lower_bound <= header_.free_space_upper_bound
    /\ DOMAIN data_ = Cell
    /\ current \in SlotId \cup {INVALID_SLOT}
    /\ due \subseteq SlotId

(* The header tells where things are: the slots it counts as free are the  *)
(* unused ones, the last slot is in use, and the records fill the page     *)
(* from the upper bound to its end with no gap and no overlap, so that no  *)
(* space is lost however often records are deleted and updated.            *)
LayoutExact ==
    Running =>
        /\ header_.num_free_slots = Cardinality(Array(header_) \ Live)
        /\ header_.free_space_lower_bound = SLOT_SIZE * header_.num_slots
        /\ header_.num_slots \in Live \cup {0}
        /\ \A i, j \in Live : i # j => Cells(Slot(i)) \cap Cells(Slot(j)) = {}
        /\ UNION {Cells(Slot(i)) : i \in Live} = header_.free_space_upper_bound .. DATA_SIZE - 1

(* The page keeps its promises to those who use it: PageRecords, where a   *)
(* number stands for the record that its slot locates.  What it does when  *)
(* it moves records while a stray one is there is left open.               *)
Records == INSTANCE PageRecords
    WITH records <- [i \in {j \in Array(header_) : Used(data_, j) /\ IsSlot(data_, j)}
                        |-> RecordIn(Slot(i))]

Stray == \E i \in Live : Slot(i).item_offset < header_.free_space_upper_bound

RecordsSafe ==
    /\ Records!Init
    /\ [][\/ Records!Next
          \/ Stray /\ outcome'.op \in {"deleteRecord", "updateRecord"}]_Records!recordVars

(* A loop from begin() to end() comes to every record that is there all    *)
(* the while, though records are inserted, deleted and updated under it    *)
(* (PageIterator::getNextUsedSlot).                                        *)
IterationComplete ==
    \A i \in due : current # INVALID_SLOT /\ i > current

(* page.h: "Although a record's actual contents may be moved on the page,  *)
(* accessing a record by its slot is consistent": the deletion of a record *)
(* leaves the others what they were.                                       *)
OthersStay ==
    [][outcome' = [op |-> "deleteRecord", res |-> "ok"] =>
          \A i \in Live \cap Live' : RecordIn(Slot(i))' = RecordIn(Slot(i))]_vars

(* page.h: getAvailableSlot returns the number of an unused slot.          *)
SlotIsUnused ==
    Running => \A r \in Record : hasSpaceForRecord(r) => ~Used(data_, AvailableSlot)
=============================================================================

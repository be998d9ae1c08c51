---------------------------- MODULE PageRecords -----------------------------
(***************************************************************************)
(* What a page of records promises those who use it, with no bytes in it:  *)
(* a record stays under the number it was given, whatever is done to the   *)
(* others, and a record is refused only when the page is really full.      *)
(* Written from the public methods of Page (p3/src/page.cpp).  Page.tla is *)
(* shown to implement it.                                                  *)
(***************************************************************************)
EXTENDS Integers, Sequences, FiniteSets, FiniteSetsExt

CONSTANTS
    Record,      \* the records there are, as sequences
    DATA_SIZE,   \* the size of a page
    SLOT_SIZE    \* what a slot takes of it

VARIABLES
    records,     \* records[i]: the record with number i
    outcome      \* the last call, and how it ended

recordVars == <<records, outcome>>

(* The numbers in a page, and that of a record of another page. *)
Elsewhere == 0
Numbers == 1 .. DATA_SIZE \div SLOT_SIZE

Live == DOMAIN records

(* No number above is in use, and the lowest that is free. *)
Highest(S) == Max(S \cup {0})
Lowest == Min((1 .. Cardinality(Live) + 1) \ Live)

(* The bytes of the records, each by its number and its place. *)
Bytes(recs) == UNION {{i} \X (1 .. Len(recs[i])) : i \in DOMAIN recs}

Fits(recs) == Cardinality(Bytes(recs)) + SLOT_SIZE * Highest(DOMAIN recs) <= DATA_SIZE

With(i, r) == [j \in Live \cup {i} |-> IF j = i THEN r ELSE records[j]]

Ended(op, res) == outcome' = [op |-> op, res |-> res]
Refused(op, res) == Ended(op, res) /\ UNCHANGED records

Init == records = [i \in {} |-> <<>>] /\ outcome = [op |-> "Page", res |-> "ok"]

(* The lowest number that is free is given out.  When that is a new one,   *)
(* the page may break instead.                                             *)
InsertRecord(r) ==
    \/ /\ Fits(With(Lowest, r))
       /\ records' = With(Lowest, r)
       /\ Ended("insertRecord", "ok")
    \/ /\ ~Fits(With(Lowest, r))
       /\ Refused("insertRecord", "InsufficientSpace")
    \/ /\ Lowest > Highest(Live) /\ Fits(With(Lowest, r))
       /\ Refused("insertRecord", "SlotInUse")

(* A number that no record has is refused, or if it is above all that are  *)
(* in use may be taken for one.                                            *)
NoSuchRecord(op, i) ==
    /\ i \notin Live
    /\ \/ Refused(op, "InvalidRecord")
       \/ i > Highest(Live) /\ Refused(op, "undefined")

UpdateRecord(i, r) ==
    \/ /\ i \in Live
       /\ Fits(With(i, r))
       /\ records' = With(i, r)
       /\ Ended("updateRecord", "ok")
    \/ /\ i \in Live
       /\ ~Fits(With(i, r))
       /\ Refused("updateRecord", "InsufficientSpace")
    \/ NoSuchRecord("updateRecord", i)

DeleteRecord(i) ==
    \/ /\ i \in Live
       /\ records' = [j \in Live \ {i} |-> records[j]]
       /\ Ended("deleteRecord", "ok")
    \/ NoSuchRecord("deleteRecord", i)

GetRecord(i) ==
    \/ i \in Live /\ Refused("getRecord", "ok")
    \/ NoSuchRecord("getRecord", i)

Next ==
    \/ \E r \in Record : InsertRecord(r)
    \/ \E i \in Numbers \cup {Elsewhere} :
          \/ \E r \in Record : UpdateRecord(i, r)
          \/ DeleteRecord(i)
          \/ GetRecord(i)

Spec == Init /\ [][Next]_recordVars
=============================================================================

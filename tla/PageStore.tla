----------------------------- MODULE PageStore -----------------------------
(***************************************************************************)
(* What the buffer manager promises its callers, with no pool, no clock    *)
(* and no hash table: a store of pages whose content is what was last put  *)
(* there, in which a caller pins a page to use it, and which refuses a new *)
(* pin only when NumBufs different pages are pinned.  It is the contract   *)
(* the B+ tree and the file scan rely on, written from the public methods  *)
(* of BufMgr (p3/src/buffer.cpp) and not from their comments.  BufMgr.tla  *)
(* is shown to implement it.                                               *)
(***************************************************************************)
EXTENDS Naturals, FiniteSets

CONSTANTS
    File,      \* the open files
    PageNo,    \* the page numbers a file can use
    Data,      \* what a page can hold
    Empty,     \* what a new page holds
    Free,      \* marks a page number that is not in use in its file
    NumBufs    \* frames in the pool

VARIABLES
    content,   \* content[k]: what a read of page k finds
    pins,      \* pins[k]: how many times page k is pinned
    outcome    \* the last call and how it ended

storeVars == <<content, pins, outcome>>

PageKey == File \X PageNo

Ended(op, res) == outcome' = [op |-> op, res |-> res]

Pinned == {k \in PageKey : pins[k] > 0}

(* No frame is left for a page that is not pinned already. *)
Full == Cardinality(Pinned) = NumBufs

Init ==
    /\ content = [k \in PageKey |-> Free]
    /\ pins = [k \in PageKey |-> 0]
    /\ outcome = [op |-> "BufMgr", res |-> "ok"]

(* A call that finds no frame changes nothing. *)
Refused ==
    /\ Full
    /\ Ended("allocBuf", "BufferExceeded")
    /\ UNCHANGED <<content, pins>>

ReadPage(k) ==
    \/ /\ pins[k] > 0 \/ ~Full
       /\ content[k] # Free
       /\ pins' = [pins EXCEPT ![k] = @ + 1]
       /\ Ended("readPage", "ok")
       /\ UNCHANGED content
    \/ /\ ~Full
       /\ content[k] = Free
       /\ Ended("readPage", "InvalidPage")
       /\ UNCHANGED <<content, pins>>
    \/ pins[k] = 0 /\ Refused

UnPinPage(k) ==
    /\ IF pins[k] > 0
       THEN /\ pins' = [pins EXCEPT ![k] = @ - 1]
            /\ Ended("unPinPage", "ok")
       ELSE /\ \E res \in {"PageNotPinned", "HashNotFound"} : Ended("unPinPage", res)
            /\ UNCHANGED pins
    /\ UNCHANGED content

AllocPage(k) ==
    \/ /\ ~Full
       /\ content[k] = Free
       /\ content' = [content EXCEPT ![k] = Empty]
       /\ pins' = [pins EXCEPT ![k] = 1]
       /\ Ended("allocPage", "ok")
    \/ Refused

(* Through the pointer that readPage or allocPage returned. *)
ClientWrite(k, d) ==
    /\ pins[k] > 0
    /\ content' = [content EXCEPT ![k] = d]
    /\ Ended("write", "ok")
    /\ UNCHANGED pins

(* Flushing moves no content a reader can see; it is refused while a page  *)
(* of the file is pinned.                                                  *)
FlushFile(h) ==
    /\ IF \E p \in PageNo : pins[<<h, p>>] > 0
       THEN Ended("flushFile", "PagePinned")
       ELSE Ended("flushFile", "ok")
    /\ UNCHANGED <<content, pins>>

(* Refused when the page is not in the pool, whatever the caller knows of  *)
(* it; pins do not hold it back, and go with the page.                     *)
DisposePage(k) ==
    \/ /\ content[k] # Free
       /\ content' = [content EXCEPT ![k] = Free]
       /\ pins' = [pins EXCEPT ![k] = 0]
       /\ Ended("disposePage", "ok")
    \/ /\ pins[k] = 0
       /\ Ended("disposePage", "HashNotFound")
       /\ UNCHANGED <<content, pins>>

(* The manager is destroyed and a new one opened on the same files. *)
Restart ==
    /\ pins' = [k \in PageKey |-> 0]
    /\ Ended("BufMgr", "ok")
    /\ UNCHANGED content

Next ==
    \/ \E k \in PageKey :
          \/ ReadPage(k)
          \/ UnPinPage(k)
          \/ AllocPage(k)
          \/ DisposePage(k)
          \/ \E d \in Data : ClientWrite(k, d)
    \/ \E h \in File : FlushFile(h)
    \/ Restart

Spec == Init /\ [][Next]_storeVars
=============================================================================

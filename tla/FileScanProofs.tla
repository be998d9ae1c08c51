--------------------------- MODULE FileScanProofs ---------------------------
(***************************************************************************)
(* Proofs about the File objects and the scan, for files of any size and   *)
(* any number of callers that open, copy, assign, close and remove files   *)
(* and use their pages.                                                    *)
(***************************************************************************)
EXTENDS FileScan, PageFileProofs

-----------------------------------------------------------------------------
(* The maps and the File objects that they tell of. *)

HandlesOf(hd, n) == {h \in Handle : hd[h].filename = n}

FilesTyped(files, hd) ==
    /\ DOMAIN files \subseteq Name
    /\ IsFiniteSet(DOMAIN files)
    /\ files \in [DOMAIN files -> [count : Nat, stream : Nat]]
    /\ hd \in [Handle -> [filename : Name \cup {NoFile}, stream : Nat]]
    /\ \A h \in Handle : hd[h].filename = NoFile => hd[h] = Closed

NamesExact(files, hd) ==
    /\ \A h \in Handle : hd[h].filename # NoFile => hd[h].filename \in DOMAIN files
    /\ \A n \in DOMAIN files : \E h \in Handle : hd[h].filename = n

ExactOf(file, hd, n) ==
    /\ IsFiniteSet(HandlesOf(hd, n))
    /\ file.count = Cardinality(HandlesOf(hd, n))
    /\ \A h \in HandlesOf(hd, n) : hd[h].stream = file.stream

StreamsDiffer(files) ==
    \A n, m \in DOMAIN files : m # n => files[m].stream # files[n].stream

FilesExact(files, hd) ==
    /\ NamesExact(files, hd)
    /\ \A n \in DOMAIN files : ExactOf(files[n], hd, n)
    /\ StreamsDiffer(files)

(* What is told of a file depends on its own File objects only. *)
LEMMA ExactKept ==
    ASSUME NEW file, NEW hd, NEW hd2, NEW n, NEW h \in Handle,
           \A g \in Handle \ {h} : hd2[g] = hd[g],
           hd[h].filename # n, hd2[h].filename # n,
           ExactOf(file, hd, n)
    PROVE  ExactOf(file, hd2, n)
<1>1. HandlesOf(hd2, n) = HandlesOf(hd, n)
  BY DEF HandlesOf
<1>2. \A g \in HandlesOf(hd2, n) : hd2[g] = hd[g]
  BY DEF HandlesOf
<1> QED
  BY <1>1, <1>2 DEF ExactOf

(* A stream of its own: there are more numbers than streams in use. *)
LEMMA StreamIsNew ==
    ASSUME NEW files, IsFiniteSet(DOMAIN files),
           files \in [DOMAIN files -> [count : Nat, stream : Nat]]
    PROVE  /\ NewStream(files) \in Nat
           /\ \A n \in DOMAIN files : files[n].stream # NewStream(files)
<1> DEFINE C == Cardinality(DOMAIN files)
           taken == [n \in DOMAIN files |-> files[n].stream]
           T == {files[n].stream : n \in DOMAIN files}
<1>1. C \in Nat
  BY FS_CardinalityType
<1>2. taken \in Surjection(DOMAIN files, T)
  BY DEF Surjection
<1>3. IsFiniteSet(T) /\ Cardinality(T) <= C
  <2> HIDE DEF taken, T
  <2> QED
    BY <1>2, FS_Surjection
<1>4. \E s \in 1 .. C + 1 : s \notin T
  <2> SUFFICES ASSUME 1 .. C + 1 \subseteq T PROVE FALSE
    OBVIOUS
  <2>1. IsFiniteSet(1 .. C + 1) /\ Cardinality(1 .. C + 1) = C + 1
    <3>1. C + 1 \in Int /\ ~(1 > C + 1) /\ (C + 1) - 1 + 1 = C + 1
      BY <1>1
    <3> HIDE DEF C
    <3> QED
      BY <3>1, FS_Interval
  <2>2. Cardinality(1 .. C + 1) <= Cardinality(T)
    BY <1>3, FS_Subset
  <2>3. Cardinality(T) \in Nat
    BY <1>3, FS_CardinalityType
  <2> QED
    BY <1>1, <1>3, <2>1, <2>2, <2>3
<1>5. \E s \in 1 .. C + 1 : \A n \in DOMAIN files : files[n].stream # s
  BY <1>4
<1>6. /\ NewStream(files) \in 1 .. C + 1
      /\ \A n \in DOMAIN files : files[n].stream # NewStream(files)
  <2> DEFINE P(s) == \A n \in DOMAIN files : files[n].stream # s
  <2>1. NewStream(files) = CHOOSE s \in 1 .. C + 1 : P(s)
    BY DEF NewStream
  <2> HIDE DEF P
  <2>2. NewStream(files) \in 1 .. C + 1 /\ P(NewStream(files))
    BY <1>5, <2>1 DEF P
  <2> QED
    BY <2>2 DEF P
<1> QED
  BY <1>1, <1>6

(* A File object that is open on nothing is opened. *)
LEMMA OpenedExact ==
    ASSUME NEW files, NEW hd, FilesTyped(files, hd), FilesExact(files, hd),
           NEW h \in Handle, hd[h].filename = NoFile, NEW name \in Name,
           NEW opened, opened = Opened(files, name),
           NEW hd2,
           hd2 = [hd EXCEPT ![h] = [filename |-> name, stream |-> opened[name].stream]]
    PROVE  /\ FilesTyped(opened, hd2) /\ FilesExact(opened, hd2)
           /\ DOMAIN opened = DOMAIN files \cup {name}
<1>0. NoFile \notin Name
  BY NameAssumption
<1>1. /\ NewStream(files) \in Nat
      /\ \A n \in DOMAIN files : files[n].stream # NewStream(files)
  BY StreamIsNew DEF FilesTyped
<1>2. DOMAIN opened = DOMAIN files \cup {name}
  BY DEF Opened
<1>3. ASSUME NEW n \in DOMAIN opened, n # name
      PROVE  n \in DOMAIN files /\ opened[n] = files[n]
  BY <1>2, <1>3 DEF Opened
<1>4. /\ opened[name] \in [count : Nat, stream : Nat]
      /\ \A m \in DOMAIN files : m # name => files[m].stream # opened[name].stream
      /\ name \in DOMAIN files =>
            /\ opened[name].count = files[name].count + 1
            /\ opened[name].stream = files[name].stream
      /\ name \notin DOMAIN files => opened[name].count = 1
  <2>1. CASE name \in DOMAIN files
    <3>1. opened[name] = [files[name] EXCEPT !.count = @ + 1]
      BY <2>1 DEF Opened
    <3>2. files[name] \in [count : Nat, stream : Nat]
      BY <2>1 DEF FilesTyped
    <3> QED
      BY <2>1, <3>1, <3>2 DEF FilesExact, StreamsDiffer
  <2>2. CASE name \notin DOMAIN files
    <3>1. opened[name] = [count |-> 1, stream |-> NewStream(files)]
      BY <2>2 DEF Opened
    <3> QED
      BY <1>1, <2>2, <3>1
  <2> QED
    BY <2>1, <2>2
<1>5. /\ hd2[h] = [filename |-> name, stream |-> opened[name].stream]
      /\ \A g \in Handle \ {h} : hd2[g] = hd[g]
      /\ hd2 \in [Handle -> [filename : Name \cup {NoFile}, stream : Nat]]
  BY <1>4 DEF FilesTyped
<1>6. /\ HandlesOf(hd2, name) = HandlesOf(hd, name) \cup {h}
      /\ h \notin HandlesOf(hd, name)
      /\ \A n \in Name : n # name => HandlesOf(hd2, n) = HandlesOf(hd, n)
  BY <1>0, <1>5 DEF HandlesOf
<1>7. FilesTyped(opened, hd2)
  <2>1. IsFiniteSet(DOMAIN opened)
    BY <1>2, FS_AddElement DEF FilesTyped
  <2>2. \A n \in DOMAIN opened : opened[n] \in [count : Nat, stream : Nat]
    BY <1>3, <1>4 DEF FilesTyped
  <2>3. opened \in [DOMAIN opened -> [count : Nat, stream : Nat]]
    <3>1. opened = [n \in DOMAIN opened |-> opened[n]]
      BY <1>2 DEF Opened
    <3> QED
      BY <2>2, <3>1
  <2>4. \A g \in Handle : hd2[g].filename = NoFile => hd2[g] = Closed
    BY <1>0, <1>5 DEF FilesTyped
  <2> QED
    BY <1>2, <1>5, <2>1, <2>3, <2>4 DEF FilesTyped
<1>8. NamesExact(opened, hd2)
  <2>1. \A g \in Handle : hd2[g].filename # NoFile => hd2[g].filename \in DOMAIN opened
    BY <1>2, <1>5 DEF FilesExact, NamesExact
  <2>2. ASSUME NEW n \in DOMAIN files
        PROVE  \E g \in Handle : hd2[g].filename = n
    <3>1. PICK g \in Handle : hd[g].filename = n
      BY DEF FilesExact, NamesExact
    <3>2. n # NoFile
      BY <1>0 DEF FilesTyped
    <3> QED
      BY <1>5, <3>1, <3>2
  <2> QED
    BY <1>2, <1>5, <2>1, <2>2 DEF NamesExact
<1>9. ExactOf(opened[name], hd2, name)
  <2>1. CASE name \in DOMAIN files
    <3>1. ExactOf(files[name], hd, name)
      BY <2>1 DEF FilesExact
    <3>2. /\ IsFiniteSet(HandlesOf(hd, name) \cup {h})
          /\ Cardinality(HandlesOf(hd, name) \cup {h}) = Cardinality(HandlesOf(hd, name)) + 1
      BY <1>6, <3>1, FS_AddElement DEF ExactOf
    <3>3. \A g \in HandlesOf(hd2, name) : hd2[g].stream = opened[name].stream
      BY <1>4, <1>5, <1>6, <2>1, <3>1 DEF ExactOf, HandlesOf
    <3> QED
      BY <1>4, <1>6, <2>1, <3>1, <3>2, <3>3 DEF ExactOf
  <2>2. CASE name \notin DOMAIN files
    <3>1. HandlesOf(hd, name) = {}
      BY <1>0, <2>2 DEF FilesExact, NamesExact, HandlesOf
    <3>2. HandlesOf(hd2, name) = {h}
      BY <1>6, <3>1
    <3>3. IsFiniteSet({h}) /\ Cardinality({h}) = 1
      BY FS_Singleton
    <3> QED
      BY <1>4, <1>5, <2>2, <3>2, <3>3 DEF ExactOf
  <2> QED
    BY <2>1, <2>2
<1>10. ASSUME NEW n \in DOMAIN opened, n # name
       PROVE  ExactOf(opened[n], hd2, n)
  <2>1. n \in DOMAIN files /\ opened[n] = files[n] /\ n # NoFile
    BY <1>0, <1>3, <1>10 DEF FilesTyped
  <2>2. ExactOf(files[n], hd, n)
    BY <2>1 DEF FilesExact
  <2> QED
    BY <1>5, <1>10, <2>1, <2>2, ExactKept
<1>11. StreamsDiffer(opened)
  <2>1. ASSUME NEW n \in DOMAIN opened, n # name
        PROVE  opened[n].stream # opened[name].stream
    BY <1>3, <1>4, <2>1
  <2>2. ASSUME NEW n \in DOMAIN opened, NEW m \in DOMAIN opened, m # n, m # name, n # name
        PROVE  opened[m].stream # opened[n].stream
    <3>1. files[m].stream # files[n].stream
      BY <1>3, <2>2 DEF FilesExact, StreamsDiffer
    <3> QED
      BY <1>3, <2>2, <3>1
  <2> QED
    BY <2>1, <2>2 DEF StreamsDiffer
<1>12. FilesExact(opened, hd2)
  BY <1>8, <1>9, <1>10, <1>11 DEF FilesExact
<1> QED
  BY <1>2, <1>7, <1>12

(* An open File object is closed. *)
LEMMA ClosedExact ==
    ASSUME NEW files, NEW hd, FilesTyped(files, hd), FilesExact(files, hd),
           NEW h \in Handle, NEW name, hd[h].filename = name, name # NoFile,
           NEW closed, closed = ClosedOnce(files, name),
           NEW hd2, hd2 = [hd EXCEPT ![h] = Closed]
    PROVE  /\ FilesTyped(closed, hd2) /\ FilesExact(closed, hd2)
           /\ DOMAIN closed \subseteq DOMAIN files
<1>0. name \in DOMAIN files /\ name \in Name /\ NoFile \notin Name
  BY NameAssumption DEF FilesExact, NamesExact, FilesTyped
<1>1. /\ hd2[h] = Closed
      /\ \A g \in Handle \ {h} : hd2[g] = hd[g]
      /\ hd2 \in [Handle -> [filename : Name \cup {NoFile}, stream : Nat]]
  BY DEF FilesTyped, Closed
<1>2. /\ HandlesOf(hd2, name) = HandlesOf(hd, name) \ {h}
      /\ h \in HandlesOf(hd, name)
  BY <1>0, <1>1 DEF HandlesOf, Closed
<1>3. ExactOf(files[name], hd, name)
  BY <1>0 DEF FilesExact
<1>4. /\ IsFiniteSet(HandlesOf(hd2, name))
      /\ Cardinality(HandlesOf(hd2, name)) = files[name].count - 1
  <2>1. IsFiniteSet(HandlesOf(hd, name)) /\ files[name].count = Cardinality(HandlesOf(hd, name))
    BY <1>3 DEF ExactOf
  <2>2. /\ IsFiniteSet(HandlesOf(hd, name) \ {h})
        /\ Cardinality(HandlesOf(hd, name) \ {h}) = Cardinality(HandlesOf(hd, name)) - 1
    BY <1>2, <2>1, FS_RemoveElement
  <2> QED
    BY <1>2, <2>1, <2>2
<1>5. ASSUME NEW n \in DOMAIN files, n # name
      PROVE  ExactOf(files[n], hd2, n)
  <2>1. ExactOf(files[n], hd, n) /\ n # NoFile
    BY <1>0 DEF FilesExact, FilesTyped
  <2>2. hd2[h].filename # n
    BY <1>1, <2>1 DEF Closed
  <2> QED
    BY <1>1, <1>5, <2>1, <2>2, ExactKept
<1>6. \A g \in Handle : hd2[g].filename = NoFile => hd2[g] = Closed
  BY <1>1 DEF FilesTyped
<1>7. \A g \in Handle : hd2[g].filename # NoFile =>
          hd2[g].filename \in DOMAIN files /\ hd2[g] = hd[g] /\ g # h
  BY <1>1 DEF FilesExact, NamesExact, Closed
<1>8. CASE files[name].count = 1
  <2>1. HandlesOf(hd2, name) = {}
    BY <1>4, <1>8, FS_EmptySet
  <2>2. closed = [n \in DOMAIN files \ {name} |-> files[n]]
    BY <1>8 DEF ClosedOnce
  <2>3. FilesTyped(closed, hd2)
    <3>1. IsFiniteSet(DOMAIN files \ {name})
      BY FS_RemoveElement DEF FilesTyped
    <3> QED
      BY <1>1, <1>6, <2>2, <3>1 DEF FilesTyped
  <2>4. NamesExact(closed, hd2)
    <3>1. \A g \in Handle : hd2[g].filename # name
      BY <2>1 DEF HandlesOf
    <3>2. ASSUME NEW n \in DOMAIN files, n # name
          PROVE  \E g \in Handle : hd2[g].filename = n
      BY <1>1, <3>2 DEF FilesExact, NamesExact
    <3> QED
      BY <1>7, <2>2, <3>1, <3>2 DEF NamesExact
  <2>5. \A n \in DOMAIN closed : ExactOf(closed[n], hd2, n)
    BY <1>5, <2>2
  <2>6. StreamsDiffer(closed)
    BY <2>2 DEF FilesExact, StreamsDiffer
  <2> QED
    BY <2>2, <2>3, <2>4, <2>5, <2>6 DEF FilesExact
<1>9. CASE files[name].count # 1
  <2>1. closed = [files EXCEPT ![name].count = @ - 1]
    BY <1>9 DEF ClosedOnce
  <2>2. files[name] \in [count : Nat, stream : Nat]
    BY <1>0 DEF FilesTyped
  <2>3. files[name].count - 1 \in Nat /\ files[name].count - 1 # 0
    <3>1. Cardinality(HandlesOf(hd2, name)) \in Nat
      BY <1>4, FS_CardinalityType
    <3> QED
      BY <1>4, <1>9, <2>2, <3>1
  <2>4. PICK g \in Handle : g # h /\ hd[g].filename = name /\ hd2[g] = hd[g]
    <3>1. HandlesOf(hd2, name) # {}
      BY <1>4, <2>3, FS_EmptySet
    <3> QED
      BY <1>1, <1>2, <3>1 DEF HandlesOf
  <2>5. /\ DOMAIN closed = DOMAIN files
        /\ closed \in [DOMAIN files -> [count : Nat, stream : Nat]]
        /\ closed[name].stream = files[name].stream
        /\ closed[name].count = files[name].count - 1
        /\ \A n \in DOMAIN files : n # name => closed[n] = files[n]
    BY <1>0, <2>1, <2>2, <2>3 DEF FilesTyped
  <2>6. FilesTyped(closed, hd2)
    BY <1>1, <1>6, <2>5 DEF FilesTyped
  <2>7. NamesExact(closed, hd2)
    <3>1. ASSUME NEW n \in DOMAIN files, n # name
          PROVE  \E i \in Handle : hd2[i].filename = n
      BY <1>1, <3>1 DEF FilesExact, NamesExact
    <3> QED
      BY <1>7, <2>4, <2>5, <3>1 DEF NamesExact
  <2>8. ExactOf(closed[name], hd2, name)
    <3>1. \A i \in HandlesOf(hd2, name) : hd2[i].stream = closed[name].stream
      BY <1>1, <1>2, <1>3, <2>5 DEF ExactOf, HandlesOf
    <3> QED
      BY <1>4, <2>5, <3>1 DEF ExactOf
  <2>9. \A n \in DOMAIN closed : ExactOf(closed[n], hd2, n)
    BY <1>5, <2>5, <2>8
  <2>10. StreamsDiffer(closed)
    <3>1. \A n \in DOMAIN closed : closed[n].stream = files[n].stream
      BY <2>5
    <3> QED
      BY <2>5, <3>1 DEF FilesExact, StreamsDiffer
  <2> QED
    BY <2>5, <2>6, <2>7, <2>9, <2>10 DEF FilesExact
<1> QED
  BY <1>8, <1>9

-----------------------------------------------------------------------------
(* The invariant: the maps tell of the File objects, and no open file is   *)
(* removed.                                                                *)

HandlesInv ==
    /\ FilesTyped(open_files, handle)
    /\ FilesExact(open_files, handle)
    /\ DOMAIN open_files \subseteq on_disk

LEMMA InvIsExact == HandlesInv => HandlesExact
<1> SUFFICES ASSUME HandlesInv PROVE HandlesExact
  OBVIOUS
<1>1. NoFile \notin DOMAIN open_files
  BY NameAssumption DEF HandlesInv, FilesTyped
<1>2. DOMAIN open_files = {handle[h].filename : h \in Handle} \ {NoFile}
  BY <1>1 DEF HandlesInv, FilesExact, NamesExact
<1>3. \A n : On(n) = HandlesOf(handle, n)
  BY DEF On, HandlesOf
<1>4. \A n \in DOMAIN open_files :
          /\ open_files[n].count = Cardinality(On(n))
          /\ \A h \in On(n) : handle[h].stream = open_files[n].stream
  BY <1>3 DEF HandlesInv, FilesExact, ExactOf
<1>5. \A n, m \in DOMAIN open_files : m # n => open_files[m].stream # open_files[n].stream
  BY DEF HandlesInv, FilesExact, StreamsDiffer
<1> QED
  BY <1>2, <1>4, <1>5 DEF HandlesInv, HandlesExact

(* No File object exists: at the start, and when the program has ended. *)
NoneOpen(files, hd) == files = [n \in {} |-> 0] /\ hd = [h \in Handle |-> Closed]

LEMMA NoneOpenExact ==
    ASSUME NEW files, NEW hd, NoneOpen(files, hd)
    PROVE  FilesTyped(files, hd) /\ FilesExact(files, hd) /\ DOMAIN files = {}
<1>1. files = [n \in {} |-> 0] /\ hd = [h \in Handle |-> Closed]
  BY DEF NoneOpen
<1>2. DOMAIN files = {} /\ IsFiniteSet({})
  BY <1>1, FS_EmptySet
<1>3. hd \in [Handle -> [filename : Name \cup {NoFile}, stream : Nat]]
  BY <1>1 DEF Closed
<1>4. FilesTyped(files, hd)
  BY <1>1, <1>2, <1>3 DEF FilesTyped
<1>5. FilesExact(files, hd)
  BY <1>1, <1>2 DEF FilesExact, NamesExact, StreamsDiffer, Closed
<1> QED
  BY <1>2, <1>4, <1>5

LEMMA InitInv == ScanInit => HandlesInv
BY NoneOpenExact DEF ScanInit, HandlesInit, NoneOpen, HandlesInv

LEMMA ClosedIsNoFile ==
    ASSUME HandlesInv, NEW h \in Handle
    PROVE  handle[h] = Closed <=> handle[h].filename = NoFile
BY DEF HandlesInv, FilesTyped, Closed

LEMMA ConstructInv ==
    ASSUME HandlesInv, NEW h \in Handle, NEW name \in Name, NEW create_new,
           Construct(h, name, create_new)
    PROVE  HandlesInv'
<1>1. CASE UNCHANGED handleVars
  BY <1>1 DEF HandlesInv, handleVars
<1>2. CASE Attach(h, open_files, name) /\ on_disk' = on_disk \cup {name}
  <2>1. handle[h].filename = NoFile
    BY ClosedIsNoFile DEF Construct
  <2>2. /\ FilesTyped(open_files', handle') /\ FilesExact(open_files', handle')
        /\ DOMAIN open_files' = DOMAIN open_files \cup {name}
    BY <1>2, <2>1, OpenedExact DEF Attach, HandlesInv
  <2> QED
    BY <1>2, <2>2 DEF HandlesInv
<1> QED
  BY <1>1, <1>2 DEF Construct

LEMMA AssignInv ==
    ASSUME HandlesInv, NEW h \in Handle, NEW rhs \in Handle, Assign(h, rhs)
    PROVE  HandlesInv'
<1> DEFINE from == handle[h].filename
           to == handle[rhs].filename
           files == ClosedOnce(open_files, from)
           hd == [handle EXCEPT ![h] = Closed]
<1>1. from # NoFile /\ to # NoFile
  BY ClosedIsNoFile DEF Assign
<1>2. to \in DOMAIN open_files /\ to \in Name
  BY <1>1 DEF HandlesInv, FilesExact, NamesExact, FilesTyped
<1>3. /\ FilesTyped(files, hd) /\ FilesExact(files, hd)
      /\ DOMAIN files \subseteq DOMAIN open_files
  <2> HIDE DEF from, files, hd
  <2> SUFFICES ASSUME NEW f, f = files, NEW d, d = hd
               PROVE  /\ FilesTyped(f, d) /\ FilesExact(f, d)
                      /\ DOMAIN f \subseteq DOMAIN open_files
    OBVIOUS
  <2> QED
    BY <1>1, ClosedExact DEF HandlesInv, from, files, hd
<1>4. handle \in [Handle -> [filename : Name \cup {NoFile}, stream : Nat]]
  BY DEF HandlesInv, FilesTyped
<1>5. hd[h].filename = NoFile
  BY <1>4 DEF Closed
<1>6. /\ open_files' = Opened(files, to)
      /\ handle' = [hd EXCEPT ![h] = [filename |-> to, stream |-> open_files'[to].stream]]
  BY <1>4 DEF Assign, Attach
<1>7. /\ FilesTyped(open_files', handle') /\ FilesExact(open_files', handle')
      /\ DOMAIN open_files' = DOMAIN files \cup {to}
  <2> HIDE DEF files, hd, to
  <2> QED
    BY <1>2, <1>3, <1>5, <1>6, OpenedExact
<1> QED
  BY <1>2, <1>3, <1>7 DEF HandlesInv, Assign

(* A File object is destroyed, a caller's or that of the scan. *)
LEMMA CloseInv ==
    ASSUME HandlesInv, NEW h \in Handle, NEW name, handle[h].filename = name, name # NoFile,
           open_files' = ClosedOnce(open_files, name),
           handle' = [handle EXCEPT ![h] = Closed], on_disk' = on_disk
    PROVE  HandlesInv'
<1>1. /\ FilesTyped(open_files', handle') /\ FilesExact(open_files', handle')
      /\ DOMAIN open_files' \subseteq DOMAIN open_files
  BY ClosedExact DEF HandlesInv
<1> QED
  BY <1>1 DEF HandlesInv

LEMMA RemoveInv ==
    ASSUME HandlesInv, NEW name \in Name, Remove(name)
    PROVE  HandlesInv'
BY DEF HandlesInv, Remove, NotOpen, handleVars

LEMMA HandleNextInv ==
    ASSUME HandlesInv, NEW H \in SUBSET Handle, HandleNext(H)
    PROVE  HandlesInv'
<1>1. ASSUME NEW h \in H, NEW name \in Name, NEW create_new \in BOOLEAN,
             Construct(h, name, create_new)
      PROVE  HandlesInv'
  BY <1>1, ConstructInv
<1>2. ASSUME NEW h \in H, NEW other \in H, CopyConstruct(h, other)
      PROVE  HandlesInv'
  <2>1. handle[other].filename # NoFile
    BY <1>2, ClosedIsNoFile DEF CopyConstruct
  <2>2. handle[other].filename \in Name
    BY <1>2, <2>1 DEF HandlesInv, FilesTyped
  <2> QED
    BY <1>2, <2>2, ConstructInv DEF CopyConstruct
<1>3. ASSUME NEW h \in H, NEW other \in H, Assign(h, other)
      PROVE  HandlesInv'
  BY <1>3, AssignInv
<1>4. ASSUME NEW h \in H, Destroy(h)
      PROVE  HandlesInv'
  <2>1. handle[h].filename # NoFile
    BY <1>4, ClosedIsNoFile DEF Destroy
  <2> QED
    BY <1>4, <2>1, CloseInv DEF Destroy
<1>5. ASSUME NEW name \in Name, Remove(name)
      PROVE  HandlesInv'
  BY <1>5, RemoveInv
<1> QED
  BY <1>1, <1>2, <1>3, <1>4, <1>5 DEF HandleNext

-----------------------------------------------------------------------------
(* The scan closes the file of its own File object, so that has to be open *)
(* for as long as the scan is there; the callers leave it alone.           *)

ScanHolds == scan.exists => handle[SCAN].filename = REL

Inv == HandlesInv /\ ScanHolds

LEMMA CallersLeaveIt ==
    ASSUME HandlesInv, HandleNext(Callers)
    PROVE  handle'[SCAN] = handle[SCAN]
<1>1. SCAN \in Handle /\ SCAN \notin Callers /\ Callers \subseteq Handle
  BY ScanAssumption DEF Callers
<1>2. ASSUME NEW h \in Callers, NEW v, handle' = [handle EXCEPT ![h] = v]
      PROVE  handle'[SCAN] = handle[SCAN]
  BY <1>1, <1>2 DEF HandlesInv, FilesTyped
<1>3. ASSUME NEW h \in Callers, NEW name, NEW create_new, Construct(h, name, create_new)
      PROVE  handle'[SCAN] = handle[SCAN]
  BY <1>2, <1>3 DEF Construct, Attach, handleVars
<1>4. ASSUME NEW h \in Callers, NEW other \in Callers, CopyConstruct(h, other) \/ Assign(h, other)
      PROVE  handle'[SCAN] = handle[SCAN]
  BY <1>2, <1>3, <1>4 DEF CopyConstruct, Assign, Attach
<1>5. ASSUME NEW h \in Callers, Destroy(h)
      PROVE  handle'[SCAN] = handle[SCAN]
  BY <1>2, <1>5 DEF Destroy
<1>6. ASSUME NEW name, Remove(name)
      PROVE  handle'[SCAN] = handle[SCAN]
  BY <1>6 DEF Remove, handleVars
<1> QED
  BY <1>3, <1>4, <1>5, <1>6 DEF HandleNext

LEMMA StepInv == Inv /\ [SystemNext]_systemVars => Inv'
<1> SUFFICES ASSUME Inv, [SystemNext]_systemVars PROVE Inv'
  OBVIOUS
<1> USE DEF Inv
<1>0. SCAN \in Handle /\ REL \in Name /\ REL # NoFile
  BY ScanAssumption, NameAssumption
<1>1. ASSUME UNCHANGED handleVars, scan'.exists => scan.exists PROVE Inv'
  BY <1>1 DEF HandlesInv, ScanHolds, handleVars
<1>2. CASE Others
  <2>1. CASE HandleNext(Callers)
    <3>1. HandlesInv'
      BY <2>1, HandleNextInv DEF Callers
    <3>2. ScanHolds'
      BY <1>2, <2>1, CallersLeaveIt DEF Others, ScanHolds
    <3> QED
      BY <3>1, <3>2
  <2>2. CASE PageNext(Callers)
    BY <1>1, <1>2, <2>2 DEF Others, PageNext
  <2> QED
    BY <1>2, <2>1, <2>2 DEF Others, HandlesNext
<1>3. CASE OpenScan
  <2>1. HandlesInv'
    BY <1>0, <1>3, ConstructInv DEF OpenScan
  <2>2. ScanHolds'
    <3>1. CASE handle'[SCAN] = Closed
      BY <1>3, <3>1 DEF OpenScan, ScanHolds
    <3>2. CASE handle'[SCAN] # Closed
      <4>1. Attach(SCAN, open_files, REL)
        BY <1>3, <3>2 DEF OpenScan, Construct, handleVars
      <4> QED
        BY <1>0, <4>1 DEF Attach, ScanHolds, HandlesInv, FilesTyped
    <3> QED
      BY <3>1, <3>2
  <2> QED
    BY <2>1, <2>2
<1>4. CASE CloseScan
  <2>1. CASE NoneOpen(open_files', handle') /\ scan' = NoScan
    <3>1. FilesTyped(open_files', handle') /\ FilesExact(open_files', handle') /\ DOMAIN open_files' = {}
      BY <2>1, NoneOpenExact
    <3> QED
      BY <2>1, <3>1 DEF HandlesInv, ScanHolds, NoScan
  <2>2. CASE /\ scan.exists /\ scan' = NoScan
             /\ open_files' = ClosedOnce(open_files, REL)
             /\ handle' = [handle EXCEPT ![SCAN] = Closed]
             /\ UNCHANGED on_disk
    <3>1. HandlesInv'
      BY <1>0, <2>2, CloseInv DEF ScanHolds
    <3> QED
      BY <2>2, <3>1 DEF ScanHolds, NoScan
  <2> QED
    BY <1>4, <2>1, <2>2 DEF CloseScan, NoneOpen
<1>5. CASE MarkDirty
  BY <1>1, <1>5 DEF MarkDirty
<1>6. CASE ScanNext
  BY <1>1, <1>6 DEF ScanNext
<1>7. ASSUME NEW n \in PageNo, Evict(n) PROVE Inv'
  BY <1>1, <1>7 DEF Evict
<1>8. CASE UNCHANGED systemVars
  BY <1>1, <1>8 DEF systemVars, allVars, scanVars
<1> QED
  BY <1>2, <1>3, <1>4, <1>5, <1>6, <1>7, <1>8 DEF SystemNext, ScanStep

LEMMA InvHolds == SystemSpec => []Inv
<1>1. ScanInit => Inv
  BY InitInv DEF Inv, ScanHolds, ScanInit, NoScan
<1> QED
  BY <1>1, StepInv, PTL DEF SystemSpec

(* file.cpp, openIfNeeded and close: whatever File objects are constructed,*)
(* copied, assigned (to themselves too) and destroyed, on any number of    *)
(* files and in any order, beside a scan that has one of its own, the      *)
(* counts tell how many are open on each file, those of a file share its   *)
(* stream and no other, and no file that is open has been removed.         *)
THEOREM HandlesTrue == SystemSpec => []HandlesExact
<1>1. Inv => HandlesExact
  BY InvIsExact DEF Inv
<1> QED
  BY <1>1, InvHolds, PTL

-----------------------------------------------------------------------------
(* The pages of a file that is open. *)

LEMMA PagesStay ==
    ASSUME Next
    PROVE  DOMAIN pages \subseteq DOMAIN pages'
<1>1. CASE AllocatePage
  BY <1>1 DEF AllocatePage, Put
<1>2. ASSUME NEW n \in PageNo, DeletePage(n)
      PROVE  DOMAIN pages \subseteq DOMAIN pages'
  BY <1>2 DEF DeletePage, Put
<1>3. ASSUME NEW n \in PageNo, ReadPage(n)
      PROVE  DOMAIN pages \subseteq DOMAIN pages'
  BY <1>3 DEF ReadPage, fileVars
<1>4. ASSUME NEW n \in PageNo, NEW d \in Data, WritePage(n, d)
      PROVE  DOMAIN pages \subseteq DOMAIN pages'
  BY <1>4 DEF WritePage
<1> QED
  BY <1>1, <1>2, <1>3, <1>4 DEF Next

(* file.h: remove throws FileOpenException if the file is open.  As long   *)
(* as no caller creates a file that is open, which the constructor should  *)
(* refuse and does not, no page goes from a file that a File object is     *)
(* open on.                                                                *)
THEOREM PagesOutlast ==
    ASSUME ~Recreates
    PROVE  SystemSpec => PagesOutlastOpen
<1> DEFINE Stay == \A n \in Used : n \in DOMAIN pages' \/ On(REL) = {}
<1>1. ASSUME Inv, [SystemNext]_systemVars PROVE [Stay]_allVars
  <2> USE DEF Inv
  <2>1. ASSUME DOMAIN pages \subseteq DOMAIN pages' PROVE Stay
    BY <2>1 DEF Used
  <2>2. ASSUME REL \notin DOMAIN open_files PROVE Stay
    BY <1>1, <2>2, NameAssumption DEF HandlesInv, FilesExact, NamesExact, On
  <2>3. ASSUME NEW h, NEW name, NEW create_new, Construct(h, name, create_new)
        PROVE  Stay
    BY <2>1, <2>2, <2>3 DEF Construct, fileVars
  <2>4. ASSUME HandleNext(Callers) PROVE Stay
    <3>1. ASSUME NEW h, NEW other, CopyConstruct(h, other) \/ Assign(h, other) \/ Destroy(h)
          PROVE  Stay
      BY <2>1, <2>3, <3>1 DEF CopyConstruct, Assign, Destroy, fileVars
    <3>2. ASSUME NEW name, Remove(name) PROVE Stay
      BY <2>1, <2>2, <3>2 DEF Remove, NotOpen, fileVars
    <3> QED
      BY <2>3, <2>4, <3>1, <3>2 DEF HandleNext
  <2>5. CASE Others
    BY <2>1, <2>4, <2>5, PagesStay DEF Others, HandlesNext, PageNext
  <2>6. CASE OpenScan
    BY <2>3, <2>6 DEF OpenScan
  <2>7. CASE CloseScan
    BY <2>1, <2>7 DEF CloseScan, WrittenBack, fileVars
  <2>8. CASE MarkDirty
    BY <2>1, <2>8 DEF MarkDirty, fileVars
  <2>9. CASE ScanNext
    BY <2>1, <2>9 DEF ScanNext, fileVars
  <2>10. ASSUME NEW n \in PageNo, Evict(n) PROVE Stay
    BY <2>1, <2>10 DEF Evict, WrittenBack
  <2>11. CASE UNCHANGED systemVars
    BY <2>11 DEF systemVars
  <2> HIDE DEF Stay
  <2> QED
    BY <1>1, <2>5, <2>6, <2>7, <2>8, <2>9, <2>10, <2>11 DEF SystemNext, ScanStep
<1> QED
  BY <1>1, InvHolds, PTL DEF SystemSpec, PagesOutlastOpen

-----------------------------------------------------------------------------
(* The scan.  Its invariant takes in the lists of pages, which it goes by. *)

AnyFrame == [data : Data, dirty : BOOLEAN, pins : {0, 1}, hashed : BOOLEAN]

AnyScan == [exists : BOOLEAN, filePageIter : Link, curPage : Link, slot : Nat, curDirtyFlag : BOOLEAN]

(* Frames of which page p has one that is pinned, and no other has. *)
FramesFine(frs, p) ==
    /\ DOMAIN frs \subseteq PageNo
    /\ \A n \in DOMAIN frs :
          /\ frs[n] \in AnyFrame
          /\ frs[n].pins = IF n = p THEN 1 ELSE 0
          /\ frs[n].dirty => n \in marked

LostFine(L) ==
    \A f \in L : f.frame \in AnyFrame /\ f.frame.pins = 0 /\ (f.frame.dirty => f.page \in marked)

ScanFine ==
    /\ scan \in AnyScan
    /\ ~scan.exists => scan.curPage = NULL
    /\ scan.curPage # NULL =>
          /\ scan.curPage \in DOMAIN frames /\ scan.filePageIter = scan.curPage
          /\ scan.curDirtyFlag => scan.curPage \in marked

(* The pages that the scan has yet to come to lie ahead of it. *)
DueAhead ==
    /\ ~scan.exists => due = {}
    /\ scan.exists =>
        /\ due \subseteq WithRecords
        /\ AtEnd => due = {}
        /\ scan.curPage # NULL => \A n \in due : n > scan.curPage

ScanOnly == FramesFine(frames, scan.curPage) /\ LostFine(lost) /\ ScanFine

ScanInv == ListsInv /\ ScanOnly /\ DueAhead

LEMMA InvIsExactLists == ListsInv => ListsExact
BY InvIsLists, ScanAssumption DEF ListsExact

LEMMA NoPageIsNull == NULL = 0 /\ NULL \notin PageNo /\ \A n \in PageNo : n \in Int /\ n > NULL
BY Numbers DEF NULL, INVALID_NUMBER

(* What is done to the frames leaves the pages what they are to a reader.  *)
SameContent(frs, new) == \A n \in Used : Content(new, n) = Content(frs, n)

LEMMA UnPinnedFine ==
    ASSUME ScanOnly, NEW left, left = UnPinned(frames)
    PROVE  FramesFine(left, NULL) /\ SameContent(frames, left) /\ DOMAIN left = DOMAIN frames
<1> USE DEF ScanOnly
<1>0. \A n \in DOMAIN frames : n # NULL
  BY NoPageIsNull DEF FramesFine
<1>1. CASE scan.curPage = NULL
  <2>1. left = frames
    BY <1>1 DEF UnPinned
  <2> QED
    BY <1>1, <2>1 DEF SameContent
<1>2. CASE scan.curPage # NULL
  <2> DEFINE n == scan.curPage
  <2>1. n \in DOMAIN frames /\ frames[n] \in AnyFrame /\ frames[n].pins = 1
        /\ (frames[n].dirty => n \in marked) /\ (scan.curDirtyFlag => n \in marked)
        /\ scan.filePageIter = n /\ scan.curDirtyFlag \in BOOLEAN
    BY <1>2 DEF FramesFine, ScanFine, AnyScan
  <2>2. left = [frames EXCEPT ![n].pins = @ - 1, ![n].dirty = @ \/ scan.curDirtyFlag]
    BY <1>2, <2>1 DEF UnPinned
  <2> DEFINE one == [frames[n] EXCEPT !.pins = @ - 1]
  <2>3. one \in AnyFrame /\ one.pins = 0 /\ one.dirty = frames[n].dirty
        /\ one.data = frames[n].data /\ one.hashed = frames[n].hashed
    BY <2>1 DEF AnyFrame
  <2>4. /\ DOMAIN left = DOMAIN frames
        /\ \A m \in DOMAIN frames \ {n} : left[m] = frames[m]
        /\ left[n] = [one EXCEPT !.dirty = @ \/ scan.curDirtyFlag]
    BY <2>1, <2>2
  <2> HIDE DEF one
  <2>5. left[n] \in AnyFrame /\ left[n].pins = 0
    BY <2>1, <2>3, <2>4 DEF AnyFrame
  <2>6. left[n].data = frames[n].data /\ left[n].hashed = frames[n].hashed
    BY <2>3, <2>4 DEF AnyFrame
  <2>7. left[n].dirty => n \in marked
    BY <2>1, <2>3, <2>4 DEF AnyFrame
  <2>8. \A m \in DOMAIN frames : left[m].data = frames[m].data /\ left[m].hashed = frames[m].hashed
    BY <2>4, <2>6
  <2>9. SameContent(frames, left)
    BY <2>4, <2>8 DEF SameContent, Content, Hashed
  <2>10. FramesFine(left, NULL)
    BY <1>0, <2>4, <2>5, <2>7 DEF FramesFine
  <2> QED
    BY <2>4, <2>9, <2>10
<1> QED
  BY <1>1, <1>2

LEMMA ReadFine ==
    ASSUME ListsInv, NEW frs, FramesFine(frs, NULL), NEW Q \in SUBSET DOMAIN pages,
           NEW new, new = Read(frs, Q)
    PROVE  FramesFine(new, NULL) /\ SameContent(frs, new) /\ DOMAIN new = DOMAIN frs \cup Q
<1>1. DOMAIN new = DOMAIN frs \cup Q
  BY DEF Read
<1>2. DOMAIN pages \subseteq PageNo /\ \A n \in Q : pages[n].data \in Data
  BY Typed DEF ListsInv, AnyPage
<1>3. ASSUME NEW n \in Q \ Hashed(frs)
      PROVE  new[n] \in AnyFrame /\ new[n].pins = 0 /\ ~new[n].dirty /\ new[n].hashed
             /\ new[n].data = pages[n].data
  <2>1. new[n] = [data |-> pages[n].data, dirty |-> FALSE, pins |-> 0, hashed |-> TRUE]
    BY DEF Read, Fresh
  <2> QED
    BY <1>2, <2>1 DEF AnyFrame
<1>4. ASSUME NEW n \in DOMAIN new, n \notin Q \ Hashed(frs)
      PROVE  n \in DOMAIN frs /\ new[n] = frs[n]
  BY <1>1, <1>4 DEF Read, Hashed
<1>5. FramesFine(new, NULL)
  <2>1. NULL \notin DOMAIN new
    BY <1>1, <1>2, NoPageIsNull DEF FramesFine
  <2> QED
    BY <1>1, <1>2, <1>3, <1>4, <2>1 DEF FramesFine
<1>6. SameContent(frs, new)
  BY <1>1, <1>3, <1>4 DEF SameContent, Content, Hashed
<1> QED
  BY <1>1, <1>5, <1>6

LEMMA PinnedFine ==
    ASSUME NEW frs, FramesFine(frs, NULL), NEW p, p = NULL \/ p \in DOMAIN frs,
           NEW new, new = Pinned(frs, p)
    PROVE  FramesFine(new, p) /\ SameContent(frs, new) /\ DOMAIN new = DOMAIN frs
<1>1. DOMAIN new = DOMAIN frs /\ NULL \notin DOMAIN frs
  BY NoPageIsNull DEF Pinned, FramesFine
<1>2. \A n \in DOMAIN frs : n # p => new[n] = frs[n]
  BY DEF Pinned
<1>3. ASSUME p \in DOMAIN frs
      PROVE  new[p] \in AnyFrame /\ new[p].pins = 1 /\ new[p].dirty = frs[p].dirty
             /\ new[p].data = frs[p].data /\ new[p].hashed = frs[p].hashed
  <2>1. new[p] = [frs[p] EXCEPT !.pins = @ + 1]
    BY <1>3 DEF Pinned
  <2>2. frs[p] \in AnyFrame /\ frs[p].pins = 0
    BY <1>1, <1>3 DEF FramesFine
  <2> QED
    BY <2>1, <2>2 DEF AnyFrame
<1>4. FramesFine(new, p)
  BY <1>1, <1>2, <1>3 DEF FramesFine
<1>5. SameContent(frs, new)
  BY <1>1, <1>2, <1>3 DEF SameContent, Content, Hashed
<1> QED
  BY <1>1, <1>4, <1>5

LEMMA UnHashedFine ==
    ASSUME NEW frs, NEW p, FramesFine(frs, p), NEW n \in DOMAIN frs,
           NEW new, new = UnHashed(frs, n)
    PROVE  /\ FramesFine(new, p) /\ DOMAIN new = DOMAIN frs
           /\ n \notin Used => SameContent(frs, new)
<1>1. /\ DOMAIN new = DOMAIN frs
      /\ \A m \in DOMAIN frs \ {n} : new[m] = frs[m]
      /\ new[n] = [frs[n] EXCEPT !.hashed = FALSE]
  BY DEF UnHashed
<1>2. frs[n] \in AnyFrame
  BY DEF FramesFine
<1>3. new[n] \in AnyFrame /\ new[n].pins = frs[n].pins /\ new[n].dirty = frs[n].dirty
  BY <1>1, <1>2 DEF AnyFrame
<1>4. FramesFine(new, p)
  BY <1>1, <1>3 DEF FramesFine
<1>5. n \notin Used => SameContent(frs, new)
  BY <1>1 DEF SameContent, Content, Hashed
<1> QED
  BY <1>1, <1>4, <1>5

LEMMA LeftBehindFine ==
    ASSUME NEW frs, FramesFine(frs, NULL), NEW Q, LostFine(lost)
    PROVE  LostFine(lost \cup LeftBehind(frs, Q))
<1>1. ASSUME NEW f \in LeftBehind(frs, Q)
      PROVE  f.frame \in AnyFrame /\ f.frame.pins = 0 /\ (f.frame.dirty => f.page \in marked)
  <2>1. PICK n \in DOMAIN frs : f = [page |-> n, frame |-> frs[n]]
    BY DEF LeftBehind
  <2>2. n # NULL
    BY NoPageIsNull DEF FramesFine
  <2> QED
    BY <2>1, <2>2 DEF FramesFine
<1> QED
  BY <1>1 DEF LostFine

(* Where scanNext goes from the current page, or from the beginning. *)
LEMMA NextStop ==
    ASSUME ListsExact, scan.curPage = NULL \/ scan.filePageIter \in Used,
           NEW base, base = IF scan.curPage = NULL THEN 0 ELSE scan.filePageIter,
           NEW p, p = StopsAt
    PROVE  /\ p # NULL => p \in Used /\ p \in WithRecords /\ p > base
           /\ p # NULL => \A u \in WithRecords : u > base => u >= p
           /\ p = NULL => \A u \in WithRecords : ~(u > base)
<1> DEFINE S == WithRecords
<1>0. /\ S \subseteq Used /\ Used \subseteq PageNo /\ NULL \notin Used /\ NULL = 0
      /\ \A u \in Used : u \in Int /\ u > 0
      /\ base \in Int
  <2>1. Used \subseteq PageNo
    BY Typed DEF ListsExact
  <2>2. S \subseteq Used
    BY DEF WithRecords, Used
  <2>3. \A u \in Used : u \in Int /\ u > 0
    BY <2>1, NoPageIsNull
  <2> QED
    BY <2>1, <2>2, <2>3, NoPageIsNull
<1>1. IsLeast(From, {q \in Used : q > base})
  <2>1. CASE scan.curPage = NULL
    <3>1. {q \in Used : q > base} = Used
      BY <1>0, <2>1
    <3> QED
      BY <2>1, <3>1 DEF From, ListsExact, UsedListExact
  <2>2. CASE scan.curPage # NULL
    BY <2>2 DEF From, ListsExact, UsedListExact
  <2> QED
    BY <2>1, <2>2
<1>2. CASE From = NULL
  <2>1. p = NULL
    BY <1>2 DEF StopsAt, ComesToEnd, NULL
  <2>2. \A u \in Used : ~(u > base)
    BY <1>0, <1>1, <1>2 DEF IsLeast
  <2> QED
    BY <1>0, <2>1, <2>2
<1>3. CASE From # NULL
  <2>1. From \in Used /\ From > base /\ \A u \in Used : u > base => From <= u
    BY <1>0, <1>1, <1>3 DEF IsLeast, NULL
  <2>2. CASE ComesToEnd(From, S)
    <3>1. p = NULL
      BY <2>2 DEF StopsAt
    <3>2. \A u \in Used : From <= u => u \notin S
      <4> HIDE DEF S
      <4> QED
        BY <2>1, <2>2, EndsWithout
    <3> QED
      BY <1>0, <2>1, <3>1, <3>2
  <2>3. CASE ~ComesToEnd(From, S)
    <3>1. p = CHOOSE n \in EndsAt(From, S) : TRUE
      BY <2>3 DEF StopsAt
    <3>2. EndsAt(From, S) # {}
      <4> HIDE DEF S
      <4> QED
        BY <2>1, <2>3, WalkEnds
    <3>3. p \in EndsAt(From, S)
      BY <3>1, <3>2
    <3>4. /\ p \in Used /\ p \in S /\ From <= p
          /\ \A u \in Used : From <= u /\ u < p => u \notin S
      <4> HIDE DEF S
      <4> QED
        BY <2>1, <3>3, StopsAtFirst
    <3> QED
      BY <1>0, <2>1, <3>4
  <2> QED
    BY <2>2, <2>3
<1> QED
  BY <1>2, <1>3

-----------------------------------------------------------------------------
(* The steps of the file under the scan. *)

LEMMA NewFileNext == (header = NewHeader /\ pages = NoPages)' => ListsInv'
BY NewFile, PTL

LEMMA ConstructLists ==
    ASSUME ListsInv, NEW h, NEW name, NEW create_new, Construct(h, name, create_new)
    PROVE  ListsInv'
BY ListsStay, NewFileNext DEF Construct

LEMMA OthersLists ==
    ASSUME ListsInv, HandlesNext(Callers)
    PROVE  ListsInv'
<1>1. ASSUME NEW h, NEW other, CopyConstruct(h, other) PROVE ListsInv'
  BY <1>1, ConstructLists DEF CopyConstruct
<1>2. ASSUME NEW h, NEW other, Assign(h, other) \/ Destroy(h) PROVE ListsInv'
  BY <1>2, ListsStay DEF Assign, Destroy
<1>3. ASSUME NEW name, Remove(name) PROVE ListsInv'
  BY <1>3, ListsStay, NewFileNext DEF Remove
<1>4. CASE PageNext(Callers)
  BY <1>4, NextLists DEF PageNext
<1> QED
  BY <1>1, <1>2, <1>3, <1>4, ConstructLists DEF HandlesNext, HandleNext

(* Frames are written back to their pages, whose links stay. *)
LEMMA BackLists ==
    ASSUME ListsInv, header' = header, NEW frs, pages' = WrittenBack(frs),
           \A n \in DOMAIN frs : frs[n] \in AnyFrame
    PROVE  /\ ListsInv'
           /\ \A n \in DOMAIN pages' : pages'[n].data # pages[n].data => n \in DOMAIN frs /\ frs[n].dirty
<1> SUFFICES ASSUME NEW new, new = pages'
             PROVE  /\ ListsInv'
                    /\ \A n \in DOMAIN new : new[n].data # pages[n].data => n \in DOMAIN frs /\ frs[n].dirty
  OBVIOUS
<1>1. DOMAIN new = DOMAIN pages /\ new = [n \in DOMAIN new |-> new[n]]
  BY DEF WrittenBack
<1>2. ASSUME NEW n \in DOMAIN pages
      PROVE  /\ new[n] \in AnyPage
             /\ new[n].used = pages[n].used
             /\ new[n].next_page_number = pages[n].next_page_number
             /\ new[n].data # pages[n].data => n \in DOMAIN frs /\ frs[n].dirty
  <2>1. pages[n] \in AnyPage
    BY Typed DEF ListsInv
  <2>2. CASE n \in DOMAIN frs /\ frs[n].dirty
    <3>1. new[n] = [pages[n] EXCEPT !.data = frs[n].data]
      BY <2>2 DEF WrittenBack
    <3>2. frs[n].data \in Data
      BY <2>2 DEF AnyFrame
    <3> QED
      BY <2>1, <2>2, <3>1, <3>2 DEF AnyPage
  <2>3. CASE ~(n \in DOMAIN frs /\ frs[n].dirty)
    <3>1. new[n] = pages[n]
      BY <2>3 DEF WrittenBack
    <3> QED
      BY <2>1, <3>1
  <2> QED
    BY <2>2, <2>3
<1>3. ListsInv'
  BY <1>1, <1>2, Rewritten
<1> QED
  BY <1>1, <1>2, <1>3

-----------------------------------------------------------------------------
(* The steps of the scan. *)

LEMMA ScanInit1 == ScanInit => ScanInv
<1> SUFFICES ASSUME ScanInit PROVE ScanInv
  OBVIOUS
<1>1. ListsInv
  BY NewFile DEF ScanInit, HandlesInit, Init
<1>2. ScanOnly
  BY DEF ScanInit, NoScan, NoFrames, ScanOnly, FramesFine, LostFine, ScanFine, AnyScan, Link, NULL
<1>3. DueAhead
  BY DEF ScanInit, NoScan, DueAhead
<1> QED
  BY <1>1, <1>2, <1>3 DEF ScanInv

LEMMA ContentStays ==
    ASSUME pages' = pages, SameContent(frames, frames')
    PROVE  WithRecords' = WithRecords
BY DEF WithRecords, SameContent, Content, Used

LEMMA WayInFile == \A q : Before(q) \subseteq DOMAIN pages
BY DEF Before, Visited

LEMMA ReadsIn ==
    ASSUME ScanInv, NEW left, left = UnPinned(frames),
           NEW Q \in SUBSET DOMAIN pages, NEW new, new = Read(left, Q)
    PROVE  /\ FramesFine(new, NULL) /\ SameContent(frames, new) /\ Q \subseteq DOMAIN new
           /\ LostFine(lost \cup LeftBehind(left, Q))
<1> USE DEF ScanInv
<1>1. FramesFine(left, NULL) /\ SameContent(frames, left)
  BY UnPinnedFine
<1>2. FramesFine(new, NULL) /\ SameContent(left, new) /\ DOMAIN new = DOMAIN left \cup Q
  <2>1. ListsInv /\ FramesFine(left, NULL)
    BY <1>1
  <2> QED
    BY <2>1, ReadFine
<1>3. LostFine(lost \cup LeftBehind(left, Q))
  BY <1>1, LeftBehindFine DEF ScanOnly
<1> QED
  BY <1>1, <1>2, <1>3 DEF SameContent

(* scanNext, when it goes to another page or to the end. *)
Arrives(p, Q) ==
    /\ scan' = [exists |-> TRUE, filePageIter |-> p, curPage |-> p,
                slot |-> IF p = NULL THEN 0 ELSE 1, curDirtyFlag |-> FALSE]
    /\ frames' = Pinned(Read(UnPinned(frames), Q), p)
    /\ lost' = lost \cup LeftBehind(UnPinned(frames), Q)
    /\ due' = (IF scan.curPage = NULL THEN WithRecords ELSE due) \ {p}

LEMMA GoesOn ==
    ASSUME ScanInv, scan.exists, ~AtEnd, CanGoOn,
           NEW p, p = StopsAt, NEW Q, Q = Before(p) \cup ({p} \ {NULL}),
           Arrives(p, Q), UNCHANGED <<header, pages, marked>>
    PROVE  ScanOnly' /\ DueAhead' /\ (p # NULL => p > scan.curPage)
<1> USE DEF ScanInv
<1>1. ListsExact
  BY InvIsExactLists
<1> DEFINE base == IF scan.curPage = NULL THEN 0 ELSE scan.filePageIter
<1>2. /\ p # NULL => p \in Used /\ p \in WithRecords /\ p > base
      /\ p # NULL => \A u \in WithRecords : u > base => u >= p
      /\ p = NULL => \A u \in WithRecords : ~(u > base)
  <2>1. scan.curPage = NULL \/ scan.filePageIter \in Used
    BY DEF CanGoOn
  <2> QED
    BY <1>1, <2>1, NextStop
<1>3. base = scan.curPage
  BY NoPageIsNull DEF ScanOnly, ScanFine
<1>4. /\ Used \subseteq PageNo /\ Used \subseteq DOMAIN pages
      /\ \A u \in WithRecords : u \in Int /\ u > 0
  <2>1. Used \subseteq PageNo /\ Used \subseteq DOMAIN pages
    BY Typed DEF ListsInv, Used
  <2>2. WithRecords \subseteq Used
    BY DEF WithRecords
  <2> QED
    BY <2>1, <2>2, NoPageIsNull
<1>5. Q \in SUBSET DOMAIN pages /\ (p # NULL => p \in Q)
  BY <1>2, <1>4, WayInFile
<1>6. /\ FramesFine(frames', p) /\ SameContent(frames, frames') /\ (p # NULL => p \in DOMAIN frames')
      /\ LostFine(lost')
  <2> SUFFICES ASSUME NEW new, new = Read(UnPinned(frames), Q), NEW frs, frs = Pinned(new, p)
               PROVE  /\ FramesFine(frs, p) /\ SameContent(frames, frs) /\ (p # NULL => p \in DOMAIN frs)
                      /\ LostFine(lost \cup LeftBehind(UnPinned(frames), Q))
    BY DEF Arrives
  <2>1. /\ FramesFine(new, NULL) /\ SameContent(frames, new) /\ Q \subseteq DOMAIN new
        /\ LostFine(lost \cup LeftBehind(UnPinned(frames), Q))
    BY <1>5, ReadsIn
  <2>2. FramesFine(frs, p) /\ SameContent(new, frs) /\ DOMAIN frs = DOMAIN new
    BY <1>5, <2>1, PinnedFine
  <2> QED
    BY <1>5, <2>1, <2>2 DEF SameContent
<1>7. scan'.exists /\ scan'.filePageIter = p /\ scan'.curPage = p /\ ~scan'.curDirtyFlag /\ scan' \in AnyScan
  <2>1. p \in Link
    BY <1>2, <1>4 DEF Link, NULL
  <2> QED
    BY <2>1 DEF Arrives, AnyScan
<1>8. ScanOnly'
  <2>1. FramesFine(frames, scan.curPage)' /\ LostFine(lost)'
    BY <1>6, <1>7 DEF FramesFine, LostFine
  <2>2. ScanFine'
    BY <1>6, <1>7 DEF ScanFine
  <2> QED
    BY <2>1, <2>2 DEF ScanOnly
<1>9. DueAhead'
  <2> DEFINE todo == IF scan.curPage = NULL THEN WithRecords ELSE due
  <2>1. todo \subseteq WithRecords /\ \A u \in todo : u > base
    BY <1>3, <1>4 DEF DueAhead
  <2>2. p = NULL => todo = {}
    BY <1>2, <2>1
  <2>3. p # NULL => \A u \in todo \ {p} : u > p
    <3>1. ASSUME p # NULL, NEW u \in todo \ {p} PROVE u > p
      <4>1. u \in Int /\ p \in Int /\ u >= p
        BY <1>2, <1>4, <2>1, <3>1
      <4> QED
        BY <3>1, <4>1
    <3> QED
      BY <3>1
  <2>4. due' = todo \ {p}
    BY DEF Arrives
  <2>5. WithRecords' = WithRecords
    BY <1>6, ContentStays
  <2> HIDE DEF todo
  <2> QED
    BY <1>7, <2>1, <2>2, <2>3, <2>4, <2>5 DEF DueAhead, AtEnd, NULL
<1> QED
  BY <1>2, <1>3, <1>8, <1>9

(* scanNext, when readPage throws for page q. *)
BackTo(q) == [scan EXCEPT !.filePageIter = q, !.curPage = NULL, !.slot = 0,
                          !.curDirtyFlag = @ /\ scan.curPage = NULL /\ q = From]

LEMMA BackToFine ==
    ASSUME scan \in AnyScan, NEW q \in Link, NULL \in Link
    PROVE  BackTo(q) \in AnyScan /\ BackTo(q).exists = scan.exists /\ BackTo(q).curPage = NULL
<1> DEFINE flag == scan.curDirtyFlag /\ scan.curPage = NULL /\ q = From
<1>1. BackTo(q) = [scan EXCEPT !.filePageIter = q, !.curPage = NULL, !.slot = 0, !.curDirtyFlag = flag]
  BY DEF BackTo
<1>2. flag \in BOOLEAN
  OBVIOUS
<1> HIDE DEF flag
<1>3. scan = [exists |-> scan.exists, filePageIter |-> scan.filePageIter, curPage |-> scan.curPage,
              slot |-> scan.slot, curDirtyFlag |-> scan.curDirtyFlag] /\ scan.exists \in BOOLEAN
  BY DEF AnyScan
<1>4. BackTo(q) = [exists |-> scan.exists, filePageIter |-> q, curPage |-> NULL,
                   slot |-> 0, curDirtyFlag |-> flag]
  BY <1>1, <1>3, Zenon
<1>5. [exists |-> scan.exists, filePageIter |-> q, curPage |-> NULL, slot |-> 0, curDirtyFlag |-> flag] \in AnyScan
  BY <1>2, <1>3 DEF AnyScan
<1> QED
  BY <1>4, <1>5

LEMMA ReadThrowsFine ==
    ASSUME ScanInv, scan.exists, NEW q \in OnWay,
           NEW frs, frs = Read(UnPinned(frames), Before(q)), ReadThrows(q, frs),
           lost' = lost \cup LeftBehind(UnPinned(frames), Before(q)),
           scan' = [scan EXCEPT !.filePageIter = q, !.curPage = NULL, !.slot = 0,
                                !.curDirtyFlag = @ /\ scan.curPage = NULL /\ q = From],
           due' = {}, UNCHANGED <<header, pages, marked>>
    PROVE  ScanOnly' /\ DueAhead'
<1> USE DEF ScanInv
<1>1. /\ FramesFine(frs, NULL)
      /\ LostFine(lost')
  BY WayInFile, ReadsIn
<1>2. FramesFine(frames', NULL)
  <2>1. CASE frames' = frs
    BY <1>1, <2>1
  <2>2. ASSUME NEW n \in Hashed(frs), frames' = UnHashed(frs, n)
        PROVE  FramesFine(frames', NULL)
    <3>1. n \in DOMAIN frs
      BY DEF Hashed
    <3> QED
      BY <1>1, <2>2, <3>1, UnHashedFine
  <2> QED
    BY <2>1, <2>2 DEF ReadThrows
<1>3. /\ scan'.exists = scan.exists /\ scan'.curPage = NULL /\ scan' \in AnyScan
  <2>1. q \in Link
    BY Typed DEF ListsInv, OnWay, Link
  <2>2. scan \in AnyScan /\ NULL \in Link
    BY DEF ScanOnly, ScanFine, Link, NULL
  <2>3. scan' = BackTo(q)
    BY DEF BackTo
  <2> QED
    BY <2>1, <2>2, <2>3, BackToFine
<1>4. ScanOnly'
  BY <1>1, <1>2, <1>3 DEF ScanOnly, FramesFine, LostFine, ScanFine
<1>5. DueAhead'
  BY <1>3 DEF DueAhead
<1> QED
  BY <1>4, <1>5

LEMMA ScanNextInv ==
    ASSUME ScanInv, ScanNext
    PROVE  ScanInv'
<1> USE DEF ScanInv
<1>0. scan.exists /\ UNCHANGED <<header, pages, marked>> /\ scan \in AnyScan
  BY DEF ScanNext, fileVars, ScanOnly, ScanFine
<1>1. ListsInv'
  BY ListsStay DEF ScanNext
<1>2. ASSUME scan' \in AnyScan, UNCHANGED <<frames, lost, due>>,
             scan'.exists = scan.exists, scan'.filePageIter = scan.filePageIter,
             scan'.curPage = scan.curPage, scan'.curDirtyFlag = scan.curDirtyFlag
      PROVE  ScanInv'
  <2>1. ScanOnly'
    BY <1>0, <1>2 DEF ScanOnly, FramesFine, LostFine, ScanFine
  <2>2. WithRecords' = WithRecords
    BY <1>0, <1>2, ContentStays DEF SameContent
  <2> QED
    BY <1>1, <1>2, <2>1, <2>2 DEF DueAhead, AtEnd
<1>3. ASSUME NEW i \in Nat, scan' = [scan EXCEPT !.slot = i], UNCHANGED <<frames, lost, due>>
      PROVE  ScanInv'
  BY <1>0, <1>2, <1>3 DEF AnyScan
<1>4. ASSUME NEW q \in OnWay,
             ReadThrows(q, Read(UnPinned(frames), Before(q))),
             lost' = lost \cup LeftBehind(UnPinned(frames), Before(q)),
             scan' = [scan EXCEPT !.filePageIter = q, !.curPage = NULL, !.slot = 0,
                                  !.curDirtyFlag = @ /\ scan.curPage = NULL /\ q = From],
             due' = {}
      PROVE  ScanInv'
  BY <1>0, <1>1, <1>4, ReadThrowsFine
<1>5. ASSUME ~AtEnd, CanGoOn, Arrives(StopsAt, Before(StopsAt) \cup ({StopsAt} \ {NULL}))
      PROVE  ScanInv'
  BY <1>0, <1>1, <1>5, GoesOn
<1>6. scan.slot + 1 \in Nat /\ 0 \in Nat
  BY <1>0 DEF AnyScan
<1>7. CASE UNCHANGED <<scan, frames, lost, due>>
  BY <1>0, <1>2, <1>7
<1> QED
  BY <1>3, <1>4, <1>5, <1>6, <1>7 DEF ScanNext, Arrives, FlagAfterRead

LEMMA OpenScanInv ==
    ASSUME ScanInv, OpenScan
    PROVE  ScanInv'
<1> USE DEF ScanInv
<1>1. ListsInv'
  BY ConstructLists DEF OpenScan
<1>2. ~scan.exists /\ UNCHANGED <<frames, lost, due, marked>> /\ scan.curPage = NULL /\ due = {}
  BY DEF OpenScan, DueAhead, ScanOnly, ScanFine
<1>3. CASE scan' = scan
  BY <1>1, <1>2, <1>3 DEF ScanOnly, FramesFine, LostFine, ScanFine, DueAhead
<1>4. CASE scan' = [NoScan EXCEPT !.exists = TRUE, !.filePageIter = header.first_used_page]
  <2>1. scan' = [exists |-> TRUE, filePageIter |-> header.first_used_page, curPage |-> NULL,
                 slot |-> 0, curDirtyFlag |-> FALSE]
    BY <1>4 DEF NoScan
  <2>2. header.first_used_page \in Link /\ NULL \in Link
    BY Typed DEF ListsInv, Link, NULL
  <2>3. scan' \in AnyScan /\ scan'.exists /\ scan'.curPage = NULL
    BY <2>1, <2>2 DEF AnyScan
  <2>4. ScanOnly'
    BY <1>2, <2>3 DEF ScanOnly, FramesFine, LostFine, ScanFine
  <2>5. DueAhead'
    BY <1>2, <2>3 DEF DueAhead
  <2> QED
    BY <1>1, <2>4, <2>5
<1> QED
  BY <1>3, <1>4 DEF OpenScan

LEMMA EvictInv ==
    ASSUME ScanInv, NEW n \in PageNo, Evict(n)
    PROVE  ScanInv'
<1> USE DEF ScanInv
<1>1. /\ n \in DOMAIN frames /\ scan' = scan /\ header' = header
      /\ due' \subseteq due /\ due' \subseteq WithRecords'
  BY DEF Evict, Hashed
<1>2. DueAhead'
  BY <1>1 DEF DueAhead, AtEnd
<1>3. FramesFine(frames, scan.curPage) /\ LostFine(lost) /\ ScanFine
  BY DEF ScanOnly
<1>4. ASSUME frames' = UnHashed(frames, n), lost' \subseteq lost, marked' = marked
      PROVE  ScanOnly'
  <2>1. FramesFine(frames', scan.curPage) /\ DOMAIN frames' = DOMAIN frames
    BY <1>1, <1>3, <1>4, UnHashedFine
  <2>2. FramesFine(frames, scan.curPage)'
    BY <1>1, <1>4, <2>1 DEF FramesFine
  <2>3. LostFine(lost)'
    BY <1>3, <1>4 DEF LostFine
  <2>4. ScanFine'
    BY <1>1, <1>3, <1>4, <2>1 DEF ScanFine
  <2> QED
    BY <2>2, <2>3, <2>4 DEF ScanOnly
<1>5. ASSUME NEW frame, frame \in AnyFrame, pages' = WrittenBack([m \in {n} |-> frame])
      PROVE  ListsInv'
  <2>1. \A m \in DOMAIN [k \in {n} |-> frame] : [k \in {n} |-> frame][m] \in AnyFrame
    BY <1>5
  <2> QED
    BY <1>1, <1>5, <2>1, BackLists
<1>6. CASE frames' = UnHashed(frames, n) /\ UNCHANGED <<pages, lost, marked>>
  BY <1>1, <1>2, <1>4, <1>6, ListsStay DEF fileVars
<1>7. CASE /\ frames[n].pins = 0
           /\ pages' = WrittenBack([m \in {n} |-> frames[m]])
           /\ frames' = [m \in DOMAIN frames \ {n} |-> frames[m]]
           /\ marked' = marked \ ({n} \ {f.page : f \in lost})
           /\ UNCHANGED lost
  <2>1. [m \in {n} |-> frames[m]] = [m \in {n} |-> frames[n]]
    OBVIOUS
  <2>2. frames[n] \in AnyFrame
    BY <1>1, <1>3 DEF FramesFine
  <2>3. ListsInv'
    BY <1>5, <1>7, <2>1, <2>2
  <2>4. n # scan.curPage
    BY <1>1, <1>3, <1>7 DEF FramesFine
  <2>5. /\ DOMAIN frames' = DOMAIN frames \ {n}
        /\ \A m \in DOMAIN frames \ {n} : frames'[m] = frames[m]
        /\ \A m : m # n /\ m \in marked => m \in marked'
        /\ \A f \in lost : f.page \in marked => f.page \in marked'
    BY <1>7
  <2>6. FramesFine(frames, scan.curPage)'
    BY <1>1, <1>3, <2>5 DEF FramesFine
  <2>7. LostFine(lost)'
    BY <1>3, <1>7, <2>5 DEF LostFine
  <2>8. ScanFine'
    BY <1>1, <1>3, <2>4, <2>5 DEF ScanFine
  <2> QED
    BY <1>2, <2>3, <2>6, <2>7, <2>8 DEF ScanOnly
<1>8. ASSUME NEW f \in lost,
             pages' = WrittenBack([m \in {n} |-> f.frame]),
             frames' = UnHashed(frames, n), lost' \in {lost, lost \ {f}}, UNCHANGED marked
      PROVE  ScanInv'
  <2>1. f.frame \in AnyFrame
    BY <1>3 DEF LostFine
  <2>2. ListsInv'
    BY <1>5, <1>8, <2>1
  <2>3. lost' \subseteq lost
    BY <1>8
  <2> QED
    BY <1>2, <1>4, <1>8, <2>2, <2>3
<1> QED
  BY <1>6, <1>7, <1>8 DEF Evict

LEMMA Gone == scan' = NoScan /\ frames' = NoFrames /\ lost' = {} /\ due' = {} => ScanOnly' /\ DueAhead'
<1> SUFFICES ASSUME scan' = NoScan, frames' = NoFrames, lost' = {}, due' = {}
             PROVE  ScanOnly' /\ DueAhead'
  OBVIOUS
<1>1. scan' \in AnyScan /\ ~scan'.exists /\ scan'.curPage = NULL
  BY DEF NoScan, AnyScan, Link, NULL
<1> QED
  BY <1>1 DEF NoFrames, ScanOnly, FramesFine, LostFine, ScanFine, DueAhead

LEMMA CloseScanInv ==
    ASSUME ScanInv, CloseScan
    PROVE  ScanInv'
<1> USE DEF ScanInv
<1>1. ScanOnly' /\ DueAhead'
  BY Gone DEF CloseScan
<1>2. CASE UNCHANGED fileVars
  BY <1>1, <1>2, ListsStay
<1>3. ASSUME NEW left, left = UnPinned(frames), pages' = WrittenBack(left), header' = header
      PROVE  ScanInv'
  <2>1. \A m \in DOMAIN left : left[m] \in AnyFrame
    BY <1>3, UnPinnedFine DEF FramesFine
  <2>2. ListsInv'
    BY <1>3, <2>1, BackLists
  <2> QED
    BY <1>1, <2>2
<1> QED
  BY <1>2, <1>3 DEF CloseScan

LEMMA MarkDirtyInv ==
    ASSUME ScanInv, MarkDirty
    PROVE  ScanInv'
<1> USE DEF ScanInv
<1>1. UNCHANGED <<header, pages, frames, lost, due>> /\ marked' = marked \cup ({scan.curPage} \ {NULL})
  BY DEF MarkDirty, fileVars
<1>2. ListsInv'
  BY <1>1, ListsStay DEF fileVars
<1>3. /\ scan' \in AnyScan
      /\ scan'.exists = scan.exists /\ scan'.filePageIter = scan.filePageIter
      /\ scan'.curPage = scan.curPage
  BY DEF MarkDirty, ScanOnly, ScanFine, AnyScan
<1>4. FramesFine(frames, scan.curPage)' /\ LostFine(lost)'
  BY <1>1, <1>3 DEF ScanOnly, FramesFine, LostFine
<1>5. ScanFine'
  BY <1>1, <1>3 DEF ScanOnly, ScanFine
<1>6. WithRecords' = WithRecords
  BY <1>1, ContentStays DEF SameContent
<1>7. DueAhead'
  BY <1>1, <1>3, <1>6 DEF DueAhead, AtEnd
<1> QED
  BY <1>2, <1>4, <1>5, <1>7 DEF ScanOnly

LEMMA OthersInv ==
    ASSUME ScanInv, Others
    PROVE  ScanInv'
<1> USE DEF ScanInv
<1>1. ListsInv'
  BY OthersLists DEF Others
<1>2. UNCHANGED <<scan, frames, lost, marked>> /\ due' \subseteq due /\ due' \subseteq WithRecords'
  BY DEF Others
<1>3. ScanOnly'
  BY <1>2 DEF ScanOnly, FramesFine, LostFine, ScanFine
<1>4. DueAhead'
  BY <1>2 DEF DueAhead, AtEnd
<1> QED
  BY <1>1, <1>3, <1>4

LEMMA ScanStepInv == ScanInv /\ [SystemNext]_systemVars => ScanInv'
<1> SUFFICES ASSUME ScanInv, [SystemNext]_systemVars PROVE ScanInv'
  OBVIOUS
<1>1. CASE UNCHANGED systemVars
  <2>1. UNCHANGED <<header, pages, scan, frames, lost, due, marked>>
    BY <1>1 DEF systemVars, allVars, vars, scanVars
  <2>2. ListsInv'
    BY <2>1, ListsStay DEF fileVars, ScanInv
  <2>3. WithRecords' = WithRecords
    BY <2>1, ContentStays DEF SameContent
  <2>4. ScanOnly'
    BY <2>1 DEF ScanInv, ScanOnly, FramesFine, LostFine, ScanFine
  <2>5. DueAhead'
    BY <2>1, <2>3 DEF ScanInv, DueAhead, AtEnd
  <2> QED
    BY <2>2, <2>4, <2>5 DEF ScanInv
<1>2. CASE Others \/ ScanStep
  BY <1>2, OthersInv, OpenScanInv, CloseScanInv, MarkDirtyInv, ScanNextInv, EvictInv DEF ScanStep
<1> QED
  BY <1>1, <1>2 DEF SystemNext

LEMMA ScanInvHolds == SystemSpec => []ScanInv
BY ScanInit1, ScanStepInv, PTL DEF SystemSpec

(* filescan.cpp, scanNext and the destructor: a scan of a file of any size *)
(* has one pin, on its current page, and loses none, whatever it throws    *)
(* and whatever happens to that page and its neighbours in the file.       *)
THEOREM ScanPinsBalanced == SystemSpec => []PinsBalanced
<1>1. ScanInv => PinsBalanced
  BY DEF ScanInv, ScanOnly, FramesFine, LostFine, ScanFine, PinsBalanced
<1> QED
  BY <1>1, ScanInvHolds, PTL

(* When scanNext throws EndOfFileException, the scan has been at every     *)
(* page that has had records, as the pool has them, since it began or last *)
(* began again, in a file of any size and with any callers that allocate,  *)
(* delete and write its pages.                                             *)
THEOREM ScanIsComplete == SystemSpec => []ScanComplete
<1>1. ScanInv => ScanComplete
  BY DEF ScanInv, DueAhead, ScanComplete
<1> QED
  BY <1>1, ScanInvHolds, PTL

(* The lists of pages that PageFile keeps stay exact with any number of    *)
(* callers that open, create and remove files, and with the frames that    *)
(* are written back under a scan.                                          *)
THEOREM ListsTrue == SystemSpec => [](TypeOK /\ UsedListExact /\ FreeListExact)
<1>1. ScanInv => TypeOK /\ UsedListExact /\ FreeListExact
  BY InvIsLists, ScanAssumption DEF ScanInv
<1> QED
  BY <1>1, ScanInvHolds, PTL

(* Calls other than those of the scan.  (Outcome names the call.) *)
LEMMA OthersAreNotScanNext ==
    ASSUME HandlesNext(Callers)
    PROVE  outcome'.op # "scanNext"
<1>1. ASSUME NEW op, NEW n, NEW res, outcome' = Outcome(op, n, res), op # "scanNext"
      PROVE  outcome'.op # "scanNext"
  BY <1>1 DEF Outcome
<1>2. ASSUME NEW op, NEW res, Result(op, res), op # "scanNext"
      PROVE  outcome'.op # "scanNext"
  BY <1>1, <1>2 DEF Result
<1>3. ASSUME NEW h, NEW name, NEW create_new, Construct(h, name, create_new)
      PROVE  outcome'.op # "scanNext"
  BY <1>2, <1>3 DEF Construct
<1>4. ASSUME NEW h, NEW other, CopyConstruct(h, other) \/ Assign(h, other) \/ Destroy(h)
      PROVE  outcome'.op # "scanNext"
  BY <1>2, <1>3, <1>4 DEF CopyConstruct, Assign, Destroy
<1>5. ASSUME NEW name, Remove(name)
      PROVE  outcome'.op # "scanNext"
  BY <1>2, <1>5 DEF Remove
<1>6. CASE AllocatePage
  BY <1>1, <1>2, <1>6 DEF AllocatePage
<1>7. ASSUME NEW n \in PageNo, DeletePage(n) PROVE outcome'.op # "scanNext"
  BY <1>1, <1>2, <1>7 DEF DeletePage
<1>8. ASSUME NEW n \in PageNo, ReadPage(n) PROVE outcome'.op # "scanNext"
  BY <1>1, <1>2, <1>8 DEF ReadPage
<1>9. ASSUME NEW n \in PageNo, NEW d \in Data, WritePage(n, d) PROVE outcome'.op # "scanNext"
  BY <1>1, <1>2, <1>9 DEF WritePage
<1> QED
  BY <1>3, <1>4, <1>5, <1>6, <1>7, <1>8, <1>9 DEF HandlesNext, HandleNext, PageNext, Next

(* filescan.cpp, scanNext: a record that it returns lies ahead of the one  *)
(* that it returned last, unless it has thrown since, in a file of any     *)
(* size; no other call moves the scan; and what has ended stays so.        *)
THEOREM ScanGoesForward == SystemSpec => Forward
<1> DEFINE Stands == scan'.curPage = scan.curPage /\ scan'.slot = scan.slot
           Ahead == \/ scan'.curPage > scan.curPage
                    \/ scan'.curPage = scan.curPage /\ scan'.slot > scan.slot
           Goes == scan.exists /\ scan'.exists =>
                     /\ outcome'.op = "scanNext" /\ outcome'.res = "ok" => Ahead
                     /\ <<scan'.curPage, scan'.slot>> # <<scan.curPage, scan.slot>> => outcome'.op = "scanNext"
                     /\ AtEnd => UNCHANGED <<scan.curPage, scan.slot, scan.filePageIter>>
<1>1. ASSUME ScanInv, [SystemNext]_systemVars PROVE [Goes]_systemVars
  <2>0. scan \in AnyScan
    BY <1>1 DEF ScanInv, ScanOnly, ScanFine
  <2>1. ASSUME Stands, scan'.filePageIter = scan.filePageIter, outcome'.op # "scanNext" PROVE Goes
    BY <2>1
  <2>2. ASSUME ~scan.exists \/ ~scan'.exists PROVE Goes
    BY <2>2
  <2>3. ASSUME outcome'.op = "scanNext", ~AtEnd, outcome'.res = "ok" => Ahead PROVE Goes
    BY <2>3
  <2>4. ASSUME UNCHANGED scan, outcome'.op = "scanNext", outcome'.res # "ok" PROVE Goes
    BY <2>4
  <2>5. ASSUME NEW op, NEW res, Result(op, res) PROVE outcome'.op = op /\ outcome'.res = res
    BY <2>5 DEF Result, Outcome
  <2> HIDE DEF Goes
  <2>6. CASE Others
    <3>1. outcome'.op # "scanNext" /\ scan' = scan
      BY <2>6, OthersAreNotScanNext DEF Others
    <3> QED
      BY <2>1, <3>1
  <2>7. CASE OpenScan \/ CloseScan
    <3>1. CloseScan => scan' = NoScan
      BY DEF CloseScan
    <3>2. ~NoScan.exists
      BY DEF NoScan
    <3>3. OpenScan => ~scan.exists
      BY DEF OpenScan
    <3> QED
      BY <2>2, <2>7, <3>1, <3>2, <3>3
  <2>8. CASE MarkDirty
    <3>1. scan'.curPage = scan.curPage /\ scan'.slot = scan.slot /\ scan'.filePageIter = scan.filePageIter
      BY <2>0, <2>8 DEF MarkDirty, AnyScan
    <3>2. outcome'.op = "markDirty"
      BY <2>5, <2>8 DEF MarkDirty
    <3> QED
      BY <2>1, <3>1, <3>2
  <2>9. ASSUME NEW n \in PageNo, Evict(n) PROVE Goes
    <3>1. scan' = scan
      BY <2>9 DEF Evict
    <3>2. outcome'.op = "evict"
      BY <2>5, <2>9 DEF Evict
    <3> QED
      BY <2>1, <3>1, <3>2
  <2>10. CASE ScanNext
    <3>1. CASE UNCHANGED scan /\ Result("scanNext", "EndOfFile")
      BY <2>4, <2>5, <3>1
    <3>2. CASE ~AtEnd /\ scan' = [scan EXCEPT !.slot = @ + 1] /\ Result("scanNext", "ok")
      <4>1. scan'.curPage = scan.curPage /\ scan'.slot > scan.slot
        BY <2>0, <3>2 DEF AnyScan
      <4> QED
        BY <2>3, <2>5, <3>2, <4>1
    <3>3. ASSUME ~AtEnd, NEW res, res # "ok", Result("scanNext", res) PROVE Goes
      BY <2>3, <2>5, <3>3
    <3>4. ASSUME NEW q, NEW frs, ~AtEnd, ReadThrows(q, frs) PROVE Goes
      <4>1. \E res \in {"BufferExceeded", "InvalidPage", "HashNotFound"} : Result("scanNext", res)
        BY <3>4 DEF ReadThrows
      <4> QED
        BY <3>3, <3>4, <4>1
    <3>5. CASE /\ ~AtEnd /\ CanGoOn
               /\ Arrives(StopsAt, Before(StopsAt) \cup ({StopsAt} \ {NULL}))
               /\ Result("scanNext", IF StopsAt = NULL THEN "EndOfFile" ELSE "ok")
      <4>1. scan.exists /\ UNCHANGED <<header, pages, marked>>
        BY <2>10 DEF ScanNext, fileVars
      <4>2. StopsAt # NULL => StopsAt > scan.curPage
        BY <1>1, <3>5, <4>1, GoesOn
      <4>3. scan'.curPage = StopsAt
        BY <3>5 DEF Arrives
      <4>4. outcome'.op = "scanNext" /\ (outcome'.res = "ok" => StopsAt # NULL)
        BY <2>5, <3>5
      <4> QED
        BY <2>3, <3>5, <4>2, <4>3, <4>4
    <3> QED
      BY <2>10, <3>1, <3>2, <3>3, <3>4, <3>5 DEF ScanNext, Arrives, FlagAfterRead
  <2>11. CASE UNCHANGED systemVars
    BY <2>11
  <2> QED
    BY <1>1, <2>6, <2>7, <2>8, <2>9, <2>10, <2>11 DEF SystemNext, ScanStep
<1> QED
  BY <1>1, ScanInvHolds, PTL DEF SystemSpec, Forward

-----------------------------------------------------------------------------
(* What changes the records of a page. *)

LEMMA NextWrites ==
    ASSUME ListsInv, Next,
           NEW n \in DOMAIN pages \cap DOMAIN pages',
           pages[n].used, pages'[n].used, pages'[n].data # pages[n].data
    PROVE  outcome'.op = "writePage" /\ outcome'.page = n
<1>0. pages[n] \in AnyPage
  BY DEF ListsInv, TypeOK, AnyPage
<1>10. ASSUME NEW m, NEW page, NEW p, NEW link, m # n,
             pages' = Put(m, page, p, Relinked(p, link))
       PROVE  FALSE
  <2>1. CASE p = n
    <3>1. pages'[n] = [pages[n] EXCEPT !.next_page_number = link]
      BY <1>10, <2>1 DEF Put, Relinked
    <3> QED
      BY <1>0, <3>1 DEF AnyPage
  <2>2. CASE p # n
    BY <1>10, <2>2 DEF Put
  <2> QED
    BY <2>1, <2>2
<1>11. ASSUME NEW m, NEW page, NEW p, NEW before, p # m, pages' = Put(m, page, p, before)
       PROVE  pages'[m] = page
  BY <1>11 DEF Put
<1>1. ASSUME AllocatePage
      PROVE  FALSE
  <2>1. NewNumber \notin Used
    BY <1>1, NewIsUnused DEF AllocatePage, ListsInv
  <2>2. n # NewNumber
    BY <2>1 DEF Used
  <2>3. ASSUME NEW link, pages' = Put(NewNumber, NewPage(link), NewNumber, NewPage(link))
        PROVE  FALSE
    BY <2>2, <2>3 DEF Put
  <2>4. ASSUME NEW link, NEW p, NEW new, pages' = Put(NewNumber, NewPage(link), p, Relinked(p, new))
        PROVE  FALSE
    BY <2>2, <2>4, <1>10
  <2> QED
    BY <1>1, <2>3, <2>4 DEF AllocatePage
<1>2. ASSUME NEW m \in PageNo, DeletePage(m)
      PROVE  FALSE
  <2>1. ASSUME NEW link, m \in Used, pages' = [pages EXCEPT ![m] = Cleared(link)]
        PROVE  FALSE
    BY <2>1 DEF Cleared
  <2>2. ASSUME NEW link, NEW p, NEW past, p # m, pages' = Put(m, Cleared(link), p, Relinked(p, past))
        PROVE  FALSE
    <3>1. m = n => FALSE
      <4>1. m = n => pages'[n] = Cleared(link)
        BY <2>2, <1>11
      <4>2. ~Cleared(link).used
        BY DEF Cleared
      <4> QED
        BY <4>1, <4>2
    <3> QED
      BY <3>1, <2>2, <1>10
  <2> DEFINE pointing == {p \in Used : pages[p].next_page_number = m}
  <2>3. ASSUME m \in Used, m # header.first_used_page, NEW p \in BreaksAt(pointing)
        PROVE  p # m
    <3>1. \A q \in Used : q \in pointing <=> pages[q].next_page_number = m
      OBVIOUS
    <3> HIDE DEF pointing
    <3> QED
      BY <2>3, <3>1, NotItself
  <2> QED
    BY <1>2, <2>1, <2>2, <2>3 DEF DeletePage
<1>3. ASSUME NEW m \in PageNo, ReadPage(m)
      PROVE  FALSE
  BY <1>3 DEF ReadPage, fileVars
<1>4. ASSUME NEW m \in PageNo, NEW d \in Data, WritePage(m, d)
      PROVE  outcome'.op = "writePage" /\ outcome'.page = n
  BY <1>4 DEF WritePage, Outcome
<1> QED
  BY <1>1, <1>2, <1>3, <1>4 DEF Next

(* filescan.cpp, markDirty, and buffer.cpp, unPinPage and flushFile: the   *)
(* records of a used page change only when a caller writes the page, or    *)
(* when a frame of it is written back that the scan was told is dirty.     *)
THEOREM OnlyWrites == SystemSpec => OnlyWritesChange
<1> DEFINE Writes == \A n \in DOMAIN pages \cap DOMAIN pages' :
             pages[n].used /\ pages'[n].used /\ pages'[n].data # pages[n].data
                 => \/ outcome'.op = "writePage" /\ outcome'.page = n
                    \/ outcome'.op \in {"evict", "~FileScan"} /\ n \in marked
<1>1. ASSUME ScanInv, [SystemNext]_systemVars PROVE [Writes]_systemVars
  <2>0. ListsInv /\ ScanOnly
    BY <1>1 DEF ScanInv
  <2>1. UNCHANGED pages => Writes
    OBVIOUS
  <2>2. pages' = NoPages => Writes
    BY DEF NoPages
  <2> HIDE DEF Writes
  <2>3. ASSUME NEW h, NEW name, NEW create_new, Construct(h, name, create_new)
        PROVE  Writes
    BY <2>1, <2>2, <2>3 DEF Construct, fileVars
  <2>4. ASSUME NEW frs, pages' = WrittenBack(frs), header' = header,
                \A m \in DOMAIN frs : frs[m] \in AnyFrame /\ (frs[m].dirty => m \in marked),
                NEW op \in {"evict", "~FileScan"}, Result(op, "ok")
         PROVE  Writes
    <3>1. \A n \in DOMAIN pages' : pages'[n].data # pages[n].data => n \in DOMAIN frs /\ frs[n].dirty
      BY <2>0, <2>4, BackLists
    <3>2. outcome'.op = op
      BY <2>4 DEF Result, Outcome
    <3> QED
      BY <2>4, <3>1, <3>2 DEF Writes
  <2>5. CASE Others
    <3>1. CASE Next
      BY <2>0, <3>1, NextWrites DEF Writes
    <3>2. ASSUME NEW h, NEW other, CopyConstruct(h, other) \/ Assign(h, other) \/ Destroy(h)
          PROVE  Writes
      BY <2>1, <2>3, <3>2 DEF CopyConstruct, Assign, Destroy, fileVars
    <3>3. ASSUME NEW name, Remove(name) PROVE Writes
      BY <2>1, <2>2, <3>3 DEF Remove, fileVars
    <3> QED
      BY <2>3, <2>5, <3>1, <3>2, <3>3 DEF Others, HandlesNext, HandleNext, PageNext
  <2>6. CASE OpenScan
    BY <2>3, <2>6 DEF OpenScan
  <2>7. CASE CloseScan
    <3>1. CASE UNCHANGED fileVars
      BY <2>1, <3>1 DEF fileVars
    <3>2. ASSUME NEW left, left = UnPinned(frames), pages' = WrittenBack(left), header' = header,
                 Result("~FileScan", "ok")
          PROVE  Writes
      <4>1. \A m \in DOMAIN left : left[m] \in AnyFrame /\ (left[m].dirty => m \in marked)
        BY <2>0, <3>2, UnPinnedFine DEF FramesFine
      <4> QED
        BY <2>4, <3>2, <4>1
    <3> QED
      BY <2>7, <3>1, <3>2 DEF CloseScan
  <2>8. CASE MarkDirty
    BY <2>1, <2>8 DEF MarkDirty, fileVars
  <2>9. CASE ScanNext
    BY <2>1, <2>9 DEF ScanNext, fileVars
  <2>10. ASSUME NEW e \in PageNo, Evict(e) PROVE Writes
    <3>1. header' = header /\ e \in DOMAIN frames
      BY <2>10 DEF Evict, Hashed
    <3>2. CASE UNCHANGED pages
      BY <2>1, <3>2
    <3>3. ASSUME NEW frame \in AnyFrame, frame.dirty => e \in marked,
                 pages' = WrittenBack([m \in {e} |-> frame]), Result("evict", "ok")
          PROVE  Writes
      <4>1. \A m \in DOMAIN [k \in {e} |-> frame] :
               [k \in {e} |-> frame][m] \in AnyFrame /\ ([k \in {e} |-> frame][m].dirty => m \in marked)
        BY <3>3
      <4> QED
        BY <2>4, <3>1, <3>3, <4>1
    <3>4. CASE pages' = WrittenBack([m \in {e} |-> frames[m]]) /\ Result("evict", "ok")
      <4>1. frames[e] \in AnyFrame /\ (frames[e].dirty => e \in marked)
        BY <2>0, <3>1 DEF ScanOnly, FramesFine
      <4>2. [m \in {e} |-> frames[m]] = [m \in {e} |-> frames[e]]
        OBVIOUS
      <4> QED
        BY <3>3, <3>4, <4>1, <4>2
    <3>5. ASSUME NEW f \in lost, f.page = e, pages' = WrittenBack([m \in {e} |-> f.frame]), Result("evict", "ok")
          PROVE  Writes
      <4>1. f.frame \in AnyFrame /\ (f.frame.dirty => e \in marked)
        BY <2>0, <3>5 DEF ScanOnly, LostFine
      <4> QED
        BY <3>3, <3>5, <4>1
    <3> QED
      BY <2>10, <3>2, <3>4, <3>5 DEF Evict
  <2>11. CASE UNCHANGED systemVars
    BY <2>11
  <2> QED
    BY <1>1, <2>5, <2>6, <2>7, <2>8, <2>9, <2>10, <2>11 DEF SystemNext, ScanStep
<1> QED
  BY <1>1, ScanInvHolds, PTL DEF SystemSpec, OnlyWritesChange
=============================================================================

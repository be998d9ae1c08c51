--------------------------- MODULE PageFileProofs ---------------------------
(***************************************************************************)
(* Proofs about the two lists of pages in a file, for files of any size.   *)
(***************************************************************************)
EXTENDS PageFile, FiniteSetTheorems, WellFoundedInduction, TLAPS

LEMMA LeastIndex ==
    ASSUME NEW T \in SUBSET Nat, T # {}
    PROVE  \E m \in T : \A k \in T : ~(k < m)
<1>1. \E m \in T : \A k \in T : ~(<<k, m>> \in OpToRel(<, Nat))
  BY NatLessThanWellFounded, WFMin
<1>2. \A k, m \in Nat : k < m => <<k, m>> \in OpToRel(<, Nat)
  BY DEF OpToRel
<1> QED
  BY <1>1, <1>2

-----------------------------------------------------------------------------
(* The list of used pages: U are the numbers of its pages, and pgs tells   *)
(* their links.                                                            *)

LEMMA Numbers == \A n \in PageNo : n \in Int /\ n # INVALID_NUMBER /\ n > INVALID_NUMBER
BY BoundAssumption DEF PageNo, INVALID_NUMBER

Ascending(first, U, pgs) ==
    /\ IsLeast(first, U)
    /\ \A p \in U : IsLeast(pgs[p].next_page_number, {q \in U : q > p})

LEMMA InsertedFirst ==
    ASSUME NEW U \in SUBSET PageNo, NEW first, NEW pgs, Ascending(first, U, pgs),
           NEW n \in PageNo, n \notin U, first = INVALID_NUMBER \/ first > n,
           NEW pgs2, pgs2[n].next_page_number = first,
           \A u \in U : pgs2[u].next_page_number = pgs[u].next_page_number
    PROVE  Ascending(n, U \cup {n}, pgs2)
<1>0. n \in Int /\ \A u \in U : u \in Int /\ u # n /\ u # INVALID_NUMBER
  BY Numbers
<1>1. ASSUME NEW u \in U PROVE u > n
  <2>1. first \in U /\ first <= u
    BY DEF Ascending, IsLeast
  <2> QED
    BY <1>0, <2>1
<1>2. IsLeast(n, U \cup {n})
  BY <1>0, <1>1 DEF IsLeast
<1>3. {q \in U \cup {n} : q > n} = U
  <2>1. \A q \in U \cup {n} : q > n <=> q \in U
    BY <1>0, <1>1
  <2> QED
    BY <2>1
<1>4. \A p \in U : {q \in U \cup {n} : q > p} = {q \in U : q > p}
  BY <1>0, <1>1
<1> QED
  BY <1>2, <1>3, <1>4 DEF Ascending

LEMMA InsertedAfter ==
    ASSUME NEW U \in SUBSET PageNo, NEW first, NEW pgs, Ascending(first, U, pgs),
           NEW n \in PageNo, n \notin U, NEW p \in U, p < n,
           pgs[p].next_page_number > n \/ pgs[p].next_page_number = INVALID_NUMBER,
           NEW pgs2, pgs2[p].next_page_number = n,
           pgs2[n].next_page_number = pgs[p].next_page_number,
           \A u \in U \ {p} : pgs2[u].next_page_number = pgs[u].next_page_number
    PROVE  Ascending(first, U \cup {n}, pgs2)
<1>1. n \in Int /\ \A u \in U : u \in Int /\ u # n /\ u # INVALID_NUMBER
  BY Numbers
<1>2. ASSUME NEW u \in U, u > p PROVE u > n
  <2>1. pgs[p].next_page_number \in U /\ pgs[p].next_page_number <= u
    BY <1>2 DEF Ascending, IsLeast
  <2>2. pgs[p].next_page_number \in Int /\ pgs[p].next_page_number > n
    BY <1>1, <2>1
  <2> QED
    BY <1>1, <2>1, <2>2
<1>3. IsLeast(first, U \cup {n})
  <2>1. first \in U /\ \A u \in U : first <= u
    BY DEF Ascending, IsLeast
  <2> QED
    BY <1>1, <2>1 DEF IsLeast
<1>4. IsLeast(n, {q \in U \cup {n} : q > p})
  BY <1>1, <1>2 DEF IsLeast
<1>5. IsLeast(pgs[p].next_page_number, {q \in U \cup {n} : q > n})
  <2>1. ASSUME NEW q \in U \cup {n} PROVE q > n <=> q \in U /\ q > p
    BY <1>1, <1>2
  <2>2. {q \in U \cup {n} : q > n} = {q \in U : q > p}
    BY <2>1
  <2> QED
    BY <2>2 DEF Ascending
<1>6. ASSUME NEW u \in U \ {p}
      PROVE  IsLeast(pgs[u].next_page_number, {q \in U \cup {n} : q > u})
  <2>1. IsLeast(pgs[u].next_page_number, {q \in U : q > u})
    BY DEF Ascending
  <2>2. CASE u > p
    <3>1. {q \in U \cup {n} : q > u} = {q \in U : q > u}
      BY <1>1, <1>2, <2>2
    <3> QED
      BY <2>1, <3>1
  <2>3. CASE u < p
    <3> DEFINE next == pgs[u].next_page_number
    <3>1. next \in U /\ next > u /\ \A q \in U : q > u => next <= q
      BY <1>1, <2>1, <2>3 DEF IsLeast
    <3>2. next <= n
      BY <1>1, <2>3, <3>1
    <3> HIDE DEF next
    <3>3. IsLeast(next, {q \in U \cup {n} : q > u})
      BY <3>1, <3>2 DEF IsLeast
    <3> QED
      BY <3>3 DEF next
  <2> QED
    BY <1>1, <2>2, <2>3
<1>7. \A u \in U \ {p} : IsLeast(pgs2[u].next_page_number, {q \in U \cup {n} : q > u})
  BY <1>6
<1> QED
  BY <1>3, <1>4, <1>5, <1>7 DEF Ascending

LEMMA RemovedFirst ==
    ASSUME NEW U \in SUBSET PageNo, NEW n \in U, NEW pgs, Ascending(n, U, pgs),
           NEW pgs2, \A u \in U \ {n} : pgs2[u].next_page_number = pgs[u].next_page_number
    PROVE  Ascending(pgs[n].next_page_number, U \ {n}, pgs2)
<1>1. \A u \in U : u \in Int
  BY BoundAssumption DEF PageNo
<1>2. \A u \in U \ {n} : u > n
  BY <1>1 DEF Ascending, IsLeast
<1>3. U \ {n} = {q \in U : q > n}
  BY <1>1, <1>2
<1>4. \A p \in U \ {n} : {q \in U \ {n} : q > p} = {q \in U : q > p}
  BY <1>1, <1>2
<1> QED
  BY <1>3, <1>4 DEF Ascending

LEMMA RemovedAfter ==
    ASSUME NEW U \in SUBSET PageNo, NEW first, NEW pgs, Ascending(first, U, pgs),
           NEW n \in U, NEW p \in U, pgs[p].next_page_number = n,
           NEW pgs2, pgs2[p].next_page_number = pgs[n].next_page_number,
           \A u \in U \ {n, p} : pgs2[u].next_page_number = pgs[u].next_page_number
    PROVE  Ascending(first, U \ {n}, pgs2)
<1>1. \A u \in U : u \in Int /\ u # INVALID_NUMBER
  BY BoundAssumption DEF PageNo, INVALID_NUMBER
<1>2. n > p /\ \A u \in U : u > p => u >= n
  BY <1>1 DEF Ascending, IsLeast
<1>3. IsLeast(first, U \ {n})
  <2>1. first \in U /\ \A u \in U : first <= u
    BY DEF Ascending, IsLeast
  <2>2. first # n
    BY <1>1, <1>2, <2>1
  <2> QED
    BY <2>1, <2>2 DEF IsLeast
<1>4. {q \in U \ {n} : q > p} = {q \in U : q > n}
  BY <1>1, <1>2
<1>5. ASSUME NEW u \in U \ {n, p}
      PROVE  IsLeast(pgs[u].next_page_number, {q \in U \ {n} : q > u})
  <2>1. IsLeast(pgs[u].next_page_number, {q \in U : q > u})
    BY DEF Ascending
  <2>2. CASE u > n
    <3>1. {q \in U \ {n} : q > u} = {q \in U : q > u}
      BY <1>1, <2>2
    <3> QED
      BY <2>1, <3>1
  <2>3. CASE u < p
    <3>1. /\ pgs[u].next_page_number \in {q \in U : q > u}
          /\ \A q \in {r \in U : r > u} : pgs[u].next_page_number <= q
      BY <2>1, <2>3 DEF IsLeast
    <3>2. pgs[u].next_page_number # n
      BY <1>1, <1>2, <2>3, <3>1
    <3> QED
      BY <3>1, <3>2 DEF IsLeast
  <2> QED
    BY <1>1, <1>2, <2>2, <2>3
<1>6. IsLeast(pgs2[p].next_page_number, {q \in U \ {n} : q > p})
  <2>1. IsLeast(pgs[n].next_page_number, {q \in U : q > n})
    BY DEF Ascending
  <2> QED
    BY <1>4, <2>1
<1>7. ASSUME NEW u \in U \ {n}
      PROVE  IsLeast(pgs2[u].next_page_number, {q \in U \ {n} : q > u})
  <2>1. CASE u = p
    BY <1>6, <2>1
  <2>2. CASE u # p
    BY <1>5, <2>2
  <2> QED
    BY <2>1, <2>2
<1> QED
  BY <1>3, <1>7 DEF Ascending

-----------------------------------------------------------------------------
(* The list of free pages: F are the numbers of its pages. *)

FreeList(list, first, count, F, pgs) ==
    /\ list \in [1 .. count + 1 -> F \cup {INVALID_NUMBER}]
    /\ list[1] = first
    /\ {list[i] : i \in DOMAIN list} = F \cup {INVALID_NUMBER}
    /\ \A i \in 1 .. count : list[i] \in F /\ pgs[list[i]].next_page_number = list[i + 1]

Counted(first, count, F, pgs) ==
    /\ IsFiniteSet(F)
    /\ count \in Nat
    /\ count = Cardinality(F)
    /\ \E list : FreeList(list, first, count, F, pgs)

LEMMA Pushed ==
    ASSUME NEW F \in SUBSET PageNo, NEW first, NEW count, NEW pgs,
           Counted(first, count, F, pgs),
           NEW n \in PageNo, n \notin F,
           NEW pgs2, pgs2[n].next_page_number = first,
           \A f \in F : pgs2[f].next_page_number = pgs[f].next_page_number
    PROVE  Counted(n, count + 1, F \cup {n}, pgs2)
<1>1. PICK list : FreeList(list, first, count, F, pgs)
  BY DEF Counted
<1>2. count \in Nat
  BY DEF Counted
<1> DEFINE pushed == [i \in 1 .. (count + 1) + 1 |-> IF i = 1 THEN n ELSE list[i - 1]]
<1>3. \A i \in 1 .. (count + 1) + 1 : i # 1 => i - 1 \in 1 .. count + 1 /\ (i - 1) + 1 = i
  BY <1>2
<1>4. pushed \in [1 .. (count + 1) + 1 -> (F \cup {n}) \cup {INVALID_NUMBER}]
  BY <1>1, <1>3 DEF FreeList
<1>5. {pushed[i] : i \in DOMAIN pushed} = (F \cup {n}) \cup {INVALID_NUMBER}
  <2>1. ASSUME NEW f \in F \cup {INVALID_NUMBER}
        PROVE  \E i \in 1 .. (count + 1) + 1 : pushed[i] = f
    <3>1. PICK i \in 1 .. count + 1 : list[i] = f
      BY <1>1 DEF FreeList
    <3>2. i + 1 \in 1 .. (count + 1) + 1 /\ i + 1 # 1 /\ (i + 1) - 1 = i
      BY <1>2
    <3> QED
      BY <3>1, <3>2
  <2>2. 1 \in 1 .. (count + 1) + 1 /\ pushed[1] = n
    BY <1>2
  <2> HIDE DEF pushed
  <2>3. DOMAIN pushed = 1 .. (count + 1) + 1
    BY <1>4
  <2> QED
    BY <1>4, <2>1, <2>2, <2>3
<1>6. ASSUME NEW i \in 1 .. count + 1
      PROVE  pushed[i] \in F \cup {n} /\ pgs2[pushed[i]].next_page_number = pushed[i + 1]
  <2>1. i \in 1 .. (count + 1) + 1 /\ i + 1 \in 1 .. (count + 1) + 1 /\ i + 1 # 1 /\ (i + 1) - 1 = i
    BY <1>2
  <2>2. CASE i = 1
    BY <1>1, <2>1, <2>2 DEF FreeList
  <2>3. CASE i # 1
    <3>1. i - 1 \in 1 .. count /\ (i - 1) + 1 = i
      BY <1>2, <2>3
    <3>2. list[i - 1] \in F /\ pgs[list[i - 1]].next_page_number = list[i]
      BY <1>1, <3>1 DEF FreeList
    <3> QED
      BY <2>1, <2>3, <3>2
  <2> QED
    BY <2>2, <2>3
<1>7. FreeList(pushed, n, count + 1, F \cup {n}, pgs2)
  <2>1. pushed[1] = n
    BY <1>2
  <2> HIDE DEF pushed
  <2> QED
    BY <1>4, <1>5, <1>6, <2>1 DEF FreeList
<1>8. IsFiniteSet(F \cup {n}) /\ Cardinality(F \cup {n}) = count + 1
  BY FS_AddElement DEF Counted
<1>9. \E l : FreeList(l, n, count + 1, F \cup {n}, pgs2)
  BY <1>7
<1>10. count + 1 \in Nat
  BY <1>2
<1> QED
  BY <1>8, <1>9, <1>10 DEF Counted

(* No page is in the list twice: it is no longer than its pages are many.  *)
LEMMA Popped ==
    ASSUME NEW F \in SUBSET PageNo, NEW first, NEW count, NEW pgs,
           Counted(first, count, F, pgs), count > 0,
           NEW pgs2, \A f \in F \ {first} : pgs2[f].next_page_number = pgs[f].next_page_number
    PROVE  /\ first \in F
           /\ Counted(pgs[first].next_page_number, count - 1, F \ {first}, pgs2)
<1>1. PICK list : FreeList(list, first, count, F, pgs)
  BY DEF Counted
<1>2. count \in Nat /\ (count - 1) \in Nat /\ (count - 1) + 1 = count
  BY DEF Counted
<1> DEFINE G == F \cup {INVALID_NUMBER}
           popped == [i \in 1 .. (count - 1) + 1 |-> list[i + 1]]
<1>3. first \in F /\ pgs[first].next_page_number = list[2]
  BY <1>1, <1>2 DEF FreeList
<1>4. \A i, j \in 1 .. count + 1 : i # j => list[i] # list[j]
  <2>1. IsFiniteSet(1 .. count + 1) /\ Cardinality(1 .. count + 1) = count + 1
    <3>1. 1 \in Int /\ count + 1 \in Int /\ ~(1 > count + 1) /\ (count + 1) - 1 + 1 = count + 1
      BY <1>2
    <3> QED
      BY <3>1, FS_Interval
  <2>2. IsFiniteSet(G) /\ Cardinality(G) = count + 1
    BY Numbers, FS_AddElement DEF Counted
  <2>3. list \in Surjection(1 .. count + 1, G)
    BY <1>1 DEF FreeList, Surjection
  <2>4. list \in Injection(1 .. count + 1, G)
    BY <2>1, <2>2, <2>3, FS_SurjSameCardinalityImpliesInj
  <2> QED
    BY <2>4 DEF Injection, IsInjective
<1>5. \A i \in 1 .. (count - 1) + 1 : i + 1 \in 1 .. count + 1 /\ i + 1 # 1
  BY <1>2
<1>6. popped \in [1 .. (count - 1) + 1 -> (F \ {first}) \cup {INVALID_NUMBER}]
  <2>1. ASSUME NEW i \in 1 .. (count - 1) + 1
        PROVE  list[i + 1] \in (F \ {first}) \cup {INVALID_NUMBER}
    <3>1. 1 \in 1 .. count + 1
      BY <1>2
    <3>2. list[i + 1] # first
      BY <1>1, <1>4, <1>5, <3>1 DEF FreeList
    <3> QED
      BY <1>1, <1>5, <3>2 DEF FreeList
  <2> QED
    BY <2>1
<1>7. {popped[i] : i \in DOMAIN popped} = (F \ {first}) \cup {INVALID_NUMBER}
  <2>1. ASSUME NEW f \in (F \ {first}) \cup {INVALID_NUMBER}
        PROVE  \E i \in 1 .. (count - 1) + 1 : popped[i] = f
    <3>1. PICK i \in 1 .. count + 1 : list[i] = f
      BY <1>1 DEF FreeList
    <3>2. i # 1
      BY <1>1, <1>3, <3>1, Numbers DEF FreeList
    <3>3. i - 1 \in 1 .. (count - 1) + 1 /\ (i - 1) + 1 = i
      BY <1>2, <3>2
    <3> QED
      BY <3>1, <3>3
  <2> HIDE DEF popped
  <2> QED
    BY <1>6, <2>1
<1>8. ASSUME NEW i \in 1 .. count - 1
      PROVE  popped[i] \in F \ {first} /\ pgs2[popped[i]].next_page_number = popped[i + 1]
  <2>1. /\ i + 1 \in 1 .. count /\ i \in 1 .. (count - 1) + 1
        /\ i + 1 \in 1 .. (count - 1) + 1
        /\ i + 1 \in 1 .. count + 1 /\ 1 \in 1 .. count + 1 /\ i + 1 # 1
    BY <1>2
  <2>2. list[i + 1] \in F /\ pgs[list[i + 1]].next_page_number = list[(i + 1) + 1]
    BY <1>1, <2>1 DEF FreeList
  <2>3. list[i + 1] # first
    BY <1>1, <1>4, <2>1 DEF FreeList
  <2> QED
    BY <2>1, <2>2, <2>3
<1>9. FreeList(popped, pgs[first].next_page_number, count - 1, F \ {first}, pgs2)
  <2>1. popped[1] = list[2]
    BY <1>2
  <2> HIDE DEF popped
  <2> QED
    BY <1>3, <1>6, <1>7, <1>8, <2>1 DEF FreeList
<1>10. IsFiniteSet(F \ {first}) /\ Cardinality(F \ {first}) = count - 1
  BY <1>3, FS_RemoveElement DEF Counted
<1> QED
  BY <1>2, <1>3, <1>9, <1>10 DEF Counted

-----------------------------------------------------------------------------
(* The loops over the used pages. *)

LEMMA OnTheWay ==
    ASSUME NEW n, NEW S, NEW p \in Visited(n, S)
    PROVE  \E l \in Nat : \E path \in [1 .. l -> DOMAIN pages] : \E i \in 1 .. l :
              /\ IsWay(path, n, S)
              /\ p = path[i]
<1>1. PICK path \in UNION {[1 .. l -> DOMAIN pages] : l \in 1 .. Cardinality(DOMAIN pages)} :
          IsWay(path, n, S) /\ p \in {path[i] : i \in DOMAIN path}
  BY DEF Visited
<1>2. PICK l \in 1 .. Cardinality(DOMAIN pages) : path \in [1 .. l -> DOMAIN pages]
  BY <1>1
<1>3. l \in Nat
  BY <1>2
<1> QED
  BY <1>1, <1>2, <1>3

(* allocatePage stops at a page before the new one. *)
LEMMA StopsBefore ==
    ASSUME UsedListExact, Used \subseteq PageNo,
           NEW n \in PageNo, n \notin Used, ~GoesFirst(n),
           NEW p \in BreaksAt(Precedes(n))
    PROVE  /\ p \in Used /\ p < n
           /\ \/ pages[p].next_page_number > n
              \/ pages[p].next_page_number = INVALID_NUMBER
<1>1. /\ p \in Used /\ p \in Precedes(n)
      /\ p \in Visited(header.first_used_page, Precedes(n))
  BY DEF BreaksAt, EndsAt
<1>l. PICK l \in Nat : \E path \in [1 .. l -> DOMAIN pages] : \E i \in 1 .. l :
          IsWay(path, header.first_used_page, Precedes(n)) /\ p = path[i]
  BY <1>1, OnTheWay
<1>2. PICK path \in [1 .. l -> DOMAIN pages] : \E i \in 1 .. l :
          IsWay(path, header.first_used_page, Precedes(n)) /\ p = path[i]
  BY <1>l
<1>3. PICK i \in 1 .. l : p = path[i]
  BY <1>2
<1>4. n \in Int /\ p \in Int /\ p # n
  BY <1>1, Numbers
<1>5. CASE i = 1
  <2>1. p = header.first_used_page
    BY <1>2, <1>3, <1>5 DEF IsWay
  <2> QED
    BY <1>1, <1>4, <2>1 DEF GoesFirst, Precedes
<1>6. CASE i # 1
  <2>1. i - 1 \in 1 .. l /\ (i - 1) + 1 = i
    BY <1>6
  <2>2. path[i - 1] \in Used \ Precedes(n) /\ p = pages[path[i - 1]].next_page_number
    BY <1>2, <1>3, <2>1 DEF IsWay
  <2>3. ~(p > n)
    BY <2>2 DEF Precedes
  <2> QED
    BY <1>1, <1>4, <2>3 DEF Precedes
<1> QED
  BY <1>5, <1>6

(* deletePage finds a page before the deleted one: the way on, did it not  *)
(* stop, would lead past the deleted page without coming to it.            *)
LEMMA FindsBefore ==
    ASSUME UsedListExact, Used \subseteq PageNo,
           NEW n \in Used, n # header.first_used_page,
           NEW S, \A p \in Used : p \in S <=> pages[p].next_page_number = n
    PROVE  ~ComesToEnd(header.first_used_page, S)
<1> SUFFICES ASSUME NEW first, first = header.first_used_page
             PROVE  ~ComesToEnd(first, S)
  OBVIOUS
<1>1. /\ first \in Used /\ first < n /\ first # INVALID_NUMBER
      /\ \A u \in Used : u \in Int /\ u # INVALID_NUMBER
  <2>1. first \in Used /\ first <= n
    BY DEF UsedListExact, IsLeast
  <2> QED
    BY <2>1, Numbers
<1>2. ASSUME NEW p \in (Visited(first, S) \cap Used) \ S,
             pages[p].next_page_number = INVALID_NUMBER
      PROVE  FALSE
  <2>p. p \in Visited(first, S)
    BY <1>2
  <2>l. PICK l \in Nat : \E path \in [1 .. l -> DOMAIN pages] : \E i \in 1 .. l :
            IsWay(path, first, S) /\ p = path[i]
    BY <2>p, OnTheWay
  <2>1. PICK path \in [1 .. l -> DOMAIN pages] : \E i \in 1 .. l : IsWay(path, first, S) /\ p = path[i]
    BY <2>l
  <2>2. PICK i \in 1 .. l : p = path[i]
    BY <2>1
  <2> DEFINE Past == {k \in 1 .. i : path[k] \notin Used \/ ~(path[k] < n)}
  <2>3. Past = {}
    <3> SUFFICES ASSUME Past # {} PROVE FALSE
      OBVIOUS
    <3>1. PICK m \in Past : \A k \in Past : ~(k < m)
      <4>1. Past \in SUBSET Nat
        OBVIOUS
      <4> HIDE DEF Past
      <4> QED
        BY <4>1, LeastIndex
    <3>2. m # 1
      BY <1>1, <2>1, <3>1 DEF IsWay
    <3>3. /\ m \in 1 .. i /\ m - 1 \in 1 .. i /\ (m - 1) + 1 = m /\ m - 1 < m
          /\ m \in 1 .. l /\ m - 1 \in 1 .. l
      BY <3>1, <3>2
    <3>4. path[m - 1] \in Used /\ path[m - 1] < n
      BY <3>1, <3>3
    <3>5. path[m - 1] \in Used \ S /\ path[m] = pages[path[m - 1]].next_page_number
      BY <2>1, <3>3 DEF IsWay
    <3>6. path[m] # n
      BY <3>5
    <3>7. path[m] \in Used /\ path[m] <= n
      BY <1>1, <3>4, <3>5 DEF UsedListExact, IsLeast
    <3> QED
      BY <1>1, <3>1, <3>6, <3>7
  <2>4. p \in Used /\ p < n
    BY <2>2, <2>3
  <2>5. INVALID_NUMBER \in Used
    BY <1>1, <1>2, <2>4 DEF UsedListExact, IsLeast
  <2> QED
    BY <1>1, <2>5
<1> QED
  BY <1>1, <1>2 DEF ComesToEnd

-----------------------------------------------------------------------------
(* The invariant.  A file that is never emptied has no pages when it has   *)
(* no used page, so that the first page allocated after that is a new one, *)
(* whose link leads nowhere; else the page comes from the free list, and   *)
(* keeps its link to the next free page.                                   *)

FreeCounted == Counted(header.first_free_page, header.num_free_pages, Free, pages)

UsedAscending == Ascending(header.first_used_page, Used, pages)

NeverBlank == Used = {} => DOMAIN pages = {}

ListsInv ==
    /\ TypeOK
    /\ FreeCounted
    /\ NeverEmptied => UsedAscending /\ NeverBlank

LEMMA InvIsLists ==
    ListsInv => /\ TypeOK /\ FreeListExact
                /\ NeverEmptied => UsedListExact
BY DEF ListsInv, FreeCounted, Counted, FreeList, FreeListExact, UsedAscending, Ascending, UsedListExact

(* What a step leaves of the pages: n has changed its state and its link,  *)
(* and p its link, as long as it is another.                               *)
LEMMA PutPages ==
    ASSUME NEW n, NEW page, NEW p, NEW before, NEW new, new = Put(n, page, p, before),
           p \in DOMAIN pages \cup {n}
    PROVE  /\ DOMAIN new = DOMAIN pages \cup {n}
           /\ new = [m \in DOMAIN new |-> new[m]]
           /\ p # n \/ before = page => new[n] = page /\ new[p] = before
           /\ \A m \in DOMAIN pages \ {n, p} : new[m] = pages[m]
BY DEF Put

LEMMA CountFits ==
    ASSUME NEW first, NEW count, NEW F \in SUBSET PageNo, NEW pgs, Counted(first, count, F, pgs)
    PROVE  count \in 0 .. MaxPages /\ first \in Link
<1>1. MaxPages \in Nat
  BY BoundAssumption
<1>2. IsFiniteSet(PageNo) /\ Cardinality(PageNo) = MaxPages
  <2>1. 1 \in Int /\ MaxPages \in Int /\ (1 > MaxPages => MaxPages = 0) /\ MaxPages - 1 + 1 = MaxPages
    BY <1>1
  <2> QED
    BY <2>1, FS_Interval DEF PageNo
<1>3. Cardinality(F) <= Cardinality(PageNo)
  BY <1>2, FS_Subset
<1>4. PICK list : FreeList(list, first, count, F, pgs)
  BY DEF Counted
<1>5. 1 \in 1 .. count + 1
  BY DEF Counted
<1>6. first \in F \cup {INVALID_NUMBER}
  BY <1>4, <1>5 DEF FreeList
<1> QED
  BY <1>1, <1>2, <1>3, <1>6 DEF Counted, Link

AnyPage == [used : BOOLEAN, next_page_number : Link, data : Data]

LEMMA Typed ==
    ASSUME TypeOK
    PROVE  /\ header.num_pages \in 1 .. MaxPages + 1
           /\ header.num_pages \in Int /\ MaxPages \in Nat
           /\ DOMAIN pages = 1 .. header.num_pages - 1
           /\ DOMAIN pages \subseteq PageNo
           /\ \A m \in DOMAIN pages : pages[m] \in AnyPage
           /\ Used \subseteq PageNo /\ Free \subseteq PageNo
           /\ header.first_used_page \in Link /\ header.first_free_page \in Link
<1>1. header.num_pages \in 1 .. MaxPages + 1 /\ MaxPages \in Nat
  BY BoundAssumption DEF TypeOK
<1>2. DOMAIN pages = 1 .. header.num_pages - 1 /\ \A m \in DOMAIN pages : pages[m] \in AnyPage
  BY DEF TypeOK, AnyPage
<1>3. DOMAIN pages \subseteq PageNo
  BY <1>1, <1>2 DEF PageNo
<1>4. header.first_used_page \in Link /\ header.first_free_page \in Link
  BY DEF TypeOK
<1> QED
  BY <1>1, <1>2, <1>3, <1>4 DEF Used, Free

LEMMA StillCounted ==
    ASSUME NEW F, NEW first, NEW count, NEW pgs, Counted(first, count, F, pgs),
           NEW pgs2, \A f \in F : pgs2[f].next_page_number = pgs[f].next_page_number
    PROVE  Counted(first, count, F, pgs2)
<1>1. PICK list : FreeList(list, first, count, F, pgs)
  BY DEF Counted
<1>2. FreeList(list, first, count, F, pgs2)
  BY <1>1 DEF FreeList
<1>3. \E l : FreeList(l, first, count, F, pgs2)
  BY <1>2
<1> QED
  BY <1>3 DEF Counted

(* The type of what a step leaves, from its parts. *)
LEMMA TypeFromParts ==
    ASSUME NEW nums, NEW used1, NEW nfree, NEW free1, NEW new,
           header' = [num_pages |-> nums, first_used_page |-> used1,
                      num_free_pages |-> nfree, first_free_page |-> free1],
           pages' = new, new = [m \in DOMAIN new |-> new[m]],
           nums \in 1 .. MaxPages + 1, DOMAIN new = 1 .. nums - 1,
           \A m \in DOMAIN new : new[m] \in AnyPage,
           used1 \in Link,
           Counted(free1, nfree, Free', new)
    PROVE  TypeOK' /\ FreeCounted'
<1>1. Free' \in SUBSET PageNo
  <2>1. nums \in Int /\ nums - 1 <= MaxPages
    BY BoundAssumption
  <2> QED
    BY <2>1, BoundAssumption DEF Free, PageNo
<1>2. nfree \in 0 .. MaxPages /\ free1 \in Link
  BY <1>1, CountFits
<1>3. header' \in [num_pages : 1 .. MaxPages + 1, first_used_page : Link,
                   num_free_pages : 0 .. MaxPages, first_free_page : Link]
  BY <1>2
<1>4. new \in [1 .. nums - 1 -> AnyPage]
  OBVIOUS
<1>5. header.num_pages' = nums
  OBVIOUS
<1> QED
  BY <1>3, <1>4, <1>5 DEF TypeOK, AnyPage, FreeCounted

(* allocatePage, wherever the page goes in the list. *)
LEMMA Allocated ==
    ASSUME TypeOK, FreeCounted,
           NEW n, n = NewNumber, Reuses \/ header.num_pages <= MaxPages,
           header' = HeaderWith(n),
           NEW new, pages' = new, new = [m \in DOMAIN new |-> new[m]],
           DOMAIN new = DOMAIN pages \cup {n},
           NEW link \in Link, new[n] = NewPage(link),
           \A m \in DOMAIN pages \ {n} : new[m] \in AnyPage /\ new[m].used = pages[m].used,
           \A f \in Free \ {n} : new[f] = pages[f]
    PROVE  /\ n \in PageNo /\ n \notin Used
           /\ TypeOK' /\ FreeCounted'
           /\ Used' = Used \cup {n}
<1>1. new[n] \in AnyPage /\ new[n].used
  BY DataAssumption DEF NewPage, AnyPage
<1>2. /\ header.num_free_pages \in Nat
      /\ Reuses => n \in Free /\ Counted(pages[n].next_page_number, header.num_free_pages - 1, Free \ {n}, new)
      /\ ~Reuses => header.num_free_pages = 0 /\ Free = {} /\ n = header.num_pages
  <2>1. header.num_free_pages \in Nat
    BY DEF FreeCounted, Counted
  <2>2. CASE Reuses
    <3>1. n = header.first_free_page
      BY <2>2 DEF NewNumber
    <3>2. Free \in SUBSET PageNo
      BY Typed
    <3>3. header.num_free_pages > 0
      BY <2>2 DEF Reuses
    <3>4. Counted(n, header.num_free_pages, Free, pages)
      BY <3>1 DEF FreeCounted
    <3>5. \A f \in Free \ {n} : new[f].next_page_number = pages[f].next_page_number
      OBVIOUS
    <3>6. /\ n \in Free
          /\ Counted(pages[n].next_page_number, header.num_free_pages - 1, Free \ {n}, new)
      BY <3>2, <3>3, <3>4, <3>5, Popped
    <3> QED
      BY <2>1, <2>2, <3>6
  <2>3. CASE ~Reuses
    <3>1. header.num_free_pages = 0
      BY <2>1, <2>3 DEF Reuses
    <3>2. Free = {}
      BY <3>1, FS_EmptySet DEF FreeCounted, Counted
    <3> QED
      BY <2>1, <2>3, <3>1, <3>2 DEF NewNumber
  <2> QED
    BY <2>1, <2>2, <2>3
<1>3. n \in PageNo /\ n \notin Used
  <2>1. CASE Reuses
    BY <1>2, <2>1, Typed DEF Free
  <2>2. CASE ~Reuses
    BY <1>2, <2>2, Typed DEF Used, PageNo
  <2> QED
    BY <2>1, <2>2
<1>4. Used' = Used \cup {n} /\ Free' = Free \ {n}
  <2>1. Used' = Used \cup {n}
    BY <1>1 DEF Used
  <2> QED
    BY <2>1, <1>3 DEF Free
<1> DEFINE nums == IF Reuses THEN header.num_pages ELSE header.num_pages + 1
           nfree == IF Reuses THEN header.num_free_pages - 1 ELSE header.num_free_pages
           free1 == IF Reuses THEN pages[n].next_page_number ELSE header.first_free_page
           used1 == IF GoesFirst(n) THEN n ELSE header.first_used_page
<1>5. header' = [num_pages |-> nums, first_used_page |-> used1,
                 num_free_pages |-> nfree, first_free_page |-> free1]
  BY <1>2 DEF HeaderWith, OneLess, OldLink, Free
<1>6. nums \in 1 .. MaxPages + 1 /\ DOMAIN new = 1 .. nums - 1
  <2>1. CASE Reuses
    BY <1>2, <2>1, Typed DEF Free
  <2>2. CASE ~Reuses
    <3>1. header.num_pages + 1 \in 1 .. MaxPages + 1
      BY <2>2, Typed
    <3>2. (1 .. header.num_pages - 1) \cup {header.num_pages} = 1 .. (header.num_pages + 1) - 1
      BY Typed
    <3> QED
      BY <1>2, <2>2, <3>1, <3>2, Typed
  <2> QED
    BY <2>1, <2>2
<1>7. \A m \in DOMAIN new : new[m] \in AnyPage
  BY <1>1
<1>8. used1 \in Link
  BY <1>3, Typed DEF Link
<1>9. Counted(free1, nfree, Free', new)
  <2>1. CASE Reuses
    BY <1>2, <1>4, <2>1
  <2>2. CASE ~Reuses
    <3>1. Free' = Free
      BY <1>2, <1>4, <2>2
    <3>2. \A f \in Free : new[f].next_page_number = pages[f].next_page_number
      BY <1>2, <2>2
    <3>3. Counted(header.first_free_page, header.num_free_pages, Free, new)
      BY <3>2, StillCounted DEF FreeCounted
    <3> QED
      BY <2>2, <3>1, <3>3
  <2> QED
    BY <2>1, <2>2
<1>10. TypeOK' /\ FreeCounted'
  <2> HIDE DEF nums, nfree, free1, used1
  <2> QED
    BY <1>5, <1>6, <1>7, <1>8, <1>9, TypeFromParts
<1> QED
  BY <1>3, <1>4, <1>10

(* deletePage, wherever the page was in the list. *)
LEMMA Deleted ==
    ASSUME TypeOK, FreeCounted,
           NEW n \in Used, NEW first \in Link, header' = WithFree(n, first),
           NEW new, pages' = new, new = [m \in DOMAIN new |-> new[m]],
           DOMAIN new = DOMAIN pages,
           new[n] = Cleared(header.first_free_page),
           \A m \in DOMAIN pages \ {n} : new[m] \in AnyPage /\ new[m].used = pages[m].used,
           \A f \in Free : new[f] = pages[f]
    PROVE  /\ TypeOK' /\ FreeCounted'
           /\ Used' = Used \ {n}
<1>1. n \in DOMAIN pages /\ n \in PageNo /\ n \notin Free
  BY Typed DEF Used, Free
<1>2. new[n] \in AnyPage /\ ~new[n].used /\ new[n].next_page_number = header.first_free_page
  BY Typed, DataAssumption DEF Cleared, AnyPage
<1>3. Used' = Used \ {n} /\ Free' = Free \cup {n}
  <2>1. Used' = Used \ {n}
    BY <1>2 DEF Used
  <2> QED
    BY <1>1, <2>1 DEF Free
<1>4. Counted(n, header.num_free_pages + 1, Free \cup {n}, new)
  <2>1. Free \in SUBSET PageNo
    BY Typed
  <2>2. \A f \in Free : new[f].next_page_number = pages[f].next_page_number
    OBVIOUS
  <2> QED
    BY <1>1, <1>2, <2>1, <2>2, Pushed DEF FreeCounted
<1>5. header' = [num_pages |-> header.num_pages, first_used_page |-> first,
                 num_free_pages |-> header.num_free_pages + 1, first_free_page |-> n]
  BY DEF WithFree, TypeOK
<1>6. \A m \in DOMAIN new : new[m] \in AnyPage
  BY <1>2
<1>7. TypeOK' /\ FreeCounted'
  <2> DEFINE nfree == header.num_free_pages + 1
             nums == header.num_pages
  <2>1. Counted(n, nfree, Free', new)
    BY <1>3, <1>4
  <2>2. nums \in 1 .. MaxPages + 1 /\ DOMAIN new = 1 .. nums - 1
    BY Typed
  <2>3. header' = [num_pages |-> nums, first_used_page |-> first, num_free_pages |-> nfree, first_free_page |-> n]
    BY <1>5
  <2> HIDE DEF nfree, nums
  <2> QED
    BY <1>6, <2>1, <2>2, <2>3, TypeFromParts
<1> QED
  BY <1>3, <1>7

(* Pages are written as they are linked. *)
LEMMA Rewritten ==
    ASSUME ListsInv, header' = header,
           NEW new, pages' = new, new = [m \in DOMAIN new |-> new[m]],
           DOMAIN new = DOMAIN pages,
           \A m \in DOMAIN pages :
              /\ new[m] \in AnyPage
              /\ new[m].used = pages[m].used
              /\ new[m].next_page_number = pages[m].next_page_number
    PROVE  ListsInv'
<1>1. Used' = Used /\ Free' = Free
  BY DEF Used, Free
<1>2. TypeOK'
  BY DEF ListsInv, TypeOK, AnyPage
<1>3. FreeCounted'
  <2>1. \A f \in Free : new[f].next_page_number = pages[f].next_page_number
    BY DEF Free
  <2>2. Counted(header.first_free_page, header.num_free_pages, Free, new)
    BY <2>1, StillCounted DEF ListsInv, FreeCounted
  <2> QED
    BY <1>1, <2>2 DEF FreeCounted
<1>4. UsedAscending => UsedAscending'
  <2>1. \A u \in Used : new[u].next_page_number = pages[u].next_page_number
    BY DEF Used
  <2> QED
    BY <1>1, <2>1 DEF UsedAscending, Ascending
<1>5. NeverBlank => NeverBlank'
  BY <1>1 DEF NeverBlank
<1> QED
  BY <1>2, <1>3, <1>4, <1>5 DEF ListsInv

-----------------------------------------------------------------------------
(* The steps. *)

LEMMA NewFile == header = NewHeader /\ pages = NoPages => ListsInv
<1> SUFFICES ASSUME header = NewHeader, pages = NoPages PROVE ListsInv
  OBVIOUS
<1>1. header = NewHeader /\ pages = NoPages /\ DOMAIN pages = {}
  BY DEF NoPages
<1>2. Used = {} /\ Free = {}
  BY <1>1 DEF Used, Free
<1>3. TypeOK
  BY <1>1, BoundAssumption DEF TypeOK, NewHeader, NoPages, Link
<1>4. FreeCounted
  <2> DEFINE none == [i \in 1 .. 1 |-> INVALID_NUMBER]
  <2>1. /\ none \in [1 .. 0 + 1 -> {} \cup {INVALID_NUMBER}]
        /\ none[1] = INVALID_NUMBER
        /\ {none[i] : i \in DOMAIN none} = {} \cup {INVALID_NUMBER}
    OBVIOUS
  <2> HIDE DEF none
  <2>2. FreeList(none, INVALID_NUMBER, 0, {}, pages)
    BY <2>1 DEF FreeList
  <2>3. \E list : FreeList(list, INVALID_NUMBER, 0, {}, pages)
    BY <2>2
  <2> QED
    BY <1>1, <1>2, <2>3, FS_EmptySet DEF FreeCounted, Counted, NewHeader
<1>5. UsedAscending
  BY <1>1, <1>2 DEF UsedAscending, Ascending, IsLeast, NewHeader
<1> QED
  BY <1>1, <1>3, <1>4, <1>5 DEF ListsInv, NeverBlank

LEMMA NewIsUnused ==
    ASSUME TypeOK, FreeCounted, Reuses \/ header.num_pages <= MaxPages
    PROVE  NewNumber \in PageNo /\ NewNumber \notin Used
<1>1. CASE Reuses
  <2>1. NewNumber = header.first_free_page /\ header.num_free_pages > 0
    BY <1>1 DEF NewNumber, Reuses
  <2>2. NewNumber \in Free
    BY <2>1, Popped, Typed DEF FreeCounted
  <2> QED
    BY <2>2, Typed DEF Free
<1>2. CASE ~Reuses
  BY <1>2, Typed DEF NewNumber, Used, PageNo
<1> QED
  BY <1>1, <1>2

LEMMA AllocateInv == ListsInv /\ AllocatePage => ListsInv'
<1> SUFFICES ASSUME ListsInv, AllocatePage PROVE ListsInv'
  OBVIOUS
<1> DEFINE n == NewNumber
           first == header.first_used_page
<1>0. /\ TypeOK /\ FreeCounted
      /\ Reuses \/ header.num_pages <= MaxPages
      /\ NeverEmptied => UsedAscending /\ NeverBlank
  BY DEF ListsInv, AllocatePage
<1>1. \A m \in DOMAIN pages : pages[m] \in AnyPage
  BY <1>0, Typed
<1>2. ASSUME NEW new, pages' = new, header' = HeaderWith(n), GoesFirst(n),
             NEW link, link = IF first > n THEN first ELSE OldLink(n),
             new = Put(n, NewPage(link), n, NewPage(link))
      PROVE  ListsInv'
  <2>1. /\ DOMAIN new = DOMAIN pages \cup {n}
        /\ new = [m \in DOMAIN new |-> new[m]]
        /\ new[n] = NewPage(link)
        /\ \A m \in DOMAIN pages \ {n} : new[m] = pages[m]
    BY <1>2 DEF Put
  <2>2. link \in Link
    <3>1. OldLink(n) \in Link
      BY <1>1 DEF OldLink, AnyPage, Link
    <3> QED
      BY <1>0, <1>2, <3>1, Typed
  <2>3. \A f \in Free \ {n} : new[f] = pages[f]
    BY <2>1 DEF Free
  <2>4. /\ n \in PageNo /\ n \notin Used
        /\ TypeOK' /\ FreeCounted'
        /\ Used' = Used \cup {n}
    <3> HIDE DEF n
    <3> QED
      BY <1>0, <1>1, <1>2, <2>1, <2>2, <2>3, Allocated DEF n
  <2>5. ASSUME NeverEmptied PROVE UsedAscending'
    <3>1. Ascending(first, Used, pages)
      BY <1>0, <2>5 DEF UsedAscending
    <3>2. link = first
      <4>1. CASE first = INVALID_NUMBER
        <5>1. Used = {}
          BY <1>0, <3>1, <4>1, Numbers, Typed DEF Ascending, IsLeast
        <5>2. Free = {} /\ DOMAIN pages = {}
          BY <1>0, <2>5, <5>1 DEF NeverBlank, Free
        <5>3. OldLink(n) = INVALID_NUMBER
          BY <5>2 DEF OldLink
        <5>4. ~(first > n)
          BY <2>4, <4>1, Numbers DEF INVALID_NUMBER
        <5> QED
          BY <1>2, <4>1, <5>3, <5>4
      <4>2. CASE first # INVALID_NUMBER
        BY <1>2, <4>2 DEF GoesFirst
      <4> QED
        BY <4>1, <4>2
    <3>3. header.first_used_page' = n
      BY <1>2 DEF HeaderWith
    <3>4. new[n].next_page_number = first
      BY <2>1, <3>2 DEF NewPage
    <3>5. \A u \in Used : new[u].next_page_number = pages[u].next_page_number
      BY <2>1, <2>4 DEF Used
    <3>6. first = INVALID_NUMBER \/ first > n
      BY <1>2 DEF GoesFirst
    <3>7. Ascending(n, Used \cup {n}, new)
      <4> HIDE DEF n, first
      <4> QED
        BY <1>0, <2>4, <3>1, <3>4, <3>5, <3>6, InsertedFirst, Typed
    <3> QED
      BY <1>2, <2>4, <3>3, <3>7 DEF UsedAscending
  <2> QED
    BY <2>4, <2>5 DEF ListsInv, NeverBlank
<1>3. ASSUME NEW new, pages' = new, header' = HeaderWith(n), ~GoesFirst(n),
             NEW p \in BreaksAt(Precedes(n)),
             new = Put(n, NewPage(pages[p].next_page_number), p, Relinked(p, n))
      PROVE  ListsInv'
  <2>1. p \in Used /\ p \in DOMAIN pages /\ pages[p] \in AnyPage
    BY <1>1 DEF BreaksAt, EndsAt, Used
  <2>2. n \in PageNo /\ n \notin Used
    BY <1>0, NewIsUnused DEF ListsInv
  <2>3. p # n
    BY <2>1, <2>2
  <2> DEFINE link == pages[p].next_page_number
  <2>4. /\ DOMAIN new = DOMAIN pages \cup {n}
        /\ new = [m \in DOMAIN new |-> new[m]]
        /\ new[n] = NewPage(link)
        /\ new[p] = Relinked(p, n)
        /\ \A m \in DOMAIN pages \ {n, p} : new[m] = pages[m]
    <3> HIDE DEF n
    <3> QED
      BY <1>3, <2>1, <2>3 DEF Put
  <2>5. new[p] \in AnyPage /\ new[p].used = pages[p].used /\ new[p].next_page_number = n
    <3>1. n \in Link
      BY <2>2 DEF Link
    <3> HIDE DEF n
    <3> QED
      BY <2>1, <2>4, <3>1 DEF Relinked, AnyPage
  <2>6. link \in Link
    BY <2>1 DEF AnyPage
  <2>7. \A f \in Free \ {n} : new[f] = pages[f]
    BY <2>1, <2>4 DEF Free
  <2>8. \A m \in DOMAIN pages \ {n} : new[m] \in AnyPage /\ new[m].used = pages[m].used
    BY <1>1, <2>4, <2>5
  <2>9. TypeOK' /\ FreeCounted' /\ Used' = Used \cup {n}
    <3> HIDE DEF n, link
    <3> QED
      BY <1>0, <1>3, <2>4, <2>6, <2>7, <2>8, Allocated DEF n
  <2>10. ASSUME NeverEmptied PROVE UsedAscending'
    <3>1. Ascending(first, Used, pages)
      BY <1>0, <2>10 DEF UsedAscending
    <3>2. p < n /\ (link > n \/ link = INVALID_NUMBER)
      <4>1. UsedListExact /\ Used \subseteq PageNo
        BY <1>0, <3>1, Typed DEF UsedListExact, Ascending
      <4> HIDE DEF n
      <4> QED
        BY <1>3, <2>2, <4>1, StopsBefore
    <3>3. header.first_used_page' = first
      BY <1>3 DEF HeaderWith
    <3>4. new[n].next_page_number = link
      BY <2>4 DEF NewPage
    <3>5. \A u \in Used \ {p} : new[u].next_page_number = pages[u].next_page_number
      BY <2>2, <2>4 DEF Used
    <3>6. Ascending(first, Used \cup {n}, new)
      <4>1. Used \in SUBSET PageNo
        BY <1>0, Typed
      <4> HIDE DEF n, first
      <4> QED
        BY <2>1, <2>2, <2>5, <3>1, <3>2, <3>4, <3>5, <4>1, InsertedAfter
    <3> QED
      BY <1>3, <2>9, <3>3, <3>6 DEF UsedAscending
  <2> QED
    BY <2>9, <2>10 DEF ListsInv, NeverBlank
<1>4. CASE UNCHANGED <<header, pages>>
  BY <1>4 DEF ListsInv, TypeOK, FreeCounted, Free, Used, UsedAscending, NeverBlank
<1> QED
  BY <1>2, <1>3, <1>4 DEF AllocatePage

(* The way to a page that is not the first leads over one that points to   *)
(* it, so that deletePage stops before it has come to the page itself.     *)
LEMMA NotItself ==
    ASSUME NEW n \in Used, n # header.first_used_page,
           NEW S, \A p \in Used : p \in S <=> pages[p].next_page_number = n,
           NEW p \in BreaksAt(S)
    PROVE  p \in Used /\ p # n /\ pages[p].next_page_number = n
<1>1. p \in Used /\ p \in S /\ p \in Visited(header.first_used_page, S)
  BY DEF BreaksAt, EndsAt
<1>2. PICK l \in Nat : \E path \in [1 .. l -> DOMAIN pages] : \E i \in 1 .. l :
          IsWay(path, header.first_used_page, S) /\ p = path[i]
  BY <1>1, OnTheWay
<1>3. PICK path \in [1 .. l -> DOMAIN pages] : \E i \in 1 .. l :
          IsWay(path, header.first_used_page, S) /\ p = path[i]
  BY <1>2
<1>4. PICK i \in 1 .. l : p = path[i]
  BY <1>3
<1>5. CASE i = 1
  BY <1>1, <1>3, <1>4, <1>5 DEF IsWay
<1>6. CASE i # 1
  <2>1. i - 1 \in 1 .. l /\ (i - 1) + 1 = i
    BY <1>6
  <2>2. path[i - 1] \in Used \ S /\ p = pages[path[i - 1]].next_page_number
    BY <1>3, <1>4, <2>1 DEF IsWay
  <2> QED
    BY <1>1, <2>2
<1> QED
  BY <1>5, <1>6

LEMMA DeleteInv ==
    ASSUME ListsInv, NEW n \in PageNo, DeletePage(n)
    PROVE  ListsInv'
<1> DEFINE first == header.first_used_page
           next == pages[n].next_page_number
           pointing == {p \in Used : pages[p].next_page_number = n}
<1>0. /\ TypeOK /\ FreeCounted
      /\ NeverEmptied => UsedAscending /\ NeverBlank /\ Used # {n}
      /\ \A m \in DOMAIN pages : pages[m] \in AnyPage
      /\ Used \in SUBSET PageNo
      /\ first \in Link
  BY Typed DEF ListsInv, DeletePage
<1>1. CASE UNCHANGED <<header, pages>>
  BY <1>1 DEF ListsInv, TypeOK, FreeCounted, Free, Used, UsedAscending, NeverBlank
<1>2. ASSUME n \in Used, NEW first2, header' = WithFree(n, first2), first2 \in Link,
             pages' = [pages EXCEPT ![n] = Cleared(header.first_free_page)]
      PROVE  TypeOK' /\ FreeCounted' /\ Used' = Used \ {n}
  <2> SUFFICES ASSUME NEW new, new = [pages EXCEPT ![n] = Cleared(header.first_free_page)]
               PROVE  pages' = new => TypeOK' /\ FreeCounted' /\ Used' = Used \ {n}
    BY <1>2
  <2>1. n \in DOMAIN pages /\ n \notin Free
    BY <1>2 DEF Used, Free
  <2>2. /\ DOMAIN new = DOMAIN pages
        /\ new = [m \in DOMAIN new |-> new[m]]
        /\ new[n] = Cleared(header.first_free_page)
        /\ \A m \in DOMAIN pages \ {n} : new[m] = pages[m]
    BY <2>1
  <2>3. /\ \A m \in DOMAIN pages \ {n} : new[m] \in AnyPage /\ new[m].used = pages[m].used
        /\ \A f \in Free : new[f] = pages[f]
    BY <1>0, <2>1, <2>2 DEF Free
  <2> QED
    BY <1>0, <1>2, <2>2, <2>3, Deleted
<1>3. CASE /\ n \in Used /\ n = first
           /\ pages' = [pages EXCEPT ![n] = Cleared(header.first_free_page)]
           /\ header' = WithFree(n, next)
  <2>1. next \in Link
    BY <1>0, <1>3 DEF Used, AnyPage
  <2>2. TypeOK' /\ FreeCounted' /\ Used' = Used \ {n}
    <3> HIDE DEF next, first
    <3> QED
      BY <1>2, <1>3, <2>1
  <2>3. ASSUME NeverEmptied PROVE UsedAscending'
    <3>1. Ascending(n, Used, pages)
      BY <1>0, <1>3, <2>3 DEF UsedAscending
    <3>2. \A u \in Used \ {n} : pages'[u].next_page_number = pages[u].next_page_number
      BY <1>3 DEF Used
    <3>3. Ascending(next, Used \ {n}, pages')
      <4> SUFFICES ASSUME NEW new, new = pages' PROVE Ascending(next, Used \ {n}, new)
        OBVIOUS
      <4> QED
        BY <1>0, <1>3, <3>1, <3>2, RemovedFirst
    <3>4. header.first_used_page' = next
      BY <1>0, <1>3 DEF WithFree, TypeOK
    <3> QED
      BY <2>2, <3>3, <3>4 DEF UsedAscending
  <2> QED
    BY <1>0, <1>3, <2>2, <2>3 DEF ListsInv, NeverBlank
<1>4. ASSUME n \in Used, n # first, NEW p \in BreaksAt(pointing),
             pages' = Put(n, Cleared(header.first_free_page), p, Relinked(p, LinkPast(n))),
             header' = WithFree(n, first)
      PROVE  ListsInv'
  <2>1. p \in Used /\ p # n /\ pages[p].next_page_number = n
    BY <1>4, NotItself
  <2>2. p \in DOMAIN pages /\ n \in DOMAIN pages /\ n \notin Free /\ p \notin Free
    BY <1>4, <2>1 DEF Used, Free
  <2>3. /\ DOMAIN pages' = DOMAIN pages
        /\ pages' = [m \in DOMAIN pages' |-> pages'[m]]
        /\ pages'[n] = Cleared(header.first_free_page)
        /\ pages'[p] = Relinked(p, LinkPast(n))
        /\ \A m \in DOMAIN pages \ {n, p} : pages'[m] = pages[m]
    BY <1>4, <2>1, <2>2 DEF Put
  <2>4. /\ pages'[p] \in AnyPage /\ pages'[p].used = pages[p].used
        /\ pages'[p].next_page_number = next
    BY <1>0, <2>2, <2>3 DEF Relinked, LinkPast, AnyPage
  <2>5. /\ \A m \in DOMAIN pages \ {n} : pages'[m] \in AnyPage /\ pages'[m].used = pages[m].used
        /\ \A f \in Free : pages'[f] = pages[f]
    BY <1>0, <2>2, <2>3, <2>4 DEF Free
  <2>6. TypeOK' /\ FreeCounted' /\ Used' = Used \ {n}
    <3> SUFFICES ASSUME NEW new, new = pages'
                 PROVE  TypeOK' /\ FreeCounted' /\ Used' = Used \ {n}
      OBVIOUS
    <3> QED
      BY <1>0, <1>4, <2>3, <2>5, Deleted
  <2>7. ASSUME NeverEmptied PROVE UsedAscending'
    <3>1. Ascending(first, Used, pages)
      BY <1>0, <2>7 DEF UsedAscending
    <3>2. \A u \in Used \ {n, p} : pages'[u].next_page_number = pages[u].next_page_number
      BY <2>3 DEF Used
    <3>3. Ascending(first, Used \ {n}, pages')
      <4> SUFFICES ASSUME NEW new, new = pages' PROVE Ascending(first, Used \ {n}, new)
        OBVIOUS
      <4> QED
        BY <1>0, <1>4, <2>1, <2>4, <3>1, <3>2, RemovedAfter
    <3>4. header.first_used_page' = first
      BY <1>0, <1>4 DEF WithFree, TypeOK
    <3> QED
      BY <2>6, <3>3, <3>4 DEF UsedAscending
  <2> QED
    BY <1>0, <1>4, <2>6, <2>7 DEF ListsInv, NeverBlank
<1>5. ASSUME n \in Used, n # first, ComesToEnd(first, pointing),
             pages' = [pages EXCEPT ![n] = Cleared(header.first_free_page)],
             header' = WithFree(n, first)
      PROVE  ListsInv'
  <2>1. TypeOK' /\ FreeCounted'
    BY <1>0, <1>2, <1>5
  <2>2. ~NeverEmptied
    <3> SUFFICES ASSUME NeverEmptied PROVE FALSE
      OBVIOUS
    <3>1. UsedListExact
      BY <1>0 DEF UsedAscending, Ascending, UsedListExact
    <3> QED
      BY <1>0, <1>5, <3>1, FindsBefore
  <2> QED
    BY <2>1, <2>2 DEF ListsInv
<1> QED
  BY <1>1, <1>3, <1>4, <1>5 DEF DeletePage

LEMMA WriteInv ==
    ASSUME ListsInv, NEW n \in PageNo, NEW d \in Data, WritePage(n, d)
    PROVE  ListsInv'
<1>1. \A m \in DOMAIN pages : pages[m] \in AnyPage
  BY Typed DEF ListsInv
<1>2. CASE n \in Used
  <2> SUFFICES ASSUME NEW new, new = pages' PROVE ListsInv'
    OBVIOUS
  <2>1. /\ header' = header
        /\ new = [pages EXCEPT ![n] = [used |-> TRUE, data |-> d, next_page_number |-> LinkOnDisk(n)]]
    BY <1>2 DEF WritePage
  <2>2. n \in DOMAIN pages /\ pages[n].used = TRUE /\ LinkOnDisk(n) = pages[n].next_page_number
    BY <1>1, <1>2 DEF Used, LinkOnDisk, AnyPage
  <2>3. \A m \in DOMAIN pages :
            /\ new[m] \in AnyPage
            /\ new[m].used = pages[m].used
            /\ new[m].next_page_number = pages[m].next_page_number
    <3>1. pages[n].next_page_number \in Link
      BY <1>1, <2>2 DEF AnyPage
    <3>2. new[n] = [used |-> TRUE, data |-> d, next_page_number |-> pages[n].next_page_number]
      BY <2>1, <2>2
    <3>3. new[n] \in AnyPage
      BY <3>1, <3>2 DEF AnyPage
    <3>5. new[n].used = TRUE /\ new[n].next_page_number = pages[n].next_page_number
      BY <3>2
    <3>6. new[n].used = pages[n].used
      BY <2>2, <3>5, Zenon
    <3>4. \A m \in DOMAIN pages \ {n} : new[m] = pages[m]
      BY <2>1
    <3> QED
      BY <1>1, <3>3, <3>4, <3>5, <3>6
  <2>4. DOMAIN new = DOMAIN pages /\ new = [m \in DOMAIN new |-> new[m]]
    BY <2>1
  <2> QED
    BY <2>1, <2>3, <2>4, Rewritten
<1>3. CASE n \notin Used
  BY <1>3 DEF WritePage, ListsInv, TypeOK, FreeCounted, Free, Used, UsedAscending, NeverBlank
<1> QED
  BY <1>2, <1>3

LEMMA ListsStay ==
    ASSUME ListsInv, UNCHANGED fileVars
    PROVE  ListsInv'
BY DEF fileVars, ListsInv, TypeOK, FreeCounted, Free, Used, UsedAscending, NeverBlank

LEMMA NextLists ==
    ASSUME ListsInv, Next
    PROVE  ListsInv'
<1>1. ASSUME NEW n \in PageNo, ReadPage(n) PROVE ListsInv'
  BY <1>1, ListsStay DEF ReadPage
<1> QED
  BY <1>1, AllocateInv, DeleteInv, WriteInv DEF Next

LEMMA ListsHold == Spec => []ListsInv
<1>1. ListsInv /\ [Next]_vars => ListsInv'
  BY NextLists, ListsStay DEF vars, fileVars
<1> QED
  BY <1>1, NewFile, PTL DEF Spec, Init

-----------------------------------------------------------------------------

(* file.cpp: allocatePage, deletePage and writePage keep the header and    *)
(* the links in range, for a file that may grow to any number of pages and *)
(* in any order of calls, even when it is emptied.                         *)
THEOREM FileTyped == Spec => []TypeOK
BY ListsHold, InvIsLists, PTL

(* Whatever is allocated, deleted and written, in a file of any size, and  *)
(* though the list of used pages goes wrong once the file is emptied: the  *)
(* free list has every page that is not in use, once, so that allocatePage *)
(* hands out no page twice and loses none.                                 *)
THEOREM FreeListTrue == Spec => []FreeListExact
BY ListsHold, InvIsLists, PTL

(* As long as a file keeps a page once it has one, its used pages are all  *)
(* in one ascending list, which a FileIterator and a FileScan go by.       *)
THEOREM UsedListTrue ==
    ASSUME NeverEmptied
    PROVE  Spec => []UsedListExact
<1>1. ListsInv => UsedListExact
  BY InvIsLists
<1> QED
  BY <1>1, ListsHold, PTL

-----------------------------------------------------------------------------
(* What a FileIterator comes to, when the list of used pages is exact. *)

ListsExact == TypeOK /\ UsedListExact

LEMMA WayAscends ==
    ASSUME ListsExact, NEW f \in Used, NEW S,
           NEW l \in Nat, NEW path \in [1 .. l -> DOMAIN pages], IsWay(path, f, S)
    PROVE  /\ \A k \in 1 .. l : path[k] \in Used
           /\ \A j, k \in 1 .. l : j < k => path[j] < path[k]
<1>0. \A m \in DOMAIN pages : m \in Int /\ m # INVALID_NUMBER
  BY Typed, Numbers DEF ListsExact
<1> DEFINE Bad == {k \in 1 .. l : path[k] \notin Used \/ \E j \in 1 .. l : j < k /\ ~(path[j] < path[k])}
<1>1. ASSUME Bad # {} PROVE FALSE
  <2>1. PICK k \in Bad : \A i \in Bad : ~(i < k)
    <3>1. Bad \in SUBSET Nat
      OBVIOUS
    <3> HIDE DEF Bad
    <3> QED
      BY <1>1, <3>1, LeastIndex
  <2>2. k # 1
    BY <2>1 DEF IsWay
  <2>3. k \in 1 .. l /\ k - 1 \in 1 .. l /\ (k - 1) + 1 = k /\ k - 1 < k
    BY <2>1, <2>2
  <2>4. path[k - 1] \in Used /\ \A j \in 1 .. l : j < k - 1 => path[j] < path[k - 1]
    BY <2>1, <2>3
  <2>5. path[k] = pages[path[k - 1]].next_page_number
    BY <2>3 DEF IsWay
  <2>6. path[k] \in Used /\ path[k - 1] < path[k]
    BY <1>0, <2>3, <2>4, <2>5 DEF ListsExact, UsedListExact, IsLeast
  <2>7. ASSUME NEW j \in 1 .. l, j < k PROVE path[j] < path[k]
    <3>1. CASE j = k - 1
      BY <2>6, <3>1
    <3>2. CASE j # k - 1
      <4>1. j < k - 1
        BY <2>3, <2>7, <3>2
      <4>2. path[j] \in Int /\ path[k - 1] \in Int /\ path[k] \in Int
        BY <1>0, <2>3
      <4> QED
        BY <2>4, <2>6, <4>1, <4>2
    <3> QED
      BY <3>1, <3>2
  <2> QED
    BY <2>1, <2>6, <2>7
<1> QED
  BY <1>1

LEMMA IsVisited ==
    ASSUME NEW n, NEW S, NEW l \in 1 .. Cardinality(DOMAIN pages),
           NEW path \in [1 .. l -> DOMAIN pages], IsWay(path, n, S), NEW i \in 1 .. l
    PROVE  path[i] \in Visited(n, S)
<1>1. path \in UNION {[1 .. k -> DOMAIN pages] : k \in 1 .. Cardinality(DOMAIN pages)}
  OBVIOUS
<1>2. path[i] \in {path[k] : k \in DOMAIN path}
  OBVIOUS
<1> QED
  BY <1>1, <1>2 DEF Visited

(* A way is no longer than the file has pages. *)
LEMMA WayIsShort ==
    ASSUME ListsExact, NEW f \in Used, NEW S,
           NEW l \in Nat, l > 0, NEW path \in [1 .. l -> DOMAIN pages], IsWay(path, f, S)
    PROVE  l \in 1 .. Cardinality(DOMAIN pages)
<1>1. IsFiniteSet(DOMAIN pages)
  <2>1. 1 \in Int /\ header.num_pages - 1 \in Int /\ DOMAIN pages = 1 .. header.num_pages - 1
    BY Typed DEF ListsExact
  <2> QED
    BY <2>1, FS_Interval
<1>2. \A j, k \in 1 .. l : j # k => path[j] # path[k]
  <2>1. \A j, k \in 1 .. l : j < k => path[j] < path[k]
    BY WayAscends
  <2>2. \A k \in 1 .. l : path[k] \in Int
    BY Typed, Numbers DEF ListsExact
  <2> QED
    BY <2>1, <2>2
<1>3. path \in Injection(1 .. l, DOMAIN pages)
  BY <1>2 DEF Injection, IsInjective
<1>4. Cardinality(1 .. l) <= Cardinality(DOMAIN pages)
  BY <1>1, <1>3, FS_Injection
<1>5. Cardinality(1 .. l) = l
  <2>1. 1 \in Int /\ l \in Int /\ ~(1 > l) /\ l - 1 + 1 = l
    OBVIOUS
  <2> QED
    BY <2>1, FS_Interval
<1>6. Cardinality(DOMAIN pages) \in Nat
  BY <1>1, FS_CardinalityType
<1> QED
  BY <1>4, <1>5, <1>6

LEMMA VisitsFirst ==
    ASSUME ListsExact, NEW f \in Used, NEW S
    PROVE  f \in Visited(f, S)
<1> DEFINE path == [k \in 1 .. 1 |-> f]
<1>1. path \in [1 .. 1 -> DOMAIN pages] /\ IsWay(path, f, S) /\ path[1] = f
  BY DEF IsWay, Used
<1>2. 1 \in 1 .. Cardinality(DOMAIN pages)
  <2> HIDE DEF path
  <2>1. 1 \in Nat /\ 1 > 0
    OBVIOUS
  <2> QED
    BY <1>1, <2>1, WayIsShort
<1>3. 1 \in 1 .. 1
  OBVIOUS
<1> HIDE DEF path
<1> QED
  BY <1>1, <1>2, <1>3, IsVisited

LEMMA VisitsNext ==
    ASSUME ListsExact, NEW f \in Used, NEW S,
           NEW u \in Visited(f, S), u \in Used, u \notin S,
           pages[u].next_page_number # INVALID_NUMBER
    PROVE  pages[u].next_page_number \in Visited(f, S) \cap Used
<1> DEFINE next == pages[u].next_page_number
<1>0. next \in Used /\ next \in DOMAIN pages
  BY DEF ListsExact, UsedListExact, IsLeast, Used
<1>1. PICK l \in Nat : \E path \in [1 .. l -> DOMAIN pages] : \E i \in 1 .. l :
          IsWay(path, f, S) /\ u = path[i]
  BY OnTheWay
<1>2. PICK path \in [1 .. l -> DOMAIN pages] : \E i \in 1 .. l : IsWay(path, f, S) /\ u = path[i]
  BY <1>1
<1>3. PICK i \in 1 .. l : u = path[i]
  BY <1>2
<1> DEFINE longer == [k \in 1 .. i + 1 |-> IF k <= i THEN path[k] ELSE next]
<1>4. i + 1 \in Nat /\ i + 1 > 0 /\ i + 1 \in 1 .. i + 1 /\ ~(i + 1 <= i)
  OBVIOUS
<1>5. longer \in [1 .. i + 1 -> DOMAIN pages] /\ longer[i + 1] = next
  <2>1. \A k \in 1 .. i + 1 : k <= i => k \in 1 .. l
    OBVIOUS
  <2> HIDE DEF next
  <2> QED
    BY <1>0, <1>4, <2>1
<1>6. IsWay(longer, f, S)
  <2>1. longer[1] = f
    BY <1>2 DEF IsWay
  <2>2. ASSUME NEW k \in 1 .. i + 1, k + 1 \in 1 .. i + 1
        PROVE  longer[k] \in Used \ S /\ longer[k + 1] = pages[longer[k]].next_page_number
    <3>1. k \in 1 .. l /\ k <= i /\ longer[k] = path[k]
      BY <2>2
    <3>2. CASE k = i
      <4>1. longer[k + 1] = next
        BY <1>5, <3>2
      <4> HIDE DEF longer
      <4> QED
        BY <1>3, <3>1, <3>2, <4>1
    <3>3. CASE k # i
      <4>1. k + 1 <= i /\ k + 1 \in 1 .. l
        BY <2>2, <3>1, <3>3
      <4>2. longer[k + 1] = path[k + 1]
        BY <2>2, <4>1
      <4>3. path[k] \in Used \ S /\ path[k + 1] = pages[path[k]].next_page_number
        BY <1>2, <3>1, <4>1 DEF IsWay
      <4> HIDE DEF longer
      <4> QED
        BY <3>1, <4>2, <4>3
    <3> QED
      BY <3>2, <3>3
  <2>3. DOMAIN longer = 1 .. i + 1
    OBVIOUS
  <2> HIDE DEF longer
  <2> QED
    BY <2>1, <2>2, <2>3 DEF IsWay
<1>7. next \in Visited(f, S)
  <2> HIDE DEF longer, next
  <2>1. i + 1 \in 1 .. Cardinality(DOMAIN pages)
    BY <1>4, <1>5, <1>6, WayIsShort
  <2> QED
    BY <1>4, <1>5, <1>6, <2>1, IsVisited
<1> QED
  BY <1>0, <1>7

(* The loop ends: at a page of S, or behind the last page. *)
LEMMA WalkEnds ==
    ASSUME ListsExact, NEW f \in Used, NEW S
    PROVE  ComesToEnd(f, S) \/ EndsAt(f, S) # {}
<1> DEFINE V == Visited(f, S) \cap Used
           T == {MaxPages - v : v \in V}
<1>1. f \in V /\ V \subseteq PageNo /\ MaxPages \in Nat
  BY VisitsFirst, Typed DEF ListsExact
<1>2. T \in SUBSET Nat /\ T # {}
  BY <1>1 DEF PageNo
<1>3. PICK m \in T : \A k \in T : ~(k < m)
  <2> HIDE DEF T
  <2> QED
    BY <1>2, LeastIndex
<1>4. PICK u \in V : m = MaxPages - u
  BY <1>3
<1>5. \A v \in V : v <= u
  BY <1>1, <1>3, <1>4 DEF PageNo
<1>6. CASE u \in S
  BY <1>6 DEF EndsAt
<1>7. CASE u \notin S /\ pages[u].next_page_number = INVALID_NUMBER
  BY <1>7 DEF ComesToEnd
<1>8. CASE u \notin S /\ pages[u].next_page_number # INVALID_NUMBER
  <2>1. pages[u].next_page_number \in V
    BY <1>8, VisitsNext
  <2>2. pages[u].next_page_number > u
    BY <1>8 DEF ListsExact, UsedListExact, IsLeast
  <2> QED
    BY <1>1, <1>5, <2>1, <2>2 DEF PageNo
<1> QED
  BY <1>6, <1>7, <1>8

(* It stops at the first page of S. *)
LEMMA StopsAtFirst ==
    ASSUME ListsExact, NEW f \in Used, NEW S, NEW p \in EndsAt(f, S)
    PROVE  /\ p \in Used /\ p \in S /\ f <= p
           /\ \A u \in Used : f <= u /\ u < p => u \notin S
<1>0. \A m \in Used : m \in Int
  BY Typed, Numbers DEF ListsExact
<1>1. p \in Visited(f, S) /\ p \in Used /\ p \in S
  BY DEF EndsAt
<1>2. PICK l \in Nat : \E path \in [1 .. l -> DOMAIN pages] : \E i \in 1 .. l :
          IsWay(path, f, S) /\ p = path[i]
  BY <1>1, OnTheWay
<1>3. PICK path \in [1 .. l -> DOMAIN pages] : \E i \in 1 .. l : IsWay(path, f, S) /\ p = path[i]
  BY <1>2
<1>4. PICK i \in 1 .. l : p = path[i]
  BY <1>3
<1>5. /\ \A k \in 1 .. l : path[k] \in Used
      /\ \A j, k \in 1 .. l : j < k => path[j] < path[k]
  BY <1>3, WayAscends
<1>6. 1 \in 1 .. l /\ path[1] = f
  BY <1>3 DEF IsWay
<1>7. f <= p
  <2>1. CASE i = 1
    BY <1>0, <1>1, <1>4, <1>6, <2>1
  <2>2. CASE i # 1
    <3>1. 1 < i
      BY <2>2
    <3> QED
      BY <1>0, <1>1, <1>4, <1>5, <1>6, <3>1
  <2> QED
    BY <2>1, <2>2
<1>8. ASSUME NEW u \in Used, f <= u, u < p, u \in S PROVE FALSE
  <2> DEFINE Past == {k \in 1 .. i : ~(path[k] < u)}
  <2>1. Past # {}
    BY <1>0, <1>1, <1>4, <1>8
  <2>2. PICK k \in Past : \A j \in Past : ~(j < k)
    <3>1. Past \in SUBSET Nat
      OBVIOUS
    <3> HIDE DEF Past
    <3> QED
      BY <2>1, <3>1, LeastIndex
  <2>3. CASE k = 1
    <3>1. u = f
      BY <1>0, <1>6, <1>8, <2>2, <2>3
    <3>2. i # 1
      BY <1>0, <1>4, <1>6, <1>8, <3>1
    <3>3. 1 \in DOMAIN path /\ 1 + 1 \in DOMAIN path
      BY <3>2
    <3>4. f \notin S
      BY <1>3, <1>6, <3>3 DEF IsWay
    <3> QED
      BY <1>8, <3>1, <3>4
  <2>4. CASE k # 1
    <3>1. k \in 1 .. i /\ k - 1 \in 1 .. i /\ (k - 1) + 1 = k /\ k - 1 < k /\ k \in 1 .. l /\ k - 1 \in 1 .. l
      BY <2>2, <2>4
    <3>2. path[k - 1] < u
      BY <2>2, <3>1
    <3>3. path[k - 1] \in Used /\ path[k - 1] \notin S /\ path[k] = pages[path[k - 1]].next_page_number
      BY <1>3, <3>1 DEF IsWay
    <3>4. path[k] <= u
      BY <1>8, <3>2, <3>3 DEF ListsExact, UsedListExact, IsLeast
    <3>5. path[k] = u
      BY <1>0, <1>5, <1>8, <2>2, <3>1, <3>4
    <3>6. k # i
      BY <1>0, <1>4, <1>8, <3>5
    <3>7. k + 1 \in 1 .. l
      BY <3>1, <3>6
    <3>8. path[k] \notin S
      BY <1>3, <3>1, <3>7 DEF IsWay
    <3> QED
      BY <1>8, <3>5, <3>8
  <2> QED
    BY <2>3, <2>4
<1> QED
  BY <1>1, <1>7, <1>8

(* It comes to the end if there is no page of S. *)
LEMMA EndsWithout ==
    ASSUME ListsExact, NEW f \in Used, NEW S, ComesToEnd(f, S)
    PROVE  \A u \in Used : f <= u => u \notin S
<1>0. /\ \A m \in Used : m \in Int
      /\ INVALID_NUMBER \notin Used
  BY Typed, Numbers DEF ListsExact
<1>1. PICK p \in (Visited(f, S) \cap Used) \ S : pages[p].next_page_number = INVALID_NUMBER
  BY <1>0 DEF ComesToEnd
<1>2. \A u \in Used : ~(u > p)
  BY <1>0, <1>1 DEF ListsExact, UsedListExact, IsLeast
<1>v. p \in Visited(f, S)
  BY <1>1
<1>3. PICK l \in Nat : \E path \in [1 .. l -> DOMAIN pages] : \E i \in 1 .. l :
          IsWay(path, f, S) /\ p = path[i]
  BY <1>v, OnTheWay
<1>4. PICK path \in [1 .. l -> DOMAIN pages] : \E i \in 1 .. l : IsWay(path, f, S) /\ p = path[i]
  BY <1>3
<1>5. PICK i \in 1 .. l : p = path[i]
  BY <1>4
<1>6. \A k \in 1 .. l : path[k] \in Used
  BY <1>4, WayAscends
<1>7. 1 \in 1 .. l /\ path[1] = f
  BY <1>4 DEF IsWay
<1>8. ASSUME NEW u \in Used, f <= u, u \in S PROVE FALSE
  <2>1. u < p
    BY <1>0, <1>1, <1>2, <1>8
  <2> DEFINE Past == {k \in 1 .. i : ~(path[k] < u)}
  <2>2. Past # {}
    BY <1>0, <1>1, <1>5, <2>1
  <2>3. PICK k \in Past : \A j \in Past : ~(j < k)
    <3>1. Past \in SUBSET Nat
      OBVIOUS
    <3> HIDE DEF Past
    <3> QED
      BY <2>2, <3>1, LeastIndex
  <2>4. path[k] <= u
    <3>1. CASE k = 1
      BY <1>7, <1>8, <3>1
    <3>2. CASE k # 1
      <4>1. k \in 1 .. i /\ k - 1 \in 1 .. i /\ (k - 1) + 1 = k /\ k - 1 < k /\ k \in 1 .. l /\ k - 1 \in 1 .. l
        BY <2>3, <3>2
      <4>2. path[k - 1] < u
        BY <2>3, <4>1
      <4>3. path[k - 1] \in Used /\ path[k] = pages[path[k - 1]].next_page_number
        BY <1>4, <4>1 DEF IsWay
      <4> QED
        BY <1>8, <4>2, <4>3 DEF ListsExact, UsedListExact, IsLeast
    <3> QED
      BY <3>1, <3>2
  <2>5. k \in 1 .. l /\ k \in 1 .. i
    BY <2>3
  <2>6. path[k] = u
    BY <1>0, <1>6, <1>8, <2>3, <2>4, <2>5
  <2>7. k # i
    BY <1>0, <1>1, <1>5, <2>1, <2>6
  <2>8. k + 1 \in 1 .. l
    BY <2>5, <2>7
  <2>9. path[k] \notin S
    BY <1>4, <2>5, <2>8 DEF IsWay
  <2> QED
    BY <1>8, <2>6, <2>9
<1> QED
  BY <1>8
=============================================================================

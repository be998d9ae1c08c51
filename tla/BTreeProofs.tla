---------------------------- MODULE BTreeProofs ----------------------------
(***************************************************************************)
(* Proofs about BTreeIndex, for every set of entries and order of their    *)
(* insertion, every size of the nodes and every pool.                      *)
(***************************************************************************)
EXTENDS BTreeIndex, TLAPS, FiniteSetTheorems, SequenceTheorems, WellFoundedInduction

-----------------------------------------------------------------------------
(* Recursion along a rank. *)

(* A set of numbers has a least one. *)
LEMMA LeastNumber ==
  ASSUME NEW T \in SUBSET Nat, T # {}
  PROVE  \E m \in T : \A k \in T : m <= k
<1>1. \E m \in T : \A k \in T : ~(<<k, m>> \in OpToRel(<, Nat))
  BY NatLessThanWellFounded, WFMin
<1>2. \A k, m \in Nat : k < m => <<k, m>> \in OpToRel(<, Nat)
  BY DEF OpToRel
<1>3. \A k, m \in Nat : m <= k \/ k < m
  OBVIOUS
<1> QED  BY <1>1, <1>2, <1>3

(* f is what a recursive function is on S, whose values are given by base  *)
(* where the recursion stops and by comb elsewhere.                        *)
Unfolded(f, S, stop, base, nxt, comb) ==
    \A x \in S : f[x] = IF x \in stop THEN base[x] ELSE comb[<<x, f[nxt[x]]>>]

(* A recursion that descends has a solution. *)
LEMMA Unfolds ==
  ASSUME NEW S, NEW T, NEW r \in [S -> Nat], NEW bound \in Nat, \A x \in S : r[x] <= bound,
         NEW stop \in SUBSET S, NEW base \in [stop -> T],
         NEW nxt, \A x \in S \ stop : nxt[x] \in S /\ r[nxt[x]] < r[x],
         NEW comb \in [S \X T -> T]
  PROVE  \E f \in [S -> T] : Unfolded(f, S, stop, base, nxt, comb)
<1> DEFINE Upto(n) == {x \in S : r[x] <= n}
           Has(n) == \E f \in [Upto(n) -> T] : Unfolded(f, Upto(n), stop, base, nxt, comb)
           Bad == {n \in Nat : ~Has(n)}
<1>1. Has(0)
  <2>1. \A x \in Upto(0) : x \in stop
    OBVIOUS
  <2>2. [x \in Upto(0) |-> base[x]] \in [Upto(0) -> T]
    BY <2>1
  <2> QED  BY <2>1, <2>2 DEF Unfolded
<1>2. ASSUME NEW n \in Nat, Has(n)
      PROVE  Has(n + 1)
  <2>1. PICK f \in [Upto(n) -> T] : Unfolded(f, Upto(n), stop, base, nxt, comb)
    BY <1>2
  <2> DEFINE g == [x \in Upto(n + 1) |->
                      IF x \in stop THEN base[x] ELSE comb[<<x, f[nxt[x]]>>]]
  <2>2. \A x \in Upto(n + 1) \ stop : nxt[x] \in Upto(n)
    OBVIOUS
  <2>3. \A x \in Upto(n) : g[x] = f[x]
    BY <2>1 DEF Unfolded
  <2>4. g \in [Upto(n + 1) -> T]
    <3>1. \A x \in Upto(n + 1) \ stop : comb[<<x, f[nxt[x]]>>] \in T
      BY <2>2
    <3> QED  BY <3>1
  <2>5. Unfolded(g, Upto(n + 1), stop, base, nxt, comb)
    <3>1. \A x \in Upto(n + 1) \ stop : g[nxt[x]] = f[nxt[x]]
      BY <2>2, <2>3
    <3> QED  BY <3>1 DEF Unfolded
  <2> QED  BY <2>4, <2>5
<1> HIDE DEF Has
<1>3. Bad = {}
  <2> SUFFICES ASSUME Bad # {} PROVE FALSE
    OBVIOUS
  <2>1. PICK m \in Bad : \A n \in Bad : m <= n
    BY LeastNumber
  <2>2. m # 0
    BY <1>1
  <2>3. m - 1 \in Nat /\ m - 1 \notin Bad
    BY <2>1, <2>2
  <2>4. Has((m - 1) + 1)
    BY <1>2, <2>3
  <2>5. (m - 1) + 1 = m
    OBVIOUS
  <2> QED  BY <2>4, <2>5
<1>4. Has(bound)
  BY <1>3
<1>5. Upto(bound) = S
  OBVIOUS
<1> QED  BY <1>4, <1>5 DEF Has

-----------------------------------------------------------------------------
(* Keys, entries and pages in a node. *)

LEMMA KeysAreNumbers == Key \subseteq Int
BY EntryAssumption DEF Key

(* findIndex comes to a place among the keys or behind the last. *)
LEMMA FindIndexIs ==
  ASSUME NEW keys, NEW n \in Nat, DOMAIN keys = 1 .. n, NEW k
  PROVE  FindIndex(keys, k) \in 0 .. n
<1> DEFINE Passed == {i \in DOMAIN keys : \A j \in 1 .. i : k >= keys[j]}
<1>1. IsFiniteSet(1 .. n) /\ Cardinality(1 .. n) = n
  BY FS_Interval
<1>2. Passed \subseteq 1 .. n
  OBVIOUS
<1>3. IsFiniteSet(Passed) /\ Cardinality(Passed) <= n
  BY <1>1, <1>2, FS_Subset
<1>4. Cardinality(Passed) \in Nat
  BY <1>3, FS_CardinalityType
<1> QED  BY <1>3, <1>4 DEF FindIndex

(* t is s with e in place i. *)
SpreadBy(t, s, i, e) ==
    \A j \in 1 .. Len(s) + 1 : t[j] = IF j < i THEN s[j] ELSE IF j = i THEN e ELSE s[j - 1]

(* InsertAt, element by element. *)
LEMMA Inserted ==
  ASSUME NEW S, NEW s \in Seq(S), NEW i \in 1 .. Len(s) + 1, NEW e \in S
  PROVE  /\ InsertAt(s, i, e) \in Seq(S)
         /\ Len(InsertAt(s, i, e)) = Len(s) + 1
         /\ SpreadBy(InsertAt(s, i, e), s, i, e)
<1> DEFINE before == SubSeq(s, 1, i - 1)
           after == SubSeq(s, i, Len(s))
<1>1. before \in Seq(S) /\ Len(before) = i - 1 /\ \A j \in 1 .. i - 1 : before[j] = s[j]
  OBVIOUS
<1>2. after \in Seq(S) /\ Len(after) = Len(s) + 1 - i
      /\ \A j \in 1 .. Len(s) + 1 - i : after[j] = s[i + j - 1]
  OBVIOUS
<1>3. InsertAt(s, i, e) = before \o <<e>> \o after
  BY DEF InsertAt
<1> HIDE DEF before, after
<1> DEFINE front == before \o <<e>>
<1>4. front \in Seq(S) /\ Len(front) = i
      /\ \A j \in 1 .. i : front[j] = IF j < i THEN s[j] ELSE e
  BY <1>1
<1> HIDE DEF front
<1>5. front \o after \in Seq(S) /\ Len(front \o after) = Len(s) + 1
      /\ \A j \in 1 .. Len(s) + 1 :
            (front \o after)[j] = IF j <= i THEN front[j] ELSE after[j - i]
  <2>1. after \in Seq(S) /\ front \in Seq(S) /\ Len(front) + Len(after) = Len(s) + 1 /\ Len(front) = i
    BY <1>2, <1>4
  <2> QED  BY <2>1, ConcatProperties
<1>6. \A j \in 1 .. Len(s) + 1 : j > i => j - i \in 1 .. Len(s) + 1 - i /\ i + (j - i) - 1 = j - 1
  OBVIOUS
<1>7. \A j \in 1 .. Len(s) + 1 :
        (front \o after)[j] = IF j < i THEN s[j] ELSE IF j = i THEN e ELSE s[j - 1]
  BY <1>2, <1>4, <1>5, <1>6
<1> QED  BY <1>3, <1>5, <1>7 DEF front, SpreadBy

LEMMA SetOf ==
  ASSUME NEW S, NEW s \in Seq(S)
  PROVE  ToSet(s) \subseteq S /\ \A x : x \in ToSet(s) <=> \E i \in 1 .. Len(s) : x = s[i]
BY DEF ToSet

(* Inserting adds the element, and keeps the elements different. *)
LEMMA InsertedSet ==
  ASSUME NEW S, NEW s \in Seq(S), NEW i \in 1 .. Len(s) + 1, NEW e \in S
  PROVE  /\ ToSet(InsertAt(s, i, e)) = ToSet(s) \cup {e}
         /\ IsInjective(s) /\ e \notin ToSet(s) => IsInjective(InsertAt(s, i, e))
<1> DEFINE t == InsertAt(s, i, e)
<1>0. t \in Seq(S) /\ Len(t) = Len(s) + 1 /\ SpreadBy(t, s, i, e)
  BY Inserted
<1>1. t \in Seq(S) /\ Len(t) = Len(s) + 1
  BY <1>0
<1>2. \A j \in 1 .. Len(s) + 1 : t[j] = IF j < i THEN s[j] ELSE IF j = i THEN e ELSE s[j - 1]
  BY <1>0 DEF SpreadBy
<1> HIDE DEF t
<1>3. ToSet(t) = ToSet(s) \cup {e}
  <2>1. ASSUME NEW x \in ToSet(t) PROVE x \in ToSet(s) \cup {e}
    <3>1. PICK j \in 1 .. Len(s) + 1 : x = t[j]
      BY <1>1, <2>1, SetOf
    <3> QED  BY <1>2, <3>1, SetOf
  <2>2. ASSUME NEW x \in ToSet(s) PROVE x \in ToSet(t)
    <3>1. PICK j \in 1 .. Len(s) : x = s[j]
      BY <2>2, SetOf
    <3>2. x = IF j < i THEN t[j] ELSE t[j + 1]
      BY <1>2, <3>1
    <3> QED  BY <1>1, <3>1, <3>2, SetOf
  <2>3. e \in ToSet(t)
    BY <1>1, <1>2, SetOf
  <2> QED  BY <2>1, <2>2, <2>3
<1>4. ASSUME IsInjective(s), e \notin ToSet(s)
      PROVE  IsInjective(t)
  <2>1. \A a \in 1 .. Len(s) : s[a] # e
    BY <1>4, SetOf
  <2>2. \A a, b \in 1 .. Len(s) : s[a] = s[b] => a = b
    BY <1>4 DEF IsInjective
  <2>3. ASSUME NEW a \in 1 .. Len(s) + 1, NEW b \in 1 .. Len(s) + 1, t[a] = t[b] PROVE a = b
    BY <1>2, <2>1, <2>2, <2>3
  <2> QED  BY <1>1, <2>3 DEF IsInjective
<1> QED  BY <1>3, <1>4 DEF t

(* The first part of a sequence and what is left of it have its elements.  *)
LEMMA Halves ==
  ASSUME NEW S, NEW s \in Seq(S), NEW n \in 0 .. Len(s)
  PROVE  /\ SubSeq(s, 1, n) \in Seq(S) /\ Len(SubSeq(s, 1, n)) = n
         /\ SubSeq(s, n + 1, Len(s)) \in Seq(S) /\ Len(SubSeq(s, n + 1, Len(s))) = Len(s) - n
         /\ \A j \in 1 .. n : SubSeq(s, 1, n)[j] = s[j]
         /\ \A j \in 1 .. Len(s) - n : SubSeq(s, n + 1, Len(s))[j] = s[n + j]
OBVIOUS

LEMMA HalvesSet ==
  ASSUME NEW S, NEW s \in Seq(S), NEW n \in 0 .. Len(s)
  PROVE  /\ ToSet(SubSeq(s, 1, n)) \cup ToSet(SubSeq(s, n + 1, Len(s))) = ToSet(s)
         /\ IsInjective(s) => /\ IsInjective(SubSeq(s, 1, n))
                              /\ IsInjective(SubSeq(s, n + 1, Len(s)))
                              /\ ToSet(SubSeq(s, 1, n)) \cap ToSet(SubSeq(s, n + 1, Len(s))) = {}
<1> DEFINE l == SubSeq(s, 1, n)
           r == SubSeq(s, n + 1, Len(s))
<1>1. /\ l \in Seq(S) /\ Len(l) = n /\ r \in Seq(S) /\ Len(r) = Len(s) - n
      /\ \A j \in 1 .. n : l[j] = s[j]
      /\ \A j \in 1 .. Len(s) - n : r[j] = s[n + j]
  BY Halves
<1> HIDE DEF l, r
<1>2. \A x : x \in ToSet(s) <=> \E i \in 1 .. Len(s) : x = s[i]
  BY SetOf
<1>3. \A x : x \in ToSet(l) <=> \E i \in 1 .. n : x = s[i]
  <2>1. \A x : x \in ToSet(l) <=> \E i \in 1 .. Len(l) : x = l[i]
    BY <1>1, SetOf
  <2>2. Len(l) = n /\ \A j \in 1 .. n : l[j] = s[j]
    BY <1>1
  <2> QED  BY Zenon, <2>1, <2>2
<1>4. \A x : x \in ToSet(r) <=> \E i \in 1 .. Len(s) - n : x = s[n + i]
  <2>1. \A x : x \in ToSet(r) <=> \E i \in 1 .. Len(r) : x = r[i]
    BY <1>1, SetOf
  <2>2. PICK k : k = Len(s) - n /\ k = Len(r) /\ \A j \in 1 .. k : r[j] = s[n + j]
    BY <1>1
  <2>3. \A x : x \in ToSet(r) <=> \E i \in 1 .. k : x = s[n + i]
    <3>1. \A x : x \in ToSet(r) <=> \E i \in 1 .. k : x = r[i]
      <4>1. k = Len(r)
        BY <2>2
      <4> QED  BY Zenon, <2>1, <4>1
    <3>2. \A i \in 1 .. k : r[i] = s[n + i]
      BY <2>2
    <3> QED  BY Zenon, <3>1, <3>2
  <2> QED  BY <2>2, <2>3
<1>5. ToSet(l) \cup ToSet(r) = ToSet(s)
  <2>1. ASSUME NEW i \in 1 .. Len(s), i > n PROVE i - n \in 1 .. Len(s) - n /\ n + (i - n) = i
    BY <2>1
  <2>2. ASSUME NEW x \in ToSet(s) PROVE x \in ToSet(l) \cup ToSet(r)
    <3>1. PICK i \in 1 .. Len(s) : x = s[i]
      BY <1>2, <2>2
    <3>2. CASE i <= n
      BY <1>3, <3>1, <3>2
    <3>3. CASE i > n
      BY <1>4, <2>1, <3>1, <3>3
    <3> QED  BY <3>2, <3>3
  <2>3. ASSUME NEW x \in ToSet(r) PROVE x \in ToSet(s)
    <3>1. PICK i \in 1 .. Len(s) - n : x = s[n + i]
      BY <1>4, <2>3
    <3> QED  BY <1>2, <3>1
  <2> QED  BY <1>2, <1>3, <2>2, <2>3
<1>6. ASSUME IsInjective(s)
      PROVE  IsInjective(l) /\ IsInjective(r) /\ ToSet(l) \cap ToSet(r) = {}
  <2>1. \A a, b \in 1 .. Len(s) : s[a] = s[b] => a = b
    BY <1>6 DEF IsInjective
  <2>2. IsInjective(l)
    BY <1>1, <2>1 DEF IsInjective
  <2>3. IsInjective(r)
    <3>1. \A a, b \in 1 .. Len(s) - n : r[a] = r[b] => n + a = n + b
      BY <1>1, <2>1
    <3> QED  BY <1>1, <3>1 DEF IsInjective
  <2>4. ASSUME NEW x \in ToSet(l), x \in ToSet(r) PROVE FALSE
    <3>1. PICK i \in 1 .. n : x = s[i]
      BY <1>3, <2>4
    <3>2. PICK j \in 1 .. Len(s) - n : x = s[n + j]
      BY <1>4, <2>4
    <3>3. i \in 1 .. Len(s) /\ n + j \in 1 .. Len(s) /\ i # n + j
      OBVIOUS
    <3> QED  BY <2>1, <3>1, <3>2, <3>3
  <2> QED  BY <2>2, <2>3, <2>4
<1> QED  BY <1>5, <1>6 DEF l, r

-----------------------------------------------------------------------------
(* What insertEntry makes of a node. *)

LEMMA EntryPlaced ==
  ASSUME NEW entries \in Seq(Entry), NEW e \in Entry
  PROVE  /\ WithEntry(entries, e) \in Seq(Entry)
         /\ Len(WithEntry(entries, e)) = Len(entries) + 1
         /\ ToSet(WithEntry(entries, e)) = ToSet(entries) \cup {e}
         /\ IsInjective(entries) /\ e \notin ToSet(entries) => IsInjective(WithEntry(entries, e))
<1> DEFINE i == FindIndex([j \in DOMAIN entries |-> entries[j][1]], e[1]) + 1
<1>1. i \in 1 .. Len(entries) + 1
  BY FindIndexIs
<1> HIDE DEF i
<1>2. WithEntry(entries, e) = InsertAt(entries, i, e)
  BY DEF WithEntry, i
<1> QED  BY <1>1, <1>2, Inserted, InsertedSet

LEMMA LeafHalf == LeafSize \div 2 \in 2 .. LeafSize - 2
BY SizeAssumption

(* A full leaf and a new entry become two leaves that have the entries of  *)
(* the one, the new entry, and each of them once.                          *)
LEMMA LeafSplitInTwo ==
  ASSUME NEW entries \in Seq(Entry), Len(entries) = LeafSize, NEW e \in Entry,
         NEW l, NEW r, SplitLeaf(entries, e) = <<l, r>>
  PROVE  /\ l \in Seq(Entry) /\ r \in Seq(Entry)
         /\ Len(l) \in 1 .. LeafSize /\ Len(r) \in 1 .. LeafSize
         /\ ToSet(l) \cup ToSet(r) = ToSet(entries) \cup {e}
         /\ IsInjective(entries) /\ e \notin ToSet(entries) =>
               IsInjective(l) /\ IsInjective(r) /\ ToSet(l) \cap ToSet(r) = {}
<1> DEFINE half == LeafSize \div 2
           left == SubSeq(entries, 1, half)
           right == SubSeq(entries, half + 1, LeafSize)
<1>1. half \in 2 .. LeafSize - 2 /\ LeafSize \in Nat
  BY LeafHalf, SizeAssumption
<1>2. \/ l = WithEntry(left, e) /\ r = right
      \/ l = left /\ r = WithEntry(right, e)
  <2>1. \/ <<l, r>> = <<WithEntry(left, e), right>>
        \/ <<l, r>> = <<left, WithEntry(right, e)>>
    BY DEF SplitLeaf
  <2> QED  BY <2>1
<1> HIDE DEF half
<1>3. /\ left \in Seq(Entry) /\ Len(left) = half
      /\ right \in Seq(Entry) /\ Len(right) = LeafSize - half
  BY <1>1, Halves
<1>4. /\ ToSet(left) \cup ToSet(right) = ToSet(entries)
      /\ IsInjective(entries) =>
            IsInjective(left) /\ IsInjective(right) /\ ToSet(left) \cap ToSet(right) = {}
  BY <1>1, HalvesSet
<1> HIDE DEF left, right
<1>5. CASE l = WithEntry(left, e) /\ r = right
  <2>1. l \in Seq(Entry) /\ Len(l) = half + 1 /\ ToSet(l) = ToSet(left) \cup {e}
    BY <1>3, <1>5, EntryPlaced
  <2>2. IsInjective(left) /\ e \notin ToSet(left) => IsInjective(l)
    BY <1>3, <1>5, EntryPlaced
  <2>3. Len(l) \in 1 .. LeafSize /\ Len(r) \in 1 .. LeafSize
    BY <1>1, <1>3, <1>5, <2>1
  <2>4. ToSet(l) \cup ToSet(r) = ToSet(entries) \cup {e}
    BY <1>4, <1>5, <2>1
  <2> QED  BY <1>3, <1>4, <1>5, <2>1, <2>2, <2>3, <2>4
<1>6. CASE l = left /\ r = WithEntry(right, e)
  <2>1. r \in Seq(Entry) /\ Len(r) = LeafSize - half + 1 /\ ToSet(r) = ToSet(right) \cup {e}
    BY <1>3, <1>6, EntryPlaced
  <2>2. IsInjective(right) /\ e \notin ToSet(right) => IsInjective(r)
    BY <1>3, <1>6, EntryPlaced
  <2>3. Len(l) \in 1 .. LeafSize /\ Len(r) \in 1 .. LeafSize
    BY <1>1, <1>3, <1>6, <2>1
  <2>4. ToSet(l) \cup ToSet(r) = ToSet(entries) \cup {e}
    BY <1>4, <1>6, <2>1
  <2> QED  BY <1>3, <1>4, <1>6, <2>1, <2>2, <2>3, <2>4
<1> QED  BY <1>2, <1>5, <1>6

LeafNode == [leaf : {TRUE}, entries : Seq(Entry), right : Nat]
InnerNode == [leaf : {FALSE}, keys : Seq(Key), pages : Seq(Nat), level : {0, 1}]

(* A non-leaf node with n keys whose children are among pages. *)
InnerWith(node, n, pages) ==
    /\ node \in InnerNode
    /\ Len(node.keys) = n /\ Len(node.pages) = n + 1
    /\ ToSet(node.pages) \subseteq pages

LEMMA InnerIs ==
  ASSUME NEW ks \in Seq(Key), NEW ps \in Seq(Nat), NEW level \in {0, 1},
         NEW n, NEW pages, Len(ks) = n, Len(ps) = n + 1, ToSet(ps) \subseteq pages
  PROVE  InnerWith(NonLeaf(ks, ps, level), n, pages) /\ NonLeaf(ks, ps, level).level = level
BY DEF NonLeaf, InnerNode, InnerWith

LEMMA InnerFields ==
  ASSUME NEW node \in InnerNode
  PROVE  /\ node.leaf = FALSE /\ node.keys \in Seq(Key)
         /\ node.pages \in Seq(Nat) /\ node.level \in {0, 1}
BY DEF InnerNode

LEMMA ChildPlaced ==
  ASSUME NEW node, NEW n \in Nat, NEW pages, InnerWith(node, n, pages),
         NEW k \in Key, NEW p \in Nat
  PROVE  /\ InnerWith(WithChild(node, k, p), n + 1, pages \cup {p})
         /\ WithChild(node, k, p).level = node.level
<1> DEFINE i == FindIndex(node.keys, k)
           ks == InsertAt(node.keys, i + 1, k)
           ps == InsertAt(node.pages, i + 2, p)
<1>1. /\ node \in InnerNode /\ Len(node.keys) = n /\ Len(node.pages) = n + 1
      /\ ToSet(node.pages) \subseteq pages
  BY DEF InnerWith
<1>2. node.keys \in Seq(Key) /\ node.pages \in Seq(Nat) /\ node.level \in {0, 1}
  BY <1>1, InnerFields
<1>3. i \in 0 .. n
  <2>1. DOMAIN node.keys = 1 .. n
    BY <1>1, <1>2
  <2> QED  BY <2>1, FindIndexIs
<1> HIDE DEF i
<1>4. ks \in Seq(Key) /\ Len(ks) = n + 1
  <2>1. i + 1 \in 1 .. Len(node.keys) + 1
    BY <1>1, <1>3
  <2> QED  BY <1>1, <1>2, <2>1, Inserted
<1>5. ps \in Seq(Nat) /\ Len(ps) = n + 2 /\ ToSet(ps) = ToSet(node.pages) \cup {p}
  <2>1. i + 2 \in 1 .. Len(node.pages) + 1
    BY <1>1, <1>3
  <2>2. /\ ps \in Seq(Nat) /\ Len(ps) = Len(node.pages) + 1
        /\ ToSet(ps) = ToSet(node.pages) \cup {p}
    BY <1>2, <2>1, Inserted, InsertedSet
  <2> QED  BY <1>1, <2>2
<1>6. WithChild(node, k, p) = NonLeaf(ks, ps, node.level)
  BY DEF WithChild, i
<1> HIDE DEF ks, ps
<1>7. n + 2 = (n + 1) + 1
  OBVIOUS
<1>8. ToSet(ps) \subseteq pages \cup {p}
  BY <1>1, <1>5
<1>9. InnerWith(NonLeaf(ks, ps, node.level), n + 1, pages \cup {p})
      /\ NonLeaf(ks, ps, node.level).level = node.level
  <2>1. Len(ps) = (n + 1) + 1
    BY <1>5, <1>7
  <2> QED  BY <1>2, <1>4, <1>5, <1>8, <2>1, InnerIs
<1> QED  BY <1>6, <1>9

LEMMA NonLeafHalf ==
  /\ NonLeafSize \div 2 \in 1 .. NonLeafSize - 1
  /\ (NonLeafSize - 1) \div 2 = NonLeafSize \div 2 - 1
  /\ NonLeafSize = 2 * (NonLeafSize \div 2)
BY SizeAssumption

(* A full non-leaf node, a key and a page become two nodes that have the   *)
(* children of the one and the page, and a key that moves up.              *)
LEMMA NonLeafSplitInTwo ==
  ASSUME NEW node, NEW pages, InnerWith(node, NonLeafSize, pages), NEW k \in Key, NEW p \in Nat
  PROVE  LET split == SplitNonLeaf(node, k, p) IN
         /\ \E n \in 1 .. NonLeafSize : InnerWith(split.left, n, pages \cup {p})
         /\ \E n \in 1 .. NonLeafSize : InnerWith(split.right, n, pages \cup {p})
         /\ split.left.level = node.level /\ split.right.level = node.level
         /\ split.up \in Key
<1> DEFINE half == NonLeafSize \div 2
           insertLeft == FindIndex(node.keys, k) < half
           kept == IF insertLeft THEN half ELSE half + 1
           right == NonLeaf(SubSeq(node.keys, kept + 1, NonLeafSize),
                            SubSeq(node.pages, kept + 1, NonLeafSize + 1), node.level)
           left == NonLeaf(SubSeq(node.keys, 1, kept - 1), SubSeq(node.pages, 1, kept), node.level)
<1>1. half \in 1 .. NonLeafSize - 1 /\ NonLeafSize = 2 * half /\ NonLeafSize \in Nat
  BY NonLeafHalf, SizeAssumption
<1>2. SplitNonLeaf(node, k, p) =
        IF insertLeft
        THEN [left |-> WithChild(left, node.keys[kept + 1], p),
              right |-> right, up |-> node.keys[kept + 1]]
        ELSE [left |-> left, right |-> WithChild(right, k, p), up |-> node.keys[kept]]
  <2>1. kept = NonLeafSize - (IF insertLeft THEN half ELSE (NonLeafSize - 1) \div 2)
    BY NonLeafHalf, SizeAssumption
  <2> QED  BY <2>1 DEF SplitNonLeaf
<1>3. /\ node \in InnerNode /\ Len(node.keys) = NonLeafSize /\ Len(node.pages) = NonLeafSize + 1
      /\ ToSet(node.pages) \subseteq pages
  BY DEF InnerWith
<1>4. node.keys \in Seq(Key) /\ node.pages \in Seq(Nat) /\ node.level \in {0, 1}
  BY <1>3, InnerFields
<1>5. /\ kept \in 1 .. NonLeafSize
      /\ insertLeft => kept = half
      /\ ~insertLeft => kept = half + 1
  BY <1>1
<1> HIDE DEF half, insertLeft, kept
<1>6. InnerWith(left, kept - 1, pages) /\ left.level = node.level
  <2>1. SubSeq(node.keys, 1, kept - 1) \in Seq(Key) /\ Len(SubSeq(node.keys, 1, kept - 1)) = kept - 1
    BY <1>3, <1>4, <1>5, Halves
  <2>2. /\ SubSeq(node.pages, 1, kept) \in Seq(Nat) /\ Len(SubSeq(node.pages, 1, kept)) = kept
        /\ ToSet(SubSeq(node.pages, 1, kept)) \subseteq ToSet(node.pages)
    <3>1. kept \in 0 .. Len(node.pages)
      BY <1>1, <1>3, <1>5
    <3> QED  BY <1>4, <3>1, Halves, HalvesSet
  <2>3. (kept - 1) + 1 = kept
    BY <1>5
  <2> HIDE DEF kept
  <2> QED  BY <1>3, <1>4, <2>1, <2>2, <2>3, InnerIs
<1>7. InnerWith(right, NonLeafSize - kept, pages) /\ right.level = node.level
  <2>1. /\ SubSeq(node.keys, kept + 1, NonLeafSize) \in Seq(Key)
        /\ Len(SubSeq(node.keys, kept + 1, NonLeafSize)) = NonLeafSize - kept
    <3>1. kept \in 0 .. Len(node.keys)
      BY <1>1, <1>3, <1>5
    <3> QED  BY <1>3, <1>4, <3>1, Halves
  <2>2. /\ SubSeq(node.pages, kept + 1, NonLeafSize + 1) \in Seq(Nat)
        /\ Len(SubSeq(node.pages, kept + 1, NonLeafSize + 1)) = NonLeafSize + 1 - kept
        /\ ToSet(SubSeq(node.pages, kept + 1, NonLeafSize + 1)) \subseteq ToSet(node.pages)
    <3>1. kept \in 0 .. Len(node.pages)
      BY <1>1, <1>3, <1>5
    <3> DEFINE ps == node.pages
    <3> HIDE DEF ps
    <3>2. ps \in Seq(Nat) /\ kept \in 0 .. Len(ps) /\ Len(ps) = NonLeafSize + 1
      BY <1>3, <1>4, <3>1 DEF ps
    <3>3. /\ SubSeq(ps, kept + 1, Len(ps)) \in Seq(Nat)
          /\ Len(SubSeq(ps, kept + 1, Len(ps))) = Len(ps) - kept
      BY <3>2, Halves
    <3>4. ToSet(SubSeq(ps, kept + 1, Len(ps))) \subseteq ToSet(ps)
      BY <3>2, HalvesSet
    <3>5. /\ SubSeq(ps, kept + 1, NonLeafSize + 1) \in Seq(Nat)
          /\ Len(SubSeq(ps, kept + 1, NonLeafSize + 1)) = NonLeafSize + 1 - kept
          /\ ToSet(SubSeq(ps, kept + 1, NonLeafSize + 1)) \subseteq ToSet(ps)
      BY <1>1, <1>5, <3>2, <3>3, <3>4
    <3> QED  BY <3>5 DEF ps
  <2>3. (NonLeafSize - kept) + 1 = NonLeafSize + 1 - kept
    BY <1>1, <1>5
  <2> DEFINE ks == SubSeq(node.keys, kept + 1, NonLeafSize)
             ps == SubSeq(node.pages, kept + 1, NonLeafSize + 1)
             n == NonLeafSize - kept
  <2>4. ks \in Seq(Key) /\ ps \in Seq(Nat) /\ Len(ks) = n /\ Len(ps) = n + 1 /\ ToSet(ps) \subseteq pages
    BY <1>3, <2>1, <2>2, <2>3
  <2>5. right = NonLeaf(ks, ps, node.level)
    OBVIOUS
  <2> HIDE DEF ks, ps, n, right
  <2>6. InnerWith(right, n, pages) /\ right.level = node.level
    BY <1>4, <2>4, <2>5, InnerIs
  <2> QED  BY <2>6 DEF n
<1> HIDE DEF left, right
<1>8. CASE insertLeft
  <2>1. node.keys[kept + 1] \in Key
    BY <1>1, <1>3, <1>4, <1>5, <1>8
  <2>2. kept - 1 \in Nat /\ (kept - 1) + 1 \in 1 .. NonLeafSize /\ NonLeafSize - kept \in 1 .. NonLeafSize
    BY <1>1, <1>5, <1>8
  <2>3. /\ InnerWith(WithChild(left, node.keys[kept + 1], p), (kept - 1) + 1, pages \cup {p})
        /\ WithChild(left, node.keys[kept + 1], p).level = node.level
    BY <1>6, <2>1, <2>2, ChildPlaced
  <2>4. InnerWith(right, NonLeafSize - kept, pages \cup {p})
    BY <1>7 DEF InnerWith
  <2> DEFINE lower == WithChild(left, node.keys[kept + 1], p)
  <2> HIDE DEF lower
  <2>5. SplitNonLeaf(node, k, p) = [left |-> lower, right |-> right, up |-> node.keys[kept + 1]]
    BY <1>2, <1>8 DEF lower
  <2>6. (\E n \in 1 .. NonLeafSize : InnerWith(lower, n, pages \cup {p})) /\ lower.level = node.level
    BY <2>2, <2>3 DEF lower
  <2>7. \E n \in 1 .. NonLeafSize : InnerWith(right, n, pages \cup {p})
    BY <2>2, <2>4
  <2>8. /\ SplitNonLeaf(node, k, p).left = lower
        /\ SplitNonLeaf(node, k, p).right = right
        /\ SplitNonLeaf(node, k, p).up = node.keys[kept + 1]
    BY <2>5
  <2> QED  BY <1>7, <2>1, <2>6, <2>7, <2>8
<1>9. CASE ~insertLeft
  <2>1. node.keys[kept] \in Key
    BY <1>3, <1>4, <1>5
  <2>2. /\ NonLeafSize - kept \in Nat /\ (NonLeafSize - kept) + 1 \in 1 .. NonLeafSize
        /\ kept - 1 \in 1 .. NonLeafSize
    BY <1>1, <1>5, <1>9
  <2>3. /\ InnerWith(WithChild(right, k, p), (NonLeafSize - kept) + 1, pages \cup {p})
        /\ WithChild(right, k, p).level = node.level
    BY <1>7, <2>2, ChildPlaced
  <2>4. InnerWith(left, kept - 1, pages \cup {p})
    BY <1>6 DEF InnerWith
  <2> DEFINE upper == WithChild(right, k, p)
  <2> HIDE DEF upper
  <2>5. SplitNonLeaf(node, k, p) = [left |-> left, right |-> upper, up |-> node.keys[kept]]
    BY <1>2, <1>9 DEF upper
  <2>6. (\E n \in 1 .. NonLeafSize : InnerWith(upper, n, pages \cup {p})) /\ upper.level = node.level
    BY <2>2, <2>3 DEF upper
  <2>7. \E n \in 1 .. NonLeafSize : InnerWith(left, n, pages \cup {p})
    BY <2>2, <2>4
  <2>8. /\ SplitNonLeaf(node, k, p).left = left
        /\ SplitNonLeaf(node, k, p).right = upper
        /\ SplitNonLeaf(node, k, p).up = node.keys[kept]
    BY <2>5
  <2> QED  BY <1>6, <2>1, <2>6, <2>7, <2>8
<1> QED  BY <1>8, <1>9

-----------------------------------------------------------------------------
(* The nodes of a tree, and how high above the leaves they are. *)

(* The node fits its page, and points to pages from 1 to n.                *)
NodeFits(node, n) ==
    \/ node \in LeafNode /\ Len(node.entries) <= LeafSize /\ node.right <= n
    \/ \E k \in 1 .. NonLeafSize : InnerWith(node, k, 1 .. n)

Shaped(ns) ==
    /\ ns \in Seq(LeafNode \cup InnerNode)
    /\ \A p \in 1 .. Len(ns) : NodeFits(ns[p], Len(ns))

(* A node is at height n where h gives the heights: the leaves are at 0, a *)
(* non-leaf node is one above each of its children, and level says which   *)
(* of them are above leaves.  A leaf points right to a leaf.               *)
AtHeight(node, n, h) ==
    /\ node.leaf <=> n = 0
    /\ node.leaf => node.right = NoPage \/ h[node.right] = 0
    /\ ~node.leaf => (node.level = 1 <=> n = 1) /\ \A q \in ToSet(node.pages) : n = h[q] + 1

Layered(ns, h) ==
    /\ h \in [1 .. Len(ns) -> Nat]
    /\ \A p \in 1 .. Len(ns) : AtHeight(ns[p], h[p], h)

(* The heights when a page at height n is added.                           *)
WithHeight(ns, h, n) == [q \in 1 .. Len(ns) + 1 |-> IF q <= Len(ns) THEN h[q] ELSE n]

LEMMA LeafFits ==
  ASSUME NEW node, NEW n, NodeFits(node, n), node.leaf
  PROVE  /\ node \in LeafNode /\ Len(node.entries) <= LeafSize /\ node.right <= n
         /\ node.entries \in Seq(Entry) /\ node.right \in Nat
BY DEF NodeFits, InnerWith, LeafNode, InnerNode

LEMMA InnerFits ==
  ASSUME NEW node, NEW n, NodeFits(node, n), ~node.leaf
  PROVE  \E k \in 1 .. NonLeafSize : InnerWith(node, k, 1 .. n)
BY DEF NodeFits, InnerWith, LeafNode, InnerNode

LEMMA NodeIs ==
  ASSUME NEW node, NEW n, NodeFits(node, n)
  PROVE  node \in LeafNode \cup InnerNode /\ node.leaf \in BOOLEAN
BY DEF NodeFits, InnerWith, LeafNode, InnerNode

LEMMA FitsMore ==
  ASSUME NEW node, NEW n \in Nat, NodeFits(node, n)
  PROVE  NodeFits(node, n + 1)
<1>1. CASE node \in LeafNode /\ Len(node.entries) <= LeafSize /\ node.right <= n
  <2>1. node.right \in Nat
    BY <1>1 DEF LeafNode
  <2> QED  BY <1>1, <2>1 DEF NodeFits
<1>2. CASE \E k \in 1 .. NonLeafSize : InnerWith(node, k, 1 .. n)
  <2>1. 1 .. n \subseteq 1 .. n + 1
    OBVIOUS
  <2> QED  BY <1>2, <2>1 DEF NodeFits, InnerWith
<1> QED  BY <1>1, <1>2 DEF NodeFits

LEMMA Replaced ==
  ASSUME NEW ns, Shaped(ns), NEW h, Layered(ns, h), NEW p \in 1 .. Len(ns),
         NEW node, NodeFits(node, Len(ns)), AtHeight(node, h[p], h)
  PROVE  Shaped([ns EXCEPT ![p] = node]) /\ Layered([ns EXCEPT ![p] = node], h)
<1> DEFINE new == [ns EXCEPT ![p] = node]
<1>1. node \in LeafNode \cup InnerNode
  BY NodeIs
<1>2. ns \in Seq(LeafNode \cup InnerNode)
  BY DEF Shaped
<1>3. /\ new \in Seq(LeafNode \cup InnerNode) /\ Len(new) = Len(ns)
      /\ \A q \in 1 .. Len(ns) : new[q] = IF q = p THEN node ELSE ns[q]
  BY <1>1, <1>2
<1> HIDE DEF new
<1>4. Shaped(new)
  BY <1>3 DEF Shaped
<1>5. Layered(new, h)
  BY <1>3 DEF Layered
<1> QED  BY <1>4, <1>5 DEF new

LEMMA HigherBy ==
  ASSUME NEW ns, Len(ns) \in Nat, NEW h \in [1 .. Len(ns) -> Nat], NEW n \in Nat
  PROVE  /\ WithHeight(ns, h, n) \in [1 .. Len(ns) + 1 -> Nat]
         /\ \A q \in 1 .. Len(ns) : WithHeight(ns, h, n)[q] = h[q]
         /\ WithHeight(ns, h, n)[Len(ns) + 1] = n
BY DEF WithHeight

(* A node that points to the pages there were stays at its height.         *)
LEMMA HeightStays ==
  ASSUME NEW ns, Len(ns) \in Nat, NEW h \in [1 .. Len(ns) -> Nat], NEW n \in Nat,
         NEW node, NodeFits(node, Len(ns)), NEW m, AtHeight(node, m, h)
  PROVE  AtHeight(node, m, WithHeight(ns, h, n))
<1>1. CASE node.leaf
  <2>1. node.right \in Nat /\ node.right <= Len(ns)
    BY <1>1, LeafFits
  <2>2. node.right = NoPage \/ WithHeight(ns, h, n)[node.right] = h[node.right]
    BY <2>1, HigherBy DEF NoPage
  <2> QED  BY <1>1, <2>2 DEF AtHeight
<1>2. CASE ~node.leaf
  <2>1. ToSet(node.pages) \subseteq 1 .. Len(ns)
    BY <1>2, InnerFits DEF InnerWith
  <2>2. \A q \in ToSet(node.pages) : WithHeight(ns, h, n)[q] = h[q]
    BY <2>1, HigherBy
  <2> QED  BY <1>2, <2>2 DEF AtHeight
<1> QED  BY <1>1, <1>2

LEMMA Extended ==
  ASSUME NEW ns, Shaped(ns), NEW h, Layered(ns, h), NEW n \in Nat,
         NEW node, NodeFits(node, Len(ns) + 1), AtHeight(node, n, WithHeight(ns, h, n))
  PROVE  Shaped(Append(ns, node)) /\ Layered(Append(ns, node), WithHeight(ns, h, n))
<1> DEFINE new == Append(ns, node)
<1>1. node \in LeafNode \cup InnerNode
  BY NodeIs
<1>2. ns \in Seq(LeafNode \cup InnerNode) /\ Len(ns) \in Nat /\ h \in [1 .. Len(ns) -> Nat]
  BY DEF Shaped, Layered
<1>3. /\ new \in Seq(LeafNode \cup InnerNode) /\ Len(new) = Len(ns) + 1
      /\ \A q \in 1 .. Len(ns) : new[q] = ns[q]
      /\ new[Len(ns) + 1] = node
  BY <1>1, <1>2
<1>4. \A q \in 1 .. Len(ns) + 1 : q \in 1 .. Len(ns) \/ q = Len(ns) + 1
  BY <1>2
<1> HIDE DEF new
<1>5. Shaped(new)
  <2>1. ASSUME NEW q \in 1 .. Len(ns) PROVE NodeFits(ns[q], Len(ns) + 1)
    BY <1>2, FitsMore DEF Shaped
  <2> QED  BY <1>3, <1>4, <2>1 DEF Shaped
<1>6. Layered(new, WithHeight(ns, h, n))
  <2> DEFINE g == WithHeight(ns, h, n)
  <2>1. g \in [1 .. Len(ns) + 1 -> Nat] /\ g[Len(ns) + 1] = n /\ \A q \in 1 .. Len(ns) : g[q] = h[q]
    BY <1>2, HigherBy
  <2>2. \A q \in 1 .. Len(ns) : AtHeight(ns[q], h[q], g)
    BY <1>2, HeightStays DEF Shaped, Layered
  <2> HIDE DEF g
  <2>3. \A q \in 1 .. Len(ns) + 1 : AtHeight(new[q], g[q], g)
    BY <1>3, <1>4, <2>1, <2>2 DEF g
  <2> QED  BY <1>3, <2>1, <2>3 DEF Layered, g
<1> QED  BY <1>5, <1>6 DEF new

(* A node is split: its page gets the left part and a new page the right.  *)
LEMMA SplitInTwo ==
  ASSUME NEW ns, Shaped(ns), NEW h, Layered(ns, h), NEW p \in 1 .. Len(ns), NEW g,
         g = WithHeight(ns, h, h[p]),
         NEW a, NodeFits(a, Len(ns) + 1), AtHeight(a, h[p], g),
         NEW b, NodeFits(b, Len(ns) + 1), AtHeight(b, h[p], g)
  PROVE  /\ Shaped(Append([ns EXCEPT ![p] = a], b))
         /\ Layered(Append([ns EXCEPT ![p] = a], b), g)
<1>1. /\ ns \in Seq(LeafNode \cup InnerNode) /\ Len(ns) \in Nat /\ h \in [1 .. Len(ns) -> Nat]
      /\ h[p] \in Nat
  BY DEF Shaped, Layered
<1>2. Shaped(Append(ns, b)) /\ Layered(Append(ns, b), g)
  BY <1>1, Extended
<1>3. p \in 1 .. Len(Append(ns, b)) /\ Len(Append(ns, b)) = Len(ns) + 1
  BY <1>1
<1>4. g[p] = h[p]
  BY <1>1, HigherBy
<1>5. Append([ns EXCEPT ![p] = a], b) = [Append(ns, b) EXCEPT ![p] = a]
  <2> DEFINE S == LeafNode \cup InnerNode
             x == [ns EXCEPT ![p] = a]
             y == Append(ns, b)
  <2>1. a \in S /\ b \in S
    BY NodeIs
  <2>2. x \in Seq(S) /\ Len(x) = Len(ns) /\ \A q \in 1 .. Len(ns) : x[q] = IF q = p THEN a ELSE ns[q]
    BY <1>1, <2>1
  <2>3. /\ y \in Seq(S) /\ Len(y) = Len(ns) + 1
        /\ \A q \in 1 .. Len(ns) : y[q] = ns[q]
        /\ y[Len(ns) + 1] = b
    BY <1>1, <2>1
  <2> HIDE DEF x, y, S
  <2> DEFINE u == Append(x, b)
             v == [y EXCEPT ![p] = a]
  <2>4. /\ u \in Seq(S) /\ Len(u) = Len(ns) + 1
        /\ \A q \in 1 .. Len(ns) : u[q] = x[q]
        /\ u[Len(ns) + 1] = b
    <3>1. /\ u \in Seq(S) /\ Len(u) = Len(x) + 1
          /\ \A q \in 1 .. Len(x) : u[q] = x[q]
          /\ u[Len(x) + 1] = b
      BY <2>1, <2>2
    <3> QED  BY <2>2, <3>1
  <2>5. /\ v \in Seq(S) /\ Len(v) = Len(ns) + 1
        /\ \A q \in 1 .. Len(ns) + 1 : v[q] = IF q = p THEN a ELSE y[q]
    BY <1>1, <2>1, <2>3
  <2> HIDE DEF u, v
  <2>6. \A q \in 1 .. Len(ns) + 1 : q \in 1 .. Len(ns) \/ q = Len(ns) + 1
    BY <1>1
  <2>7. \A q \in 1 .. Len(u) : u[q] = v[q]
    BY <1>1, <2>2, <2>3, <2>4, <2>5, <2>6
  <2>8. u = v
    BY <2>4, <2>5, <2>7, SeqEqual
  <2> QED  BY <2>8 DEF u, v, x, y
<1> DEFINE all == Append(ns, b)
<1> HIDE DEF all
<1>6. Shaped([all EXCEPT ![p] = a]) /\ Layered([all EXCEPT ![p] = a], g)
  BY <1>2, <1>3, <1>4, Replaced DEF all
<1> QED  BY <1>5, <1>6 DEF all

-----------------------------------------------------------------------------
(* The way from the root, and back. *)

(* The loop over the keys of a non-leaf node ends at one of its pages.     *)
LEMMA TurnIs ==
  ASSUME NEW node, NEW n \in Nat, NodeFits(node, n), ~node.leaf, NEW k
  PROVE  /\ node.pages[FindIndex(node.keys, k) + 1] \in ToSet(node.pages)
         /\ node.pages[FindIndex(node.keys, k) + 1] \in 1 .. n
<1>1. PICK m \in 1 .. NonLeafSize : InnerWith(node, m, 1 .. n)
  BY InnerFits
<1>2. /\ node.keys \in Seq(Key) /\ Len(node.keys) = m
      /\ node.pages \in Seq(Nat) /\ Len(node.pages) = m + 1
      /\ ToSet(node.pages) \subseteq 1 .. n
  BY <1>1, InnerFields DEF InnerWith
<1>3. DOMAIN node.keys = 1 .. m /\ m \in Nat
  BY <1>2, SizeAssumption
<1>4. FindIndex(node.keys, k) \in 0 .. m
  BY <1>3, FindIndexIs
<1>5. FindIndex(node.keys, k) + 1 \in 1 .. Len(node.pages)
  BY <1>2, <1>3, <1>4
<1> QED  BY <1>2, <1>5, SetOf

(* Nodes at heights, the root the highest of them, as the counter says.    *)
Stands(ns, h) ==
    /\ Shaped(ns) /\ Layered(ns, h)
    /\ rootPageNum \in 1 .. Len(ns)
    /\ \A p \in 1 .. Len(ns) : h[p] <= h[rootPageNum]
    /\ nodeOccupancy = 0 <=> h[rootPageNum] = 0

LEMMA Standing ==
  ASSUME NEW ns, NEW h, Stands(ns, h)
  PROVE  /\ DOMAIN ns = 1 .. Len(ns) /\ Len(ns) \in Nat /\ h \in [1 .. Len(ns) -> Nat]
         /\ \A p \in 1 .. Len(ns) : NodeFits(ns[p], Len(ns)) /\ ns[p].leaf \in BOOLEAN
         /\ \A p \in 1 .. Len(ns) : ns[p].leaf <=> h[p] = 0
         /\ \A p \in 1 .. Len(ns) : ns[p].leaf /\ ns[p].right # NoPage =>
               ns[p].right \in 1 .. Len(ns) /\ h[ns[p].right] = 0
         /\ \A p \in 1 .. Len(ns) : ~ns[p].leaf => (ns[p].level = 1 <=> h[p] = 1)
         /\ \A p \in 1 .. Len(ns) : ~ns[p].leaf =>
               \A q \in ToSet(ns[p].pages) : q \in 1 .. Len(ns) /\ h[p] = h[q] + 1
<1>1. /\ DOMAIN ns = 1 .. Len(ns) /\ Len(ns) \in Nat /\ h \in [1 .. Len(ns) -> Nat]
      /\ \A p \in 1 .. Len(ns) : NodeFits(ns[p], Len(ns)) /\ AtHeight(ns[p], h[p], h)
  BY DEF Stands, Shaped, Layered
<1>2. \A p \in 1 .. Len(ns) : ns[p].leaf \in BOOLEAN
  BY <1>1, NodeIs
<1>3. \A p \in 1 .. Len(ns) : ~ns[p].leaf => ToSet(ns[p].pages) \subseteq 1 .. Len(ns)
  BY <1>1, InnerFits DEF InnerWith
<1>4. \A p \in 1 .. Len(ns) : ns[p].leaf => ns[p].right \in Nat /\ ns[p].right <= Len(ns)
  BY <1>1, LeafFits
<1>5. \A p \in 1 .. Len(ns) : ns[p].leaf /\ ns[p].right # NoPage =>
          ns[p].right \in 1 .. Len(ns) /\ h[ns[p].right] = 0
  BY <1>1, <1>4 DEF AtHeight, NoPage
<1> QED  BY <1>1, <1>2, <1>3, <1>5 DEF AtHeight

(* The turn that k takes at a non-leaf node leads one down.                *)
LEMMA TurnLeads ==
  ASSUME NEW ns, NEW h, Stands(ns, h), NEW p \in 1 .. Len(ns), ~ns[p].leaf, NEW k
  PROVE  LET q == ns[p].pages[FindIndex(ns[p].keys, k) + 1] IN
         q \in 1 .. Len(ns) /\ h[p] = h[q] + 1
<1>1. Len(ns) \in Nat /\ NodeFits(ns[p], Len(ns))
  BY Standing
<1>2. ns[p].pages[FindIndex(ns[p].keys, k) + 1] \in ToSet(ns[p].pages)
  BY <1>1, TurnIs
<1> QED  BY <1>2, Standing

(* The pages below p on the way of k: one at each height. *)
GoesDown(w, n, h) ==
    /\ w \in Seq(DOMAIN h) /\ Len(w) = n
    /\ \A i \in 1 .. n : h[w[i]] = n - i

LEMMA GoesDownMore ==
  ASSUME NEW h, NEW n \in Nat, NEW w, GoesDown(w, n, h), NEW q \in DOMAIN h, h[q] = n
  PROVE  GoesDown(<<q>> \o w, n + 1, h)
<1>1. w \in Seq(DOMAIN h) /\ Len(w) = n /\ \A i \in 1 .. n : h[w[i]] = n - i
  BY DEF GoesDown
<1>2. <<q>> \in Seq(DOMAIN h) /\ Len(<<q>>) = 1 /\ <<q>>[1] = q
  OBVIOUS
<1> DEFINE v == <<q>> \o w
<1>3. v \in Seq(DOMAIN h) /\ Len(v) = n + 1
      /\ \A i \in 1 .. n + 1 : v[i] = IF i <= 1 THEN q ELSE w[i - 1]
  BY <1>1, <1>2, ConcatProperties
<1> HIDE DEF v
<1>4. ASSUME NEW i \in 1 .. n + 1 PROVE h[v[i]] = (n + 1) - i
  <2>1. CASE i = 1
    BY <1>3, <2>1
  <2>2. CASE i # 1
    <3>1. i - 1 \in 1 .. n /\ v[i] = w[i - 1]
      BY <1>3, <2>2
    <3>2. h[w[i - 1]] = n - (i - 1)
      BY <1>1, <3>1
    <3> QED  BY <3>1, <3>2
  <2> QED  BY <2>1, <2>2
<1> QED  BY <1>3, <1>4 DEF GoesDown, v

(* What the recursion of Way computes for the page below p on the way of k. *)
Descends(f, k, p) ==
    f[p] = IF nodes[p].leaf THEN <<>>
           ELSE <<Child(p, k)>> \o IF nodes[p].level = 1 THEN <<>> ELSE f[Child(p, k)]

LEMMA WayUnfolds ==
  ASSUME NEW h, Stands(nodes, h), NEW k
  PROVE  \E f : /\ Way(k) = <<rootPageNum>> \o IF nodeOccupancy = 0 THEN <<>> ELSE f[rootPageNum]
                /\ \A p \in 1 .. Len(nodes) : Descends(f, k, p)
<1> DEFINE P == 1 .. Len(nodes)
           T == Seq(P)
           down(p) == Child(p, k)
           stop == {p \in P : nodes[p].leaf \/ nodes[p].level = 1}
           base == [p \in stop |-> IF nodes[p].leaf THEN <<>> ELSE <<down(p)>> \o <<>>]
           nxt == [p \in P |-> down(p)]
           comb == [y \in P \X T |-> IF y[1] \in stop THEN <<>> ELSE <<down(y[1])>> \o y[2]]
           IsBelow(f) == f = [p \in Page |->
                            IF nodes[p].leaf THEN <<>>
                            ELSE <<Child(p, k)>> \o
                                 IF nodes[p].level = 1 THEN <<>> ELSE f[Child(p, k)]]
           below[p \in Page] ==
               IF nodes[p].leaf THEN <<>>
               ELSE <<Child(p, k)>> \o IF nodes[p].level = 1 THEN <<>> ELSE below[Child(p, k)]
<1>1. /\ Page = P /\ h \in [P -> Nat]
      /\ \A p \in P : nodes[p].leaf <=> h[p] = 0
      /\ \A p \in P : ~nodes[p].leaf => (nodes[p].level = 1 <=> h[p] = 1)
  BY Standing DEF Page
<1>2. \A p \in P : ~nodes[p].leaf => down(p) \in P /\ h[p] = h[down(p)] + 1
  BY TurnLeads DEF Child
<1>3. rootPageNum \in P /\ (nodeOccupancy = 0 <=> h[rootPageNum] = 0)
      /\ \A p \in P : h[p] <= h[rootPageNum]
  BY DEF Stands
<1>4. Way(k) = <<rootPageNum>> \o IF nodeOccupancy = 0 THEN <<>> ELSE below[rootPageNum]
  BY DEF Way
<1>5. below = CHOOSE g : IsBelow(g)
  OBVIOUS
<1> HIDE DEF P, below, down
<1>6. \E f : IsBelow(f)
  <2>1. base \in [stop -> T]
    BY <1>2
  <2>2. \A p \in P \ stop : nxt[p] \in P /\ h[nxt[p]] < h[p]
    BY <1>1, <1>2
  <2>3. comb \in [P \X T -> T]
    <3>1. \A y \in P \X T : y[1] \notin stop => <<down(y[1])>> \o y[2] \in T
      BY <1>2
    <3>2. <<>> \in T
      OBVIOUS
    <3> QED  BY <3>1, <3>2
  <2>4. stop \in SUBSET P /\ h[rootPageNum] \in Nat
    BY <1>1, <1>3
  <2> HIDE DEF T, stop, base, nxt, comb
  <2>5. PICK f \in [P -> T] : Unfolded(f, P, stop, base, nxt, comb)
    BY <1>1, <1>3, <2>1, <2>2, <2>3, <2>4, Unfolds
  <2>6. ASSUME NEW p \in P
        PROVE  f[p] = IF nodes[p].leaf THEN <<>>
                      ELSE <<down(p)>> \o IF nodes[p].level = 1 THEN <<>> ELSE f[down(p)]
    <3>1. f[p] = IF p \in stop THEN base[p] ELSE comb[<<p, f[nxt[p]]>>]
      BY <2>5 DEF Unfolded
    <3>2. CASE p \in stop
      BY <3>1, <3>2 DEF stop, base
    <3>3. CASE p \notin stop
      <4>1. nxt[p] = down(p) /\ f[down(p)] \in T /\ ~nodes[p].leaf /\ nodes[p].level # 1
        BY <1>2, <2>5, <3>3 DEF nxt, stop
      <4>2. comb[<<p, f[down(p)]>>] = <<down(p)>> \o f[down(p)]
        BY <3>3, <4>1 DEF comb
      <4> QED  BY <3>1, <3>3, <4>1, <4>2
    <3> QED  BY <3>2, <3>3
  <2>7. f = [p \in P |-> f[p]]
    OBVIOUS
  <2>8. f = [p \in P |->
                IF nodes[p].leaf THEN <<>>
                ELSE <<down(p)>> \o IF nodes[p].level = 1 THEN <<>> ELSE f[down(p)]]
    BY <2>6, <2>7
  <2>9. IsBelow(f)
    BY <1>1, <2>8 DEF down
  <2> QED  BY <2>9
<1> HIDE DEF IsBelow
<1>7. IsBelow(below)
  BY <1>5, <1>6
<1>8. \A p \in P : Descends(below, k, p)
  BY <1>1, <1>7 DEF IsBelow, Descends
<1> QED  BY <1>4, <1>8 DEF P

(* findLeaf goes down one level at a time, to a leaf. *)
LEMMA WayIs ==
  ASSUME NEW h, Stands(nodes, h), NEW k
  PROVE  GoesDown(Way(k), h[rootPageNum] + 1, h) /\ Way(k)[1] = rootPageNum
<1> DEFINE P == 1 .. Len(nodes)
           down(p) == Child(p, k)
<1>1. /\ h \in [P -> Nat]
      /\ \A p \in P : nodes[p].leaf <=> h[p] = 0
      /\ \A p \in P : ~nodes[p].leaf => (nodes[p].level = 1 <=> h[p] = 1)
  BY Standing
<1>2. \A p \in P : ~nodes[p].leaf => down(p) \in P /\ h[p] = h[down(p)] + 1
  BY TurnLeads DEF Child
<1>3. rootPageNum \in P /\ (nodeOccupancy = 0 <=> h[rootPageNum] = 0)
  BY DEF Stands
<1>4. PICK below :
        /\ Way(k) = <<rootPageNum>> \o IF nodeOccupancy = 0 THEN <<>> ELSE below[rootPageNum]
        /\ \A p \in P : Descends(below, k, p)
  BY WayUnfolds
<1>8. \A p \in P : below[p] = IF nodes[p].leaf THEN <<>>
                              ELSE <<down(p)>> \o IF nodes[p].level = 1 THEN <<>> ELSE below[down(p)]
  BY <1>4 DEF Descends
<1> HIDE DEF P, down
<1>9. \A p \in P : GoesDown(below[p], h[p], h)
  <2> DEFINE Bad == {h[p] : p \in {q \in P : ~GoesDown(below[q], h[q], h)}}
  <2> SUFFICES ASSUME Bad # {} PROVE FALSE
    OBVIOUS
  <2>1. PICK m \in Bad : \A n \in Bad : m <= n
    <3>1. Bad \in SUBSET Nat
      BY <1>1
    <3> HIDE DEF Bad
    <3> QED  BY <3>1, LeastNumber
  <2>2. PICK p \in P : h[p] = m /\ ~GoesDown(below[p], h[p], h)
    BY <2>1
  <2>3. CASE nodes[p].leaf
    <3>1. below[p] = <<>> /\ h[p] = 0
      BY <1>1, <1>8, <2>3
    <3>2. GoesDown(<<>>, 0, h)
      BY DEF GoesDown
    <3> QED  BY <2>2, <3>1, <3>2
  <2>4. CASE ~nodes[p].leaf
    <3> DEFINE q == down(p)
    <3>1. q \in P /\ h[p] = h[q] + 1 /\ h[q] \in Nat /\ DOMAIN h = P
      BY <1>1, <1>2, <2>4
    <3> DEFINE w == IF nodes[p].level = 1 THEN <<>> ELSE below[q]
    <3>2. below[p] = <<q>> \o w
      BY <1>8, <2>4
    <3>3. GoesDown(w, h[q], h)
      <4>1. CASE nodes[p].level = 1
        <5>1. h[q] = 0 /\ w = <<>>
          BY <1>1, <2>4, <3>1, <4>1
        <5>2. GoesDown(<<>>, 0, h)
          BY DEF GoesDown
        <5> QED  BY <5>1, <5>2
      <4>2. CASE nodes[p].level # 1
        <5>1. h[q] \notin Bad
          BY <2>1, <2>2, <3>1
        <5> QED  BY <3>1, <4>2, <5>1
      <4> QED  BY <4>1, <4>2
    <3> HIDE DEF q, w
    <3>4. GoesDown(<<q>> \o w, h[q] + 1, h)
      BY <3>1, <3>3, GoesDownMore
    <3> QED  BY <2>2, <3>1, <3>2, <3>4
  <2> QED  BY <2>3, <2>4
<1> DEFINE w == IF nodeOccupancy = 0 THEN <<>> ELSE below[rootPageNum]
<1>10. GoesDown(w, h[rootPageNum], h)
  <2>1. CASE nodeOccupancy = 0
    BY <1>3, <2>1 DEF GoesDown
  <2>2. CASE nodeOccupancy # 0
    BY <1>3, <1>9, <2>2
  <2> QED  BY <2>1, <2>2
<1>11. Way(k) = <<rootPageNum>> \o w
  BY <1>4
<1> HIDE DEF w
<1>12. GoesDown(Way(k), h[rootPageNum] + 1, h)
  BY <1>1, <1>3, <1>10, <1>11, GoesDownMore
<1>13. Way(k)[1] = rootPageNum
  <2>1. w \in Seq(P)
    BY <1>1, <1>10 DEF GoesDown
  <2> QED  BY <1>3, <1>11, <2>1
<1> QED  BY <1>12, <1>13

(* What the recursion of ParentIn computes below p for key k. *)
Turn(ns, p, k) == ns[p].pages[FindIndex(ns[p].keys, k) + 1]

SeeksParent(f, ns, target, p) ==
    f[p] = IF ns[p].leaf THEN NoPage
           ELSE IF Turn(ns, p, ProbeKey(ns[target])) = target THEN p
           ELSE f[Turn(ns, p, ProbeKey(ns[target]))]

LEMMA ParentUnfolds ==
  ASSUME NEW ns, NEW h, Stands(ns, h), NEW target \in 1 .. Len(ns), target # rootPageNum
  PROVE  \E f : /\ ParentIn(ns, target) = f[rootPageNum]
                /\ \A p \in 1 .. Len(ns) : SeeksParent(f, ns, target, p)
<1> DEFINE P == 1 .. Len(ns)
           k == ProbeKey(ns[target])
           down(p) == ns[p].pages[FindIndex(ns[p].keys, k) + 1]
           stop == {p \in P : ns[p].leaf \/ down(p) = target}
           base == [p \in stop |-> IF ns[p].leaf THEN NoPage ELSE p]
           nxt == [p \in P |-> down(p)]
           comb == [y \in P \X Nat |-> y[2]]
           IsParent(f) == f = [p \in DOMAIN ns |->
                             IF ns[p].leaf THEN NoPage
                             ELSE IF down(p) = target THEN p
                             ELSE f[down(p)]]
           parent[p \in DOMAIN ns] ==
               IF ns[p].leaf THEN NoPage
               ELSE IF down(p) = target THEN p
               ELSE parent[down(p)]
<1>1. DOMAIN ns = P /\ h \in [P -> Nat] /\ P \subseteq Nat
  BY Standing
<1>2. \A p \in P : ~ns[p].leaf => down(p) \in P /\ h[p] = h[down(p)] + 1
  BY TurnLeads
<1>3. rootPageNum \in P /\ h[rootPageNum] \in Nat /\ \A p \in P : h[p] <= h[rootPageNum]
  BY <1>1 DEF Stands
<1>4. ParentIn(ns, target) = parent[rootPageNum]
  BY DEF ParentIn
<1>5. parent = CHOOSE g : IsParent(g)
  OBVIOUS
<1> HIDE DEF P, parent, down
<1>6. \E f : IsParent(f)
  <2>1. base \in [stop -> Nat]
    BY <1>1 DEF NoPage
  <2>2. \A p \in P \ stop : nxt[p] \in P /\ h[nxt[p]] < h[p]
    BY <1>1, <1>2
  <2>3. comb \in [P \X Nat -> Nat] /\ stop \in SUBSET P
    OBVIOUS
  <2> HIDE DEF stop, base, nxt, comb
  <2>4. PICK f \in [P -> Nat] : Unfolded(f, P, stop, base, nxt, comb)
    BY <1>1, <1>3, <2>1, <2>2, <2>3, Unfolds
  <2>5. ASSUME NEW p \in P
        PROVE  f[p] = IF ns[p].leaf THEN NoPage ELSE IF down(p) = target THEN p ELSE f[down(p)]
    <3>1. f[p] = IF p \in stop THEN base[p] ELSE comb[<<p, f[nxt[p]]>>]
      BY <2>4 DEF Unfolded
    <3>2. CASE p \in stop
      BY <3>1, <3>2 DEF stop, base
    <3>3. CASE p \notin stop
      <4>1. nxt[p] = down(p) /\ f[down(p)] \in Nat /\ ~ns[p].leaf /\ down(p) # target
        BY <1>2, <2>4, <3>3 DEF nxt, stop
      <4>2. comb[<<p, f[down(p)]>>] = f[down(p)]
        BY <4>1 DEF comb
      <4> QED  BY <3>1, <3>3, <4>1, <4>2
    <3> QED  BY <3>2, <3>3
  <2>6. f = [p \in P |-> IF ns[p].leaf THEN NoPage ELSE IF down(p) = target THEN p ELSE f[down(p)]]
    BY <2>5
  <2>7. IsParent(f)
    BY <1>1, <2>6
  <2> QED  BY <2>7
<1> HIDE DEF IsParent
<1>7. IsParent(parent)
  BY <1>5, <1>6
<1>8. \A p \in P : SeeksParent(parent, ns, target, p)
  BY <1>1, <1>7 DEF IsParent, SeeksParent, Turn, down
<1> QED  BY <1>4, <1>8 DEF P

(* findParent comes to a node one level above the target, or to no parent. *)
LEMMA ParentIs ==
  ASSUME NEW ns, NEW h, Stands(ns, h), NEW target \in 1 .. Len(ns), target # rootPageNum
  PROVE  \/ ParentIn(ns, target) = NoPage
         \/ ParentIn(ns, target) \in 1 .. Len(ns) /\ h[ParentIn(ns, target)] = h[target] + 1
<1> DEFINE P == 1 .. Len(ns)
           down(p) == Turn(ns, p, ProbeKey(ns[target]))
<1>1. h \in [P -> Nat]
  BY Standing
<1>2. \A p \in P : ~ns[p].leaf => down(p) \in P /\ h[p] = h[down(p)] + 1
  BY TurnLeads DEF Turn
<1>3. rootPageNum \in P
  BY DEF Stands
<1>4. PICK parent : /\ ParentIn(ns, target) = parent[rootPageNum]
                    /\ \A p \in P : SeeksParent(parent, ns, target, p)
  BY ParentUnfolds
<1>8. \A p \in P : parent[p] = IF ns[p].leaf THEN NoPage ELSE IF down(p) = target THEN p ELSE parent[down(p)]
  BY <1>4 DEF SeeksParent
<1> HIDE DEF P, down
<1> DEFINE Found(p) == parent[p] = NoPage \/ (parent[p] \in P /\ h[parent[p]] = h[target] + 1)
<1>9. \A p \in P : Found(p)
  <2> DEFINE Bad == {h[p] : p \in {q \in P : ~Found(q)}}
  <2> SUFFICES ASSUME Bad # {} PROVE FALSE
    OBVIOUS
  <2>1. PICK m \in Bad : \A n \in Bad : m <= n
    <3>1. Bad \in SUBSET Nat
      BY <1>1
    <3> HIDE DEF Bad
    <3> QED  BY <3>1, LeastNumber
  <2>2. PICK p \in P : h[p] = m /\ ~Found(p)
    BY <2>1
  <2>3. ~ns[p].leaf
    BY <1>8, <2>2
  <2>4. down(p) \in P /\ h[p] = h[down(p)] + 1 /\ h[down(p)] \in Nat
    BY <1>1, <1>2, <2>3
  <2>5. down(p) # target
    BY <1>8, <2>2, <2>3, <2>4
  <2>6. parent[p] = parent[down(p)]
    BY <1>8, <2>3, <2>5
  <2>7. h[down(p)] \notin Bad
    <3> HIDE DEF Bad
    <3>1. h[down(p)] \in Bad => h[p] <= h[down(p)]
      BY <2>1, <2>2
    <3> QED  BY <2>4, <3>1
  <2>8. Found(down(p))
    BY <2>4, <2>7
  <2> QED  BY <2>2, <2>6, <2>8
<1> QED  BY <1>3, <1>4, <1>9 DEF P

LEMMA LeafForIs ==
  ASSUME NEW h, Stands(nodes, h), NEW k
  PROVE  /\ LeafFor(k) \in 1 .. Len(nodes) /\ h[LeafFor(k)] = 0
         /\ nodes[LeafFor(k)].leaf
         /\ Len(Way(k)) - 1 = h[rootPageNum]
         /\ \A i \in DOMAIN Way(k) : Way(k)[i] \in 1 .. Len(nodes)
<1> DEFINE w == Way(k)
           n == h[rootPageNum] + 1
<1>1. h \in [1 .. Len(nodes) -> Nat] /\ rootPageNum \in 1 .. Len(nodes)
  BY Standing DEF Stands
<1>2. n \in Nat \ {0} /\ n - 1 = h[rootPageNum]
  BY <1>1
<1>3. w \in Seq(1 .. Len(nodes)) /\ Len(w) = n /\ \A i \in 1 .. n : h[w[i]] = n - i
  BY <1>1, WayIs DEF GoesDown
<1>4. LeafFor(k) = w[n]
  BY <1>3 DEF LeafFor, Last
<1> HIDE DEF w, n
<1>5. w[n] \in 1 .. Len(nodes) /\ h[w[n]] = 0
  BY <1>2, <1>3
<1> QED  BY <1>2, <1>3, <1>4, <1>5, Standing DEF w

-----------------------------------------------------------------------------
(* The invariant: the tree stands, and its members and calls agree with it. *)

(* While the root is split its new sibling is as high; nothing else is.    *)
OneTop(h) ==
    \A p \in 1 .. Len(nodes) :
        h[p] = h[rootPageNum] => p = rootPageNum \/ (call.at = "newRoot" /\ p = call.prevId)

(* On its way up insertEntry has a parent one above the node it split, and *)
(* currDepth says how far it is to the root.                               *)
CallOK(h) ==
    /\ call.at \in {"idle", "parent", "newRoot", "seek", "lost", "dead"}
    /\ call.at \in {"parent", "newRoot"} =>
          /\ call.currId \in 1 .. Len(nodes) /\ call.prevId \in 1 .. Len(nodes)
          /\ call.currKey \in Key /\ call.entry \in tried
    /\ call.at = "parent" =>
          /\ call.currDepth \in Nat
          /\ h[call.currId] = h[call.prevId] + 1
          /\ h[call.currId] + call.currDepth = h[rootPageNum]
    /\ call.at = "newRoot" =>
          /\ call.currId = rootPageNum /\ call.prevId # rootPageNum
          /\ h[call.prevId] = h[rootPageNum]

TreeOK(h) == Stands(nodes, h) /\ OneTop(h) /\ CallOK(h)

Ops == {"GT", "GTE", "LT", "LTE"}
Scans ==
    [executing : BOOLEAN, low : Int, lowOp : Ops, high : Int, highOp : Ops,
     page : Nat, next : Nat, ready : BOOLEAN]

(* The scan is on a leaf, or could not get it, and then that is not the    *)
(* root, which is pinned.                                                  *)
ScanOK ==
    /\ scan \in Scans
    /\ call.at = "seek" => scan.executing /\ scan.ready
    /\ scan.executing =>
          /\ scan.page \in 1 .. Len(nodes)
          /\ IF scan.ready THEN nodes[scan.page].leaf ELSE scan.page # rootPageNum

(* The pins that the root and the scan are sure to have. *)
Owed(p) ==
    (IF p = rootPageNum THEN 1 ELSE 0)
    + (IF scan.executing /\ scan.ready /\ p = scan.page THEN 1 ELSE 0)

PinsOK ==
    /\ pins \in Seq(Nat) /\ Len(pins) = Len(nodes)
    /\ \A p \in 1 .. Len(nodes) : pins[p] >= Owed(p)

CountsOK ==
    /\ leafOccupancy \in Nat /\ nodeOccupancy \in Nat
    /\ tried \subseteq Entry /\ stored \subseteq tried

IInv == (\E h : TreeOK(h)) /\ ScanOK /\ PinsOK /\ CountsOK

LEMMA InitIInv == Init => IInv
<1> SUFFICES ASSUME Init PROVE IInv
  OBVIOUS
<1> DEFINE h == [p \in 1 .. 1 |-> 0]
<1>1. nodes = <<Leaf(<<>>, 0)>> /\ rootPageNum = 1 /\ nodeOccupancy = 0 /\ call.at = "idle"
  BY DEF Init, NoPage, AtRest
<1>2. Leaf(<<>>, 0) \in LeafNode /\ Leaf(<<>>, 0).leaf /\ Leaf(<<>>, 0).entries = <<>>
      /\ Leaf(<<>>, 0).right = 0
  BY DEF Leaf, LeafNode
<1>3. Len(nodes) = 1 /\ nodes \in Seq(LeafNode \cup InnerNode) /\ nodes[1] = Leaf(<<>>, 0)
  BY <1>1, <1>2
<1>4. Shaped(nodes)
  <2>1. NodeFits(nodes[1], 1)
    BY <1>2, <1>3, SizeAssumption DEF NodeFits
  <2> QED  BY <1>3, <2>1 DEF Shaped
<1>5. Layered(nodes, h)
  BY <1>2, <1>3 DEF Layered, AtHeight, NoPage
<1>6. TreeOK(h)
  BY <1>1, <1>3, <1>4, <1>5 DEF TreeOK, Stands, OneTop, CallOK
<1>7. ScanOK
  BY <1>1 DEF Init, ScanOK, NoScan, Scans, Ops, NoPage
<1>8. PinsOK
  BY <1>1, <1>3 DEF Init, PinsOK, Owed, NoScan
<1>9. CountsOK
  BY DEF Init, CountsOK
<1> QED  BY <1>6, <1>7, <1>8, <1>9 DEF IInv

(* The heights of the pages there were stay what they were. *)
Grown(h, g) == \A p \in DOMAIN h : p \in DOMAIN g /\ g[p] = h[p]

(* A scan stays what it is while the tree grows around it. *)
LEMMA ScanStays ==
  ASSUME NEW h, NEW g, Stands(nodes, h), Stands(nodes, g)', Grown(h, g),
         ScanOK, scan' = scan, call'.at # "seek",
         rootPageNum' = rootPageNum \/ rootPageNum' \notin 1 .. Len(nodes)
  PROVE  ScanOK'
<1>1. /\ h \in [1 .. Len(nodes) -> Nat]
      /\ \A p \in 1 .. Len(nodes) : nodes[p].leaf <=> h[p] = 0
  BY Standing
<1>2. /\ g \in [1 .. Len(nodes') -> Nat]
      /\ \A p \in 1 .. Len(nodes') : nodes'[p].leaf <=> g[p] = 0
  BY DEF Stands, Layered, AtHeight
<1>3. \A p \in 1 .. Len(nodes) : p \in 1 .. Len(nodes') /\ (nodes[p].leaf => nodes'[p].leaf)
  BY <1>1, <1>2 DEF Grown
<1> QED  BY <1>3 DEF ScanOK

LEMMA PinsStay ==
  ASSUME PinsOK, scan' = scan, rootPageNum' = rootPageNum, Len(nodes) \in Nat,
         \/ pins' = pins /\ Len(nodes') = Len(nodes)
         \/ Len(nodes') = Len(nodes) /\ \E p \in 1 .. Len(nodes) : pins' = Pin(pins, p)
         \/ pins' = Append(pins, 0) /\ Len(nodes') = Len(nodes) + 1,
         rootPageNum \in 1 .. Len(nodes), scan.executing => scan.page \in 1 .. Len(nodes)
  PROVE  PinsOK'
<1>1. \A p : Owed(p)' = Owed(p)
  BY DEF Owed
<1>2. pins \in Seq(Nat) /\ Len(pins) = Len(nodes) /\ \A p \in 1 .. Len(nodes) : pins[p] >= Owed(p)
  BY DEF PinsOK
<1>3. \A p : Owed(p) \in Nat
  BY DEF Owed
<1>4. CASE pins' = pins /\ Len(nodes') = Len(nodes)
  BY <1>1, <1>2, <1>4 DEF PinsOK
<1>5. ASSUME Len(nodes') = Len(nodes), NEW q \in 1 .. Len(nodes), pins' = Pin(pins, q)
      PROVE  PinsOK'
  <2>1. /\ pins' \in Seq(Nat) /\ Len(pins') = Len(pins)
        /\ \A p \in 1 .. Len(nodes) : pins'[p] >= pins[p] /\ pins'[p] \in Nat /\ pins[p] \in Nat
    BY <1>2, <1>5 DEF Pin
  <2>2. \A p \in 1 .. Len(nodes) : pins'[p] >= Owed(p)
    <3> SUFFICES ASSUME NEW p \in 1 .. Len(nodes) PROVE pins'[p] >= Owed(p)
      OBVIOUS
    <3>1. pins[p] >= Owed(p) /\ Owed(p) \in Nat
      BY <1>2, <1>3
    <3>2. pins'[p] >= pins[p] /\ pins'[p] \in Nat /\ pins[p] \in Nat
      BY <2>1
    <3> HIDE DEF Owed
    <3> QED  BY <3>1, <3>2
  <2> QED  BY <1>1, <1>2, <1>5, <2>1, <2>2 DEF PinsOK
<1>6. CASE pins' = Append(pins, 0) /\ Len(nodes') = Len(nodes) + 1
  <2>1. /\ pins' \in Seq(Nat) /\ Len(pins') = Len(nodes')
        /\ \A p \in 1 .. Len(nodes) : pins'[p] = pins[p]
        /\ pins'[Len(nodes')] = 0
    <3>1. PICK ps \in Seq(Nat) : ps = pins
      BY <1>2
    <3>2. PICK qs : qs = Append(ps, 0)
      OBVIOUS
    <3>3. /\ qs \in Seq(Nat) /\ Len(qs) = Len(ps) + 1
          /\ \A p \in 1 .. Len(ps) : qs[p] = ps[p]
          /\ qs[Len(ps) + 1] = 0
      BY <3>2
    <3>4. pins' = qs /\ Len(nodes) = Len(ps) /\ Len(nodes') = Len(ps) + 1
      BY <1>2, <1>6, <3>1, <3>2
    <3> QED  BY <3>1, <3>3, <3>4
  <2>2. Owed(Len(nodes')) = 0
    BY <1>6 DEF Owed
  <2>3. \A p \in 1 .. Len(nodes') : p \in 1 .. Len(nodes) \/ p = Len(nodes')
    BY <1>6
  <2>4. \A p \in 1 .. Len(nodes') : pins'[p] >= Owed(p)
    <3> SUFFICES ASSUME NEW p \in 1 .. Len(nodes') PROVE pins'[p] >= Owed(p)
      OBVIOUS
    <3>1. CASE p \in 1 .. Len(nodes)
      BY <1>2, <2>1, <3>1
    <3>2. CASE p = Len(nodes')
      BY <2>1, <2>2, <3>2
    <3> QED  BY <2>3, <3>1, <3>2
  <2> QED  BY <1>1, <2>1, <2>4 DEF PinsOK
<1> QED  BY <1>4, <1>5, <1>6

(* What is left to do once a node was split: the parent is one level up,   *)
(* or the node was the root.                                               *)
LEMMA WentUp ==
  ASSUME NEW ns, NEW h, Stands(ns, h), NEW child \in 1 .. Len(ns), NEW page \in 1 .. Len(ns),
         h[page] = h[child], NEW depth \in Nat, h[child] + depth = h[rootPageNum],
         depth = 0 => child = rootPageNum,
         NEW key, NEW e, GoUp(ns, child, key, page, depth, e)
  PROVE  \/ call'.at = "lost"
         \/ /\ call'.at = IF depth > 0 THEN "parent" ELSE "newRoot"
            /\ call'.prevId = page /\ call'.currKey = key /\ call'.entry = e
            /\ call'.currDepth = depth - 1
            /\ call'.currId \in 1 .. Len(ns)
            /\ IF depth > 0 THEN h[call'.currId] = h[page] + 1 ELSE call'.currId = rootPageNum
<1> DEFINE parent == ParentIn(ns, child)
<1>1. h \in [1 .. Len(ns) -> Nat] /\ rootPageNum \in 1 .. Len(ns)
  BY Standing DEF Stands
<1>2. depth > 0 => child # rootPageNum
  BY <1>1
<1>3. depth > 0 => parent = NoPage \/ (parent \in 1 .. Len(ns) /\ h[parent] = h[page] + 1)
  BY <1>2, ParentIs
<1>4. depth = 0 => parent = rootPageNum /\ parent # NoPage
  BY <1>1 DEF ParentIn, NoPage
<1>5. \/ call' = [at |-> "lost"]
      \/ /\ parent # NoPage
         /\ call' = [at |-> IF depth > 0 THEN "parent" ELSE "newRoot",
                     currId |-> parent, currKey |-> key, prevId |-> page,
                     currDepth |-> depth - 1, entry |-> e]
  BY DEF GoUp
<1> HIDE DEF parent
<1> QED  BY <1>1, <1>3, <1>4, <1>5

LEMMA LeafIs ==
  ASSUME NEW entries \in Seq(Entry), NEW right \in Nat
  PROVE  /\ Leaf(entries, right) \in LeafNode /\ Leaf(entries, right).leaf
         /\ Leaf(entries, right).entries = entries /\ Leaf(entries, right).right = right
         /\ \A n : Len(entries) <= LeafSize /\ right <= n => NodeFits(Leaf(entries, right), n)
         /\ \A h : right = NoPage \/ h[right] = 0 => AtHeight(Leaf(entries, right), 0, h)
BY DEF Leaf, LeafNode, NodeFits, AtHeight

LEMMA InnerAt ==
  ASSUME NEW node, NEW k \in 1 .. NonLeafSize, NEW n, InnerWith(node, k, 1 .. n)
  PROVE  NodeFits(node, n) /\ ~node.leaf
BY DEF NodeFits, InnerWith, InnerNode

(* A leaf with other entries is the leaf with these entries. *)
LEMMA LeafExcept ==
  ASSUME NEW ns, Shaped(ns), NEW p \in 1 .. Len(ns), ns[p].leaf, NEW entries \in Seq(Entry)
  PROVE  [ns EXCEPT ![p].entries = entries] = [ns EXCEPT ![p] = Leaf(entries, ns[p].right)]
<1>1. ns[p] \in LeafNode
  BY LeafFits DEF Shaped
<1> DEFINE node == ns[p]
<1>2. node = [leaf |-> TRUE, entries |-> node.entries, right |-> node.right]
  BY <1>1 DEF LeafNode
<1> DEFINE was == node.entries
           right == node.right
           yes == TRUE
<1> HIDE DEF was, right, yes
<1>3. [[leaf |-> yes, entries |-> was, right |-> right] EXCEPT !.entries = entries]
        = [leaf |-> yes, entries |-> entries, right |-> right]
  OBVIOUS
<1>4. [node EXCEPT !.entries = entries] = Leaf(entries, node.right)
  BY <1>2, <1>3 DEF Leaf, was, right, yes
<1> QED  BY <1>4

LEMMA TreeStays ==
  ASSUME NEW h, TreeOK(h), nodes' = nodes, rootPageNum' = rootPageNum,
         nodeOccupancy' = nodeOccupancy, call.at # "newRoot", call'.at \in {"idle", "seek", "dead"}
  PROVE  TreeOK(h)'
BY DEF TreeOK, Stands, OneTop, CallOK

(* A page was split and the call goes on, or is lost.                      *)
LEMMA SplitKeepsTree ==
  ASSUME NEW h, Stands(nodes, h), OneTop(h), call.at # "newRoot",
         NEW p \in 1 .. Len(nodes), NEW n, n = Len(nodes) + 1,
         NEW g, g = WithHeight(nodes, h, h[p]),
         NEW ns, ns = nodes', Len(ns) = n, Shaped(ns), Layered(ns, g),
         NEW key \in Key, NEW depth \in Nat, h[p] + depth = h[rootPageNum],
         NEW e, e \in tried', GoUp(ns, p, key, n, depth, e),
         rootPageNum' = rootPageNum, nodeOccupancy' = 0 <=> nodeOccupancy = 0
  PROVE  Grown(h, g) /\ TreeOK(g)'
<1> DEFINE P == 1 .. Len(nodes)
<1>1. /\ Len(nodes) \in Nat /\ h \in [P -> Nat] /\ rootPageNum \in P
      /\ \A q \in P : h[q] <= h[rootPageNum]
      /\ nodeOccupancy = 0 <=> h[rootPageNum] = 0
  BY Standing DEF Stands
<1>2. g \in [1 .. n -> Nat] /\ g[n] = h[p] /\ \A q \in P : g[q] = h[q]
  <2>1. h[p] \in Nat
    BY <1>1
  <2> QED  BY <1>1, <2>1, HigherBy
<1>3. /\ \A q \in 1 .. n : q \in P \/ q = n
      /\ n \in 1 .. n /\ P \subseteq 1 .. n /\ n \notin P
  BY <1>1
<1>4. h[p] = h[rootPageNum] => p = rootPageNum
  BY DEF OneTop
<1>5. g[rootPageNum] = h[rootPageNum] /\ g[p] = h[p] /\ h[rootPageNum] \in Nat /\ h[p] \in Nat
  BY <1>1, <1>2
<1>6. \A q \in 1 .. n : g[q] <= g[rootPageNum]
  BY <1>1, <1>2, <1>3
<1>7. Stands(ns, g) /\ Stands(nodes, g)'
  BY <1>1, <1>3, <1>5, <1>6 DEF Stands
<1>8. depth = 0 <=> p = rootPageNum
  BY <1>4, <1>5
<1>9. \/ call'.at = "lost"
      \/ /\ call'.at = IF depth > 0 THEN "parent" ELSE "newRoot"
         /\ call'.prevId = n /\ call'.currKey = key /\ call'.entry = e
         /\ call'.currDepth = depth - 1
         /\ call'.currId \in 1 .. n
         /\ IF depth > 0 THEN g[call'.currId] = g[n] + 1 ELSE call'.currId = rootPageNum
  <2>1. p \in 1 .. Len(ns) /\ n \in 1 .. Len(ns) /\ g[n] = g[p] /\ g[p] + depth = g[rootPageNum]
    BY <1>2, <1>3, <1>5
  <2> HIDE DEF P
  <2> QED  BY <1>7, <1>8, <2>1, WentUp
<1>10. depth = 0 => call'.at = "newRoot"
  <2>1. depth = 0 => ParentIn(ns, p) # NoPage
    BY <1>1, <1>8 DEF ParentIn, NoPage
  <2> QED  BY <2>1 DEF GoUp
<1>11. CallOK(g)'
  <2>1. CASE call'.at = "lost"
    BY <2>1 DEF CallOK
  <2>2. CASE depth > 0 /\ call'.at = "parent"
    <3>1. depth - 1 \in Nat /\ (g[n] + 1) + (depth - 1) = g[rootPageNum]
      BY <1>2, <1>5, <2>2
    <3>2. /\ call'.prevId = n /\ call'.currKey = key /\ call'.entry = e
          /\ call'.currDepth = depth - 1
          /\ call'.currId \in 1 .. n /\ g[call'.currId] = g[n] + 1
      BY <1>9, <2>2
    <3> QED  BY <1>3, <2>2, <3>1, <3>2 DEF CallOK
  <2>3. CASE depth = 0 /\ call'.at = "newRoot"
    <3>1. /\ call'.prevId = n /\ call'.currKey = key /\ call'.entry = e
          /\ call'.currId = rootPageNum
      BY <1>9, <2>3
    <3>2. g[n] = g[rootPageNum] /\ n # rootPageNum /\ rootPageNum \in 1 .. n
      BY <1>1, <1>2, <1>3, <1>5, <1>8, <2>3
    <3> QED  BY <1>3, <2>3, <3>1, <3>2 DEF CallOK
  <2> QED  BY <1>9, <1>10, <2>1, <2>2, <2>3
<1>12. OneTop(g)'
  <2>1. ASSUME NEW q \in 1 .. n, g[q] = g[rootPageNum]
        PROVE  q = rootPageNum \/ (call'.at = "newRoot" /\ q = call'.prevId)
    <3>1. CASE q \in P
      <4>1. h[q] = h[rootPageNum]
        BY <1>2, <1>5, <2>1, <3>1
      <4> QED  BY <3>1, <4>1 DEF OneTop
    <3>2. CASE q = n
      <4>1. depth = 0
        BY <1>2, <1>5, <2>1, <3>2
      <4> QED  BY <1>9, <1>10, <3>2, <4>1
    <3> QED  BY <1>3, <2>1, <3>1, <3>2
  <2> QED  BY <2>1 DEF OneTop
<1>13. Grown(h, g)
  BY <1>1, <1>2, <1>3 DEF Grown
<1> QED  BY <1>7, <1>11, <1>12, <1>13 DEF TreeOK

(* insertEntry keeps the tree, whether the entry fits, the leaf is split   *)
(* or there is no frame.                                                   *)
LEMMA InsertKeepsTree ==
  ASSUME NEW h, TreeOK(h), CountsOK, NEW e \in Entry, InsertEntry(e)
  PROVE  \E g : Grown(h, g) /\ TreeOK(g)'
<1> DEFINE p == LeafFor(e[1])
           leaf == nodes[p]
           P == 1 .. Len(nodes)
<1>1. /\ Stands(nodes, h) /\ OneTop(h) /\ call.at = "idle"
      /\ rootPageNum' = rootPageNum /\ nodeOccupancy' = nodeOccupancy
      /\ tried' = tried \cup {e}
  BY DEF TreeOK, InsertEntry, Idle
<1>2. /\ p \in P /\ h[p] = 0 /\ leaf.leaf /\ Len(Way(e[1])) - 1 = h[rootPageNum]
  BY <1>1, LeafForIs
<1>3. /\ Shaped(nodes) /\ Layered(nodes, h) /\ Len(nodes) \in Nat /\ h \in [P -> Nat]
      /\ rootPageNum \in P /\ NodeFits(leaf, Len(nodes))
      /\ \A q \in P : h[q] <= h[rootPageNum]
  BY <1>1, <1>2, Standing DEF Stands
<1>4. leaf.entries \in Seq(Entry) /\ Len(leaf.entries) <= LeafSize
      /\ leaf.right \in Nat /\ leaf.right <= Len(nodes)
  BY <1>2, <1>3, LeafFits
<1>41. leaf.right = NoPage \/ (leaf.right \in P /\ h[leaf.right] = 0)
  BY <1>1, <1>2, Standing
<1> HIDE DEF p
<1>5. CASE nodes' = nodes /\ call' = AtRest
  <2>1. TreeOK(h)'
    BY <1>1, <1>5, TreeStays DEF AtRest
  <2> QED  BY <2>1 DEF Grown
<1>6. CASE /\ Fits(leaf)
           /\ nodes' = [nodes EXCEPT ![p].entries = WithEntry(@, e)]
           /\ call' = AtRest
  <2> DEFINE entries == WithEntry(leaf.entries, e)
             node == Leaf(entries, leaf.right)
  <2>1. entries \in Seq(Entry) /\ Len(entries) = Len(leaf.entries) + 1
    BY <1>4, EntryPlaced
  <2>2. Len(entries) <= LeafSize
    BY <1>4, <1>6, <2>1, SizeAssumption DEF Fits
  <2> HIDE DEF entries
  <2>3. NodeFits(node, Len(nodes)) /\ AtHeight(node, h[p], h)
    BY <1>2, <1>4, <1>41, <2>1, <2>2, LeafIs
  <2>4. nodes' = [nodes EXCEPT ![p] = node]
    <3>1. nodes' = [nodes EXCEPT ![p].entries = entries]
      BY <1>6 DEF entries
    <3>2. [nodes EXCEPT ![p].entries = entries] = [nodes EXCEPT ![p] = Leaf(entries, nodes[p].right)]
      <4>1. Shaped(nodes) /\ p \in 1 .. Len(nodes) /\ nodes[p].leaf
        BY <1>2, <1>3
      <4>2. entries \in Seq(Entry)
        BY <2>1
      <4> HIDE DEF leaf, P
      <4> QED  BY <4>1, <4>2, LeafExcept
    <3> QED  BY <3>1, <3>2
  <2> HIDE DEF node, leaf
  <2>5. Shaped(nodes') /\ Layered(nodes', h)
    BY <1>2, <1>3, <2>3, <2>4, Replaced
  <2>6. Len(nodes') = Len(nodes)
    BY <1>3, <2>4 DEF Shaped
  <2>7. Stands(nodes, h)'
    BY <1>1, <2>5, <2>6 DEF Stands
  <2>8. OneTop(h)' /\ CallOK(h)'
    BY <1>1, <1>6, <2>6 DEF OneTop, CallOK, AtRest
  <2> QED  BY <2>7, <2>8 DEF Grown, TreeOK
<1>7. CASE LET halves == SplitLeaf(leaf.entries, e)
               split == Append([nodes EXCEPT ![p] = Leaf(halves[1], NewPage)],
                               Leaf(halves[2], leaf.right))
           IN /\ ~Fits(leaf)
              /\ nodes' = split
              /\ GoUp(split, p, halves[2][1][1], NewPage, Len(Way(e[1])) - 1, e)
  <2>1. Len(leaf.entries) = LeafSize
    BY <1>4, <1>7, SizeAssumption DEF Fits
  <2>2. PICK n, l, r : n = Len(nodes) + 1 /\ SplitLeaf(leaf.entries, e) = <<l, r>>
    BY DEF SplitLeaf
  <2>3. /\ l \in Seq(Entry) /\ Len(l) \in 1 .. LeafSize
        /\ r \in Seq(Entry) /\ Len(r) \in 1 .. LeafSize
    BY <1>4, <2>1, <2>2, LeafSplitInTwo
  <2>4. r[1][1] \in Key
    BY <2>3 DEF Key
  <2> DEFINE a == Leaf(l, n)
             b == Leaf(r, leaf.right)
             split == Append([nodes EXCEPT ![p] = a], b)
             after == WithHeight(nodes, h, h[p])
  <2>5. nodes' = split /\ GoUp(split, p, r[1][1], n, h[rootPageNum], e)
    BY <1>2, <1>7, <2>2 DEF NewPage
  <2>6. n \in Nat /\ leaf.right <= n
    BY <1>3, <1>4, <2>2
  <2> HIDE DEF after
  <2>61. after[n] = 0 /\ (leaf.right = NoPage \/ after[leaf.right] = 0)
    <3>1. h[p] \in Nat
      BY <1>2, <1>3
    <3> QED  BY <1>2, <1>3, <1>41, <2>2, <3>1, HigherBy DEF after
  <2>7. NodeFits(a, n) /\ AtHeight(a, 0, after)
    <3>1. n <= n /\ Len(l) <= LeafSize
      BY <2>3, <2>6, SizeAssumption
    <3> QED  BY <2>3, <2>6, <2>61, <3>1, LeafIs
  <2>8. NodeFits(b, n) /\ AtHeight(b, 0, after)
    <3>1. Len(r) <= LeafSize
      BY <2>3, SizeAssumption
    <3> QED  BY <1>4, <2>3, <2>6, <2>61, <3>1, LeafIs
  <2> HIDE DEF a, b, leaf
  <2>9. Shaped(split) /\ Layered(split, WithHeight(nodes, h, h[p]))
    BY <1>2, <1>3, <2>2, <2>7, <2>8, SplitInTwo DEF after
  <2>10. Len(split) = n
    BY <1>3, <2>2 DEF Shaped
  <2> HIDE DEF split
  <2>11. PICK g, ns : g = WithHeight(nodes, h, h[p]) /\ ns = split
    OBVIOUS
  <2>12. ns = nodes' /\ GoUp(ns, p, r[1][1], n, h[rootPageNum], e)
    BY <2>5, <2>11
  <2>13. h[rootPageNum] \in Nat /\ h[p] + h[rootPageNum] = h[rootPageNum]
    BY <1>2, <1>3
  <2>14. PICK q \in 1 .. Len(nodes) : q = p
    BY <1>2
  <2> QED  BY <1>1, <2>2, <2>4, <2>9, <2>10, <2>11, <2>12, <2>13, <2>14, SplitKeepsTree
<1> QED  BY <1>5, <1>6, <1>7 DEF InsertEntry, Ended, p

(* A node with the children of another one and one more child, all of them *)
(* one below it.                                                           *)
LEMMA InnerHigh ==
  ASSUME NEW node, ~node.leaf, NEW n \in Nat, NEW h, AtHeight(node, n, h),
         NEW q, NEW m \in 1 .. NonLeafSize, NEW new, InnerWith(new, m, ToSet(node.pages) \cup {q}),
         new.level = node.level, NEW g, \A r \in ToSet(node.pages) : g[r] = h[r], n = g[q] + 1,
         NEW N, ToSet(node.pages) \cup {q} \subseteq 1 .. N
  PROVE  NodeFits(new, N) /\ AtHeight(new, n, g)
<1>1. InnerWith(new, m, 1 .. N)
  BY DEF InnerWith
<1>2. NodeFits(new, N) /\ ~new.leaf
  BY <1>1, InnerAt
<1>3. \A r \in ToSet(new.pages) : n = g[r] + 1
  BY DEF InnerWith, AtHeight
<1>4. n # 0 /\ (new.level = 1 <=> n = 1)
  BY DEF AtHeight
<1> QED  BY <1>2, <1>3, <1>4 DEF AtHeight

(* Entering the parent keeps the tree, whether it has room, is split or    *)
(* there is no frame.                                                      *)
LEMMA EnterKeepsTree ==
  ASSUME NEW h, TreeOK(h), CountsOK, EnterIntoParent
  PROVE  \E g : Grown(h, g) /\ TreeOK(g)'
<1> DEFINE p == call.currId
           node == nodes[p]
           key == call.currKey
           q == call.prevId
           P == 1 .. Len(nodes)
<1>1. /\ Stands(nodes, h) /\ OneTop(h) /\ call.at = "parent"
      /\ rootPageNum' = rootPageNum /\ nodeOccupancy' = nodeOccupancy + 1
      /\ tried' = tried /\ call.entry \in tried
  BY DEF TreeOK, CallOK, EnterIntoParent
<1>2. /\ Shaped(nodes) /\ Layered(nodes, h) /\ Len(nodes) \in Nat /\ h \in [P -> Nat]
      /\ rootPageNum \in P /\ \A r \in P : h[r] <= h[rootPageNum]
      /\ \A r \in P : NodeFits(nodes[r], Len(nodes)) /\ AtHeight(nodes[r], h[r], h)
  BY <1>1, Standing DEF Stands, Layered
<1>3. /\ p \in P /\ q \in P /\ key \in Key /\ call.currDepth \in Nat
      /\ h[p] = h[q] + 1 /\ h[p] + call.currDepth = h[rootPageNum]
  BY <1>1 DEF TreeOK, CallOK
<1> HIDE DEF p, key, q
<1>4. ~node.leaf /\ h[p] \in Nat /\ h[p] # 0 /\ h[rootPageNum] # 0
  <2>1. h[p] \in Nat /\ h[p] # 0 /\ h[rootPageNum] # 0
    BY <1>2, <1>3
  <2> QED  BY <1>2, <1>3, <2>1 DEF AtHeight
<1>5. nodeOccupancy' = 0 <=> nodeOccupancy = 0
  BY <1>1, <1>4 DEF CountsOK, Stands
<1>6. PICK k \in 1 .. NonLeafSize : InnerWith(node, k, P)
  BY <1>2, <1>3, <1>4, InnerFits
<1>7. InnerWith(node, k, ToSet(node.pages)) /\ ToSet(node.pages) \subseteq P /\ Len(node.keys) = k
  BY <1>6 DEF InnerWith
<1>8. CASE nodes' = nodes /\ call' = AtRest
  <2>1. Stands(nodes, h)'
    BY <1>1, <1>4, <1>5, <1>8 DEF Stands
  <2>2. OneTop(h)' /\ CallOK(h)'
    BY <1>1, <1>8 DEF OneTop, CallOK, AtRest
  <2> QED  BY <2>1, <2>2 DEF Grown, TreeOK
<1>9. CASE /\ Len(node.keys) < NonLeafSize
           /\ nodes' = [nodes EXCEPT ![p] = WithChild(node, key, q)]
           /\ call' = AtRest
  <2> DEFINE new == WithChild(node, key, q)
  <2>1. k + 1 \in 1 .. NonLeafSize /\ k \in Nat /\ q \in Nat
    BY <1>2, <1>3, <1>7, <1>9, SizeAssumption
  <2>2. InnerWith(new, k + 1, ToSet(node.pages) \cup {q}) /\ new.level = node.level
    BY <1>3, <1>7, <2>1, ChildPlaced
  <2> HIDE DEF new
  <2>3. NodeFits(new, Len(nodes)) /\ AtHeight(new, h[p], h)
    <3>1. AtHeight(node, h[p], h) /\ ToSet(node.pages) \cup {q} \subseteq P
      BY <1>2, <1>3, <1>7
    <3> HIDE DEF node
    <3> QED  BY <1>3, <1>4, <2>1, <2>2, <3>1, InnerHigh
  <2>4. Shaped(nodes') /\ Layered(nodes', h)
    BY <1>2, <1>3, <1>9, <2>3, Replaced DEF new
  <2>5. Len(nodes') = Len(nodes)
    BY <1>2, <1>9 DEF Shaped
  <2>6. Stands(nodes, h)'
    BY <1>1, <1>2, <1>4, <1>5, <2>4, <2>5 DEF Stands
  <2>7. OneTop(h)' /\ CallOK(h)'
    BY <1>1, <1>9, <2>5 DEF OneTop, CallOK, AtRest
  <2> QED  BY <2>6, <2>7 DEF Grown, TreeOK
<1>10. CASE LET halves == SplitNonLeaf(node, key, q)
                split == Append([nodes EXCEPT ![p] = halves.left], halves.right)
            IN /\ Len(node.keys) = NonLeafSize
               /\ nodes' = split
               /\ GoUp(split, p, halves.up, NewPage, call.currDepth, call.entry)
  <2>1. InnerWith(node, NonLeafSize, ToSet(node.pages)) /\ q \in Nat
    BY <1>2, <1>3, <1>7, <1>10
  <2>2. PICK n, g, a, b, up : /\ n = Len(nodes) + 1 /\ g = WithHeight(nodes, h, h[p])
                              /\ a = SplitNonLeaf(node, key, q).left
                              /\ b = SplitNonLeaf(node, key, q).right
                              /\ up = SplitNonLeaf(node, key, q).up
    OBVIOUS
  <2>3. /\ \E m \in 1 .. NonLeafSize : InnerWith(a, m, ToSet(node.pages) \cup {q})
        /\ \E m \in 1 .. NonLeafSize : InnerWith(b, m, ToSet(node.pages) \cup {q})
        /\ a.level = node.level /\ b.level = node.level
        /\ up \in Key
    BY <1>3, <2>1, <2>2, NonLeafSplitInTwo
  <2>4. \A r \in P : g[r] = h[r]
    BY <1>2, <1>4, <2>2, HigherBy
  <2>5. AtHeight(node, h[p], h) /\ ToSet(node.pages) \cup {q} \subseteq 1 .. n
        /\ h[p] = g[q] + 1 /\ \A r \in ToSet(node.pages) : g[r] = h[r]
    BY <1>2, <1>3, <1>7, <2>2, <2>4
  <2>6. NodeFits(a, n) /\ AtHeight(a, h[p], g) /\ NodeFits(b, n) /\ AtHeight(b, h[p], g)
    <3>1. PICK i \in 1 .. NonLeafSize : InnerWith(a, i, ToSet(node.pages) \cup {q})
      BY <2>3
    <3>2. PICK j \in 1 .. NonLeafSize : InnerWith(b, j, ToSet(node.pages) \cup {q})
      BY <2>3
    <3>3. a.level = node.level /\ b.level = node.level
      BY <2>3
    <3> HIDE DEF node
    <3>4. NodeFits(a, n) /\ AtHeight(a, h[p], g)
      BY <1>4, <2>5, <3>1, <3>3, InnerHigh
    <3>5. NodeFits(b, n) /\ AtHeight(b, h[p], g)
      BY <1>4, <2>5, <3>2, <3>3, InnerHigh
    <3> QED  BY <3>4, <3>5
  <2> DEFINE split == Append([nodes EXCEPT ![p] = a], b)
  <2>7. nodes' = split /\ GoUp(split, p, up, n, call.currDepth, call.entry)
    BY <1>10, <2>2 DEF NewPage
  <2>8. Shaped(split) /\ Layered(split, g)
    BY <1>2, <1>3, <2>2, <2>6, SplitInTwo
  <2>9. Len(split) = n
    BY <1>2, <2>2 DEF Shaped
  <2> HIDE DEF split
  <2>10. PICK ns, r, depth, e : ns = split /\ r = p /\ depth = call.currDepth /\ e = call.entry
    OBVIOUS
  <2>11. /\ ns = nodes' /\ GoUp(ns, r, up, n, depth, e) /\ r \in 1 .. Len(nodes) /\ e \in tried'
         /\ depth \in Nat /\ h[r] + depth = h[rootPageNum]
    BY <1>1, <1>3, <2>7, <2>10
  <2>12. Shaped(ns) /\ Layered(ns, g) /\ Len(ns) = n /\ g = WithHeight(nodes, h, h[r])
    BY <2>2, <2>8, <2>9, <2>10
  <2>13. Grown(h, g) /\ TreeOK(g)'
    BY <1>1, <1>5, <2>2, <2>3, <2>11, <2>12, SplitKeepsTree
  <2> QED  BY <2>13
<1> QED  BY <1>8, <1>9, <1>10 DEF EnterIntoParent, Ended, p, key, q

(* The new root is above all there was. *)
LEMMA NewRootKeepsTree ==
  ASSUME NEW h, TreeOK(h), CountsOK, MakeNewRoot
  PROVE  \E g : Grown(h, g) /\ TreeOK(g)'
<1> DEFINE old == call.currId
           q == call.prevId
           key == call.currKey
           P == 1 .. Len(nodes)
           node == NonLeaf(<<key>>, <<old, q>>, RootLevel)
<1>1. /\ Stands(nodes, h) /\ OneTop(h) /\ call.at = "newRoot"
      /\ nodes' = Append(nodes, node)
      /\ rootPageNum' = Len(nodes) + 1 /\ nodeOccupancy' = nodeOccupancy + 1
      /\ call' = AtRest
  BY DEF TreeOK, MakeNewRoot, NewPage, Ended
<1>2. /\ Shaped(nodes) /\ Layered(nodes, h) /\ Len(nodes) \in Nat /\ h \in [P -> Nat]
      /\ rootPageNum \in P /\ \A r \in P : h[r] <= h[rootPageNum]
      /\ nodeOccupancy = 0 <=> h[rootPageNum] = 0
  BY <1>1, Standing DEF Stands
<1>3. /\ old = rootPageNum /\ q \in P /\ key \in Key /\ h[q] = h[rootPageNum]
  BY <1>1 DEF TreeOK, CallOK
<1> HIDE DEF old, q, key
<1>4. PICK n, g, m : n = Len(nodes) + 1 /\ m = h[rootPageNum] + 1 /\ g = WithHeight(nodes, h, m)
  OBVIOUS
<1>5. m \in Nat /\ m # 0 /\ h[rootPageNum] \in Nat /\ n \in Nat /\ P \subseteq 1 .. n
      /\ \A r \in 1 .. n : r \in P \/ r = n
  BY <1>2, <1>4
<1>6. g \in [1 .. n -> Nat] /\ g[n] = m /\ \A r \in P : g[r] = h[r]
  BY <1>2, <1>4, <1>5, HigherBy
<1>7. RootLevel \in {0, 1} /\ (RootLevel = 1 <=> m = 1)
  BY <1>2, <1>4, <1>5 DEF RootLevel
<1>8. NodeFits(node, n) /\ AtHeight(node, m, g)
  <2>1. <<key>> \in Seq(Key) /\ Len(<<key>>) = 1
    BY <1>3
  <2> DEFINE ps == <<old, q>>
  <2>2. ps \in Seq(Nat) /\ Len(ps) = 1 + 1 /\ ToSet(ps) \subseteq {old, q}
    <3>1. ps \in Seq(Nat) /\ Len(ps) = 2 /\ ps[1] = old /\ ps[2] = q
      BY <1>2, <1>3
    <3> HIDE DEF ps
    <3> QED  BY <3>1, SetOf
  <2> HIDE DEF ps
  <2>3. InnerWith(node, 1, {old, q}) /\ node.level = RootLevel
    BY <1>7, <2>1, <2>2, InnerIs DEF ps
  <2> HIDE DEF node
  <2>4. {old, q} \subseteq 1 .. n /\ g[old] = h[rootPageNum] /\ g[q] = h[rootPageNum]
    BY <1>2, <1>3, <1>5, <1>6
  <2>5. 1 \in 1 .. NonLeafSize /\ InnerWith(node, 1, 1 .. n)
    BY <2>3, <2>4, SizeAssumption DEF InnerWith
  <2>6. NodeFits(node, n) /\ ~node.leaf
    BY <2>5, InnerAt
  <2>7. \A r \in ToSet(node.pages) : m = g[r] + 1
    BY <1>4, <2>3, <2>4 DEF InnerWith
  <2> QED  BY <1>5, <1>7, <2>3, <2>6, <2>7 DEF AtHeight
<1> HIDE DEF node
<1>9. Shaped(nodes') /\ Layered(nodes', g)
  BY <1>1, <1>2, <1>4, <1>5, <1>8, Extended
<1>10. Len(nodes') = n
  BY <1>1, <1>2, <1>4 DEF Shaped
<1>11. \A r \in P : g[r] < g[n]
  <2> SUFFICES ASSUME NEW r \in P PROVE g[r] < g[n]
    OBVIOUS
  <2>1. g[r] = h[r] /\ h[r] \in Nat /\ h[r] <= h[rootPageNum] /\ g[n] = h[rootPageNum] + 1
    BY <1>2, <1>4, <1>6
  <2> QED  BY <1>5, <2>1
<1>12. Stands(nodes, g)'
  <2>1. n \in 1 .. n /\ \A r \in 1 .. n : g[r] <= g[n]
    <3>1. \A r \in 1 .. n : g[r] \in Nat
      BY <1>6
    <3>2. n \in 1 .. n
      BY <1>2, <1>4
    <3> HIDE DEF P
    <3> QED  BY <1>5, <1>11, <3>1, <3>2
  <2>2. nodeOccupancy' # 0
    BY <1>1 DEF CountsOK
  <2> QED  BY <1>1, <1>4, <1>5, <1>6, <1>9, <1>10, <2>1, <2>2 DEF Stands
<1>13. OneTop(g)' /\ CallOK(g)'
  <2>1. \A r \in 1 .. n : g[r] = g[n] => r = n
    BY <1>5, <1>6, <1>11
  <2> QED  BY <1>1, <1>4, <1>10, <2>1 DEF OneTop, CallOK, AtRest
<1>14. Grown(h, g)
  BY <1>2, <1>5, <1>6 DEF Grown
<1> QED  BY <1>12, <1>13, <1>14 DEF TreeOK

-----------------------------------------------------------------------------
(* The scan and the pins. *)

LEMMA ScanFields ==
  ASSUME NEW s \in Scans
  PROVE  /\ s.executing \in BOOLEAN /\ s.ready \in BOOLEAN /\ s.page \in Nat /\ s.next \in Nat
         /\ s.low \in Int /\ s.high \in Int
BY DEF Scans

LEMMA ScanNew ==
  ASSUME NEW a \in ScanArgs, NEW p \in Nat
  PROVE  LET s == NewScan(a) IN
         /\ s \in Scans /\ s.executing /\ ~s.ready
         /\ [s EXCEPT !.page = p] \in Scans /\ [s EXCEPT !.page = p].page = p
         /\ [s EXCEPT !.page = p].executing /\ ~[s EXCEPT !.page = p].ready
<1>1. a[1] \in Int /\ a[2] \in Ops /\ a[3] \in Int /\ a[4] \in Ops
  BY ScanAssumption DEF Ops
<1> DEFINE yes == TRUE
           no == FALSE
<1>2. yes \in BOOLEAN /\ no \in BOOLEAN /\ yes /\ ~no
  OBVIOUS
<1>3. NewScan(a) = [executing |-> yes, low |-> a[1], lowOp |-> a[2], high |-> a[3],
                    highOp |-> a[4], page |-> 0, next |-> 0, ready |-> no]
  <2>1. NoScan = [executing |-> no, low |-> 0, lowOp |-> "GTE", high |-> 0, highOp |-> "LTE",
                  page |-> 0, next |-> 0, ready |-> no]
    BY DEF NoScan, NoPage
  <2>2. NewScan(a) = [NoScan EXCEPT !.executing = yes, !.low = a[1], !.lowOp = a[2],
                                    !.high = a[3], !.highOp = a[4]]
    BY DEF NewScan
  <2> HIDE DEF yes, no
  <2> QED  BY <2>1, <2>2
<1> HIDE DEF yes, no
<1>4. NewScan(a) \in Scans /\ NewScan(a).executing = yes /\ NewScan(a).ready = no
  BY <1>1, <1>2, <1>3 DEF Scans
<1> DEFINE s == NewScan(a)
<1> HIDE DEF s
<1>5. s \in Scans => /\ [s EXCEPT !.page = p] \in Scans /\ [s EXCEPT !.page = p].page = p
                     /\ [s EXCEPT !.page = p].executing = s.executing
                     /\ [s EXCEPT !.page = p].ready = s.ready
  BY DEF Scans
<1> QED  BY <1>2, <1>4, <1>5 DEF s

LEMMA NoScanIs == NoScan \in Scans /\ ~NoScan.executing
BY DEF NoScan, Scans, Ops, NoPage

(* A pool that is not full has a frame for the page that is pinned.        *)
LEMMA Pinned ==
  ASSUME NEW ps \in Seq(Nat), NEW p \in 1 .. Len(ps)
  PROVE  /\ Pin(ps, p) \in Seq(Nat) /\ Len(Pin(ps, p)) = Len(ps)
         /\ \A q \in 1 .. Len(ps) : Pin(ps, p)[q] = IF q = p THEN ps[q] + 1 ELSE ps[q]
         /\ ps[p] > 0 => HasFrame(ps, p)
BY DEF Pin, HasFrame

LEMMA UnPinned ==
  ASSUME NEW ps \in Seq(Nat), NEW p \in 1 .. Len(ps), ps[p] > 0
  PROVE  /\ UnPin(ps, p) \in Seq(Nat) /\ Len(UnPin(ps, p)) = Len(ps)
         /\ \A q \in 1 .. Len(ps) : UnPin(ps, p)[q] = IF q = p THEN ps[q] - 1 ELSE ps[q]
<1>1. ps[p] - 1 \in Nat
  OBVIOUS
<1> QED  BY <1>1 DEF UnPin

(* Without the scan's pin the root has one still. *)
LEMMA ReleasedIs ==
  ASSUME ScanOK, PinsOK
  PROVE  /\ Released(scan) \in Seq(Nat) /\ Len(Released(scan)) = Len(nodes)
         /\ \A p \in 1 .. Len(nodes) : Released(scan)[p] >= IF p = rootPageNum THEN 1 ELSE 0
<1>1. pins \in Seq(Nat) /\ Len(pins) = Len(nodes) /\ \A p \in 1 .. Len(nodes) : pins[p] >= Owed(p)
  BY DEF PinsOK
<1>2. \A p \in 1 .. Len(nodes) : pins[p] \in Nat /\ pins[p] >= IF p = rootPageNum THEN 1 ELSE 0
  BY <1>1 DEF Owed
<1>3. CASE scan.executing /\ pins[scan.page] > 0
  <2>1. scan.page \in 1 .. Len(pins)
    BY <1>1, <1>3 DEF ScanOK
  <2>2. scan.page = rootPageNum => pins[scan.page] >= 2
    <3> SUFFICES ASSUME scan.page = rootPageNum PROVE pins[scan.page] >= 2
      OBVIOUS
    <3>1. scan.ready
      BY <1>3 DEF ScanOK
    <3>2. Owed(scan.page) = 2
      BY <1>3, <3>1 DEF Owed
    <3> QED  BY <1>1, <2>1, <3>2
  <2>3. Released(scan) = UnPin(pins, scan.page)
    BY <1>3 DEF Released
  <2> DEFINE q == scan.page
             ps == UnPin(pins, q)
  <2> HIDE DEF q, ps
  <2>4. /\ ps \in Seq(Nat) /\ Len(ps) = Len(pins)
        /\ \A p \in 1 .. Len(pins) : ps[p] = IF p = q THEN pins[p] - 1 ELSE pins[p]
    BY <1>1, <1>3, <2>1, UnPinned DEF ps, q
  <2>5. \A p \in 1 .. Len(nodes) : ps[p] >= IF p = rootPageNum THEN 1 ELSE 0
    <3> SUFFICES ASSUME NEW p \in 1 .. Len(nodes)
                 PROVE  ps[p] >= IF p = rootPageNum THEN 1 ELSE 0
      OBVIOUS
    <3>1. CASE p = q
      <4>1. ps[p] \in Nat /\ ps[p] = pins[p] - 1 /\ pins[p] \in Nat
        BY <1>1, <1>2, <2>4, <3>1
      <4>2. p = rootPageNum => pins[p] >= 2
        BY <2>2, <3>1 DEF q
      <4> QED  BY <4>1, <4>2
    <3>2. CASE p # q
      BY <1>1, <1>2, <2>4, <3>2
    <3> QED  BY <3>1, <3>2
  <2> QED  BY <1>1, <2>3, <2>4, <2>5 DEF ps, q
<1>4. CASE ~(scan.executing /\ pins[scan.page] > 0)
  BY <1>1, <1>2, <1>4 DEF Released
<1> QED  BY <1>3, <1>4

-----------------------------------------------------------------------------
(* Every step keeps the invariant. *)

LEMMA TreeIs ==
  ASSUME NEW h, TreeOK(h)
  PROVE  /\ Stands(nodes, h) /\ Len(nodes) \in Nat /\ rootPageNum \in 1 .. Len(nodes)
         /\ DOMAIN nodes = 1 .. Len(nodes)
         /\ nodes \in Seq(LeafNode \cup InnerNode)
BY Standing DEF TreeOK, Stands, Shaped

LEMMA InsertKeepsIInv == ASSUME IInv, NEW e \in Entry, InsertEntry(e) PROVE IInv'
<1>1. PICK h : TreeOK(h)
  BY DEF IInv
<1>2. ScanOK /\ PinsOK /\ CountsOK
  BY DEF IInv
<1>3. PICK g : Grown(h, g) /\ TreeOK(g)'
  BY <1>1, <1>2, InsertKeepsTree
<1>4. /\ Stands(nodes, h) /\ Len(nodes) \in Nat /\ rootPageNum \in 1 .. Len(nodes)
      /\ nodes \in Seq(LeafNode \cup InnerNode)
  BY <1>1, TreeIs
<1> DEFINE p == LeafFor(e[1])
<1>5. p \in 1 .. Len(nodes)
  BY <1>4, LeafForIs
<1> HIDE DEF p
<1>6. scan' = scan /\ rootPageNum' = rootPageNum /\ call'.at # "seek"
  <2>1. \/ call' = AtRest
        \/ \E ns, child, key, page, depth : GoUp(ns, child, key, page, depth, e)
    BY DEF InsertEntry, Ended
  <2> QED  BY <2>1 DEF InsertEntry, AtRest, GoUp
<1>7. ScanOK'
  <2>1. Stands(nodes, g)'
    BY <1>3 DEF TreeOK
  <2> QED  BY <1>2, <1>3, <1>4, <1>6, <2>1, ScanStays
<1>8. \/ pins' = pins /\ Len(nodes') = Len(nodes)
      \/ Len(nodes') = Len(nodes) /\ \E q \in 1 .. Len(nodes) : pins' = Pin(pins, q)
      \/ pins' = Append(pins, 0) /\ Len(nodes') = Len(nodes) + 1
  <2>1. \/ nodes' = nodes /\ pins' = pins
        \/ pins' = pins /\ nodes' = [nodes EXCEPT ![p].entries = WithEntry(@, e)]
        \/ nodes' = nodes /\ pins' = Pin(pins, p)
        \/ pins' = Append(pins, 0) /\ \E a, b : nodes' = Append([nodes EXCEPT ![p] = a], b)
    BY DEF InsertEntry, p
  <2>2. \A a : Len([nodes EXCEPT ![p] = a]) = Len(nodes)
    BY <1>4, <1>5
  <2>3. Len([nodes EXCEPT ![p].entries = WithEntry(@, e)]) = Len(nodes)
    BY <1>4, <1>5
  <2>4. \A a, b : Len(Append([nodes EXCEPT ![p] = a], b)) = Len(nodes) + 1
    BY <1>4, <1>5
  <2> QED  BY <1>5, <2>1, <2>2, <2>3, <2>4
<1>9. PinsOK'
  <2>1. scan.executing => scan.page \in 1 .. Len(nodes)
    BY <1>2 DEF ScanOK
  <2> QED  BY <1>2, <1>4, <1>6, <1>8, <2>1, PinsStay
<1>10. CountsOK'
  <2>1. /\ leafOccupancy' = leafOccupancy + 1 /\ nodeOccupancy' = nodeOccupancy
        /\ tried' = tried \cup {e} /\ (stored' = stored \/ stored' = stored \cup {e})
    BY DEF InsertEntry
  <2> QED  BY <1>2, <2>1 DEF CountsOK
<1> QED  BY <1>3, <1>7, <1>9, <1>10 DEF IInv

LEMMA EnterKeepsIInv == ASSUME IInv, EnterIntoParent PROVE IInv'
<1>1. PICK h : TreeOK(h)
  BY DEF IInv
<1>2. ScanOK /\ PinsOK /\ CountsOK
  BY DEF IInv
<1>3. PICK g : Grown(h, g) /\ TreeOK(g)'
  BY <1>1, <1>2, EnterKeepsTree
<1>4. /\ Stands(nodes, h) /\ Len(nodes) \in Nat /\ rootPageNum \in 1 .. Len(nodes)
      /\ nodes \in Seq(LeafNode \cup InnerNode)
  BY <1>1, TreeIs
<1> DEFINE p == call.currId
<1>5. p \in 1 .. Len(nodes) /\ call.entry \in tried
  BY <1>1 DEF TreeOK, CallOK, EnterIntoParent
<1> HIDE DEF p
<1>6. scan' = scan /\ rootPageNum' = rootPageNum /\ call'.at # "seek"
  <2>1. \/ call' = AtRest
        \/ \E ns, child, key, page, depth : GoUp(ns, child, key, page, depth, call.entry)
    BY DEF EnterIntoParent, Ended
  <2> QED  BY <2>1 DEF EnterIntoParent, AtRest, GoUp
<1>7. ScanOK'
  <2>1. Stands(nodes, g)'
    BY <1>3 DEF TreeOK
  <2> QED  BY <1>2, <1>3, <1>4, <1>6, <2>1, ScanStays
<1>8. \/ pins' = pins /\ Len(nodes') = Len(nodes)
      \/ Len(nodes') = Len(nodes) /\ \E q \in 1 .. Len(nodes) : pins' = Pin(pins, q)
      \/ pins' = Append(pins, 0) /\ Len(nodes') = Len(nodes) + 1
  <2>1. \/ pins' = pins /\ \E a : nodes' = [nodes EXCEPT ![p] = a]
        \/ nodes' = nodes /\ pins' = Pin(pins, p)
        \/ pins' = Append(pins, 0) /\ \E a, b : nodes' = Append([nodes EXCEPT ![p] = a], b)
    BY DEF EnterIntoParent, p
  <2>2. \A a : Len([nodes EXCEPT ![p] = a]) = Len(nodes)
    BY <1>4, <1>5
  <2>3. \A a, b : Len(Append([nodes EXCEPT ![p] = a], b)) = Len(nodes) + 1
    BY <1>4, <1>5
  <2> QED  BY <1>5, <2>1, <2>2, <2>3
<1>9. PinsOK'
  <2>1. scan.executing => scan.page \in 1 .. Len(nodes)
    BY <1>2 DEF ScanOK
  <2> QED  BY <1>2, <1>4, <1>6, <1>8, <2>1, PinsStay
<1>10. CountsOK'
  <2>1. /\ leafOccupancy' = leafOccupancy /\ nodeOccupancy' = nodeOccupancy + 1
        /\ tried' = tried /\ (stored' = stored \/ stored' = stored \cup {call.entry})
    BY DEF EnterIntoParent
  <2> QED  BY <1>2, <1>5, <2>1 DEF CountsOK
<1> QED  BY <1>3, <1>7, <1>9, <1>10 DEF IInv

LEMMA NewRootKeepsPins ==
  ASSUME PinsOK, ScanOK, MakeNewRoot, call.currId = rootPageNum, Len(nodes) \in Nat,
         Len(nodes') = Len(nodes) + 1, rootPageNum \in 1 .. Len(nodes)
  PROVE  PinsOK'
<1> DEFINE old == rootPageNum
           held == Append(pins, 1)
<1>0. PICK n : n = Len(nodes) + 1
  OBVIOUS
<1>1. pins \in Seq(Nat) /\ Len(pins) = Len(nodes) /\ \A p \in 1 .. Len(nodes) : pins[p] >= Owed(p)
  BY DEF PinsOK
<1>2. /\ held \in Seq(Nat) /\ Len(held) = n /\ held[n] = 1
      /\ \A p \in 1 .. Len(nodes) : held[p] = pins[p] /\ pins[p] \in Nat
  BY <1>0, <1>1
<1>3. scan' = scan /\ rootPageNum' = n
  BY <1>0 DEF MakeNewRoot, NewPage
<1>4. /\ \A p \in 1 .. Len(nodes) : Owed(p)' = IF p = old THEN Owed(p) - 1 ELSE Owed(p)
      /\ Owed(n)' = 1
  <2>1. \A p \in 1 .. Len(nodes) : p # n
    BY <1>0
  <2>2. scan.executing => scan.page # n
    BY <2>1 DEF ScanOK
  <2>3. \A p \in 1 .. Len(nodes) : Owed(p)' = IF p = old THEN Owed(p) - 1 ELSE Owed(p)
    BY <1>3, <2>1 DEF Owed
  <2>4. Owed(n)' = 1
    BY <1>3, <2>2 DEF Owed
  <2> QED  BY <2>3, <2>4
<1>5. \A p \in 1 .. Len(nodes) : Owed(p) \in Nat
  BY DEF Owed
<1>6. held[old] > 0
  BY <1>1, <1>2 DEF Owed
<1>7. \/ pins' = UnPin(held, old)
      \/ pins' = Pin(held, old)
  BY DEF MakeNewRoot, UnPinnedTwice
<1>8. n \in 1 .. n /\ old \in 1 .. n /\ old # n /\ \A p \in 1 .. n : p \in 1 .. Len(nodes) \/ p = n
  BY <1>0
<1> HIDE DEF held
<1>9. /\ pins' \in Seq(Nat) /\ Len(pins') = n
      /\ \A p \in 1 .. n : pins'[p] = held[p] \/ (p = old /\ pins'[p] >= held[p] - 1)
  <2>1. CASE pins' = UnPin(held, old)
    BY <1>2, <1>6, <1>8, <2>1, UnPinned
  <2>2. CASE pins' = Pin(held, old)
    <3>1. \A p \in 1 .. n : held[p] \in Nat /\ held[p] + 1 >= held[p] - 1
      BY <1>2
    <3>2. /\ pins' \in Seq(Nat) /\ Len(pins') = n
          /\ \A p \in 1 .. n : pins'[p] = IF p = old THEN held[p] + 1 ELSE held[p]
      BY <1>2, <1>8, <2>2, Pinned
    <3> QED  BY <3>1, <3>2
  <2> QED  BY <1>7, <2>1, <2>2
<1>10. \A p \in 1 .. n : pins'[p] >= Owed(p)'
  <2> SUFFICES ASSUME NEW p \in 1 .. n PROVE pins'[p] >= Owed(p)'
    OBVIOUS
  <2>1. CASE p = n
    <3>1. pins'[n] = 1 /\ Owed(n)' = 1
      BY <1>2, <1>4, <1>8, <1>9
    <3> QED  BY <2>1, <3>1
  <2>2. CASE p \in 1 .. Len(nodes) /\ p # old
    <3>1. pins'[p] = pins[p] /\ pins[p] \in Nat /\ pins[p] >= Owed(p) /\ Owed(p)' = Owed(p)
      BY <1>1, <1>2, <1>4, <1>9, <2>2
    <3> QED  BY <1>5, <2>2, <3>1
  <2>3. CASE p = old
    <3>1. /\ pins'[p] >= pins[p] - 1 /\ pins[p] \in Nat /\ pins[p] >= Owed(p)
          /\ Owed(p)' = Owed(p) - 1 /\ pins'[p] \in Nat
      BY <1>1, <1>2, <1>4, <1>9, <2>3
    <3>2. Owed(p) \in Nat
      BY <1>5, <2>3
    <3> HIDE DEF old, Owed
    <3> QED  BY <3>1, <3>2
  <2> QED  BY <1>8, <2>1, <2>2, <2>3
<1> QED  BY <1>0, <1>9, <1>10 DEF PinsOK

LEMMA NewRootKeepsIInv == ASSUME IInv, MakeNewRoot PROVE IInv'
<1>1. PICK h : TreeOK(h)
  BY DEF IInv
<1>2. ScanOK /\ PinsOK /\ CountsOK
  BY DEF IInv
<1>3. PICK g : Grown(h, g) /\ TreeOK(g)'
  BY <1>1, <1>2, NewRootKeepsTree
<1>4. /\ Stands(nodes, h) /\ Len(nodes) \in Nat /\ rootPageNum \in 1 .. Len(nodes)
      /\ nodes \in Seq(LeafNode \cup InnerNode)
  BY <1>1, TreeIs
<1>5. call.currId = rootPageNum /\ call.entry \in tried
  BY <1>1 DEF TreeOK, CallOK, MakeNewRoot
<1>6. /\ scan' = scan /\ rootPageNum' = Len(nodes) + 1 /\ call'.at # "seek"
      /\ \E node : nodes' = Append(nodes, node)
  BY DEF MakeNewRoot, NewPage, Ended, AtRest
<1>7. Len(nodes') = Len(nodes) + 1
  BY <1>4, <1>6
<1>8. ScanOK'
  <2>1. Stands(nodes, g)' /\ rootPageNum' \notin 1 .. Len(nodes)
    BY <1>3, <1>4, <1>6 DEF TreeOK
  <2> QED  BY <1>2, <1>3, <1>4, <1>6, <2>1, ScanStays
<1>9. PinsOK'
  BY <1>2, <1>4, <1>5, <1>7, NewRootKeepsPins
<1>10. CountsOK'
  <2>1. /\ leafOccupancy' = leafOccupancy /\ nodeOccupancy' = nodeOccupancy + 1
        /\ tried' = tried /\ (stored' = stored \/ stored' = stored \cup {call.entry})
    BY DEF MakeNewRoot
  <2> QED  BY <1>2, <1>5, <2>1 DEF CountsOK
<1> QED  BY <1>3, <1>8, <1>9, <1>10 DEF IInv

(* The pins once the scan gave up its page, and those when it pins one.    *)
LEMMA ScanPins ==
  ASSUME NEW ps \in Seq(Nat), Len(ps) = Len(nodes), Len(nodes) \in Nat,
         \A p \in 1 .. Len(nodes) : ps[p] >= IF p = rootPageNum THEN 1 ELSE 0,
         nodes' = nodes, rootPageNum' = rootPageNum,
         \/ pins' = ps /\ (scan'.executing => ~scan'.ready)
         \/ scan'.page \in 1 .. Len(nodes) /\ pins' = Pin(ps, scan'.page)
  PROVE  PinsOK'
<1>1. \A p \in 1 .. Len(nodes) : ps[p] \in Nat
  OBVIOUS
<1>2. CASE pins' = ps /\ (scan'.executing => ~scan'.ready)
  <2>1. \A p : Owed(p)' = IF p = rootPageNum THEN 1 ELSE 0
    BY <1>2 DEF Owed
  <2> QED  BY <1>2, <2>1 DEF PinsOK
<1>3. CASE scan'.page \in 1 .. Len(nodes) /\ pins' = Pin(ps, scan'.page)
  <2>1. PICK q \in 1 .. Len(nodes) : q = scan'.page
    BY <1>3
  <2>2. /\ pins' \in Seq(Nat) /\ Len(pins') = Len(nodes)
        /\ \A p \in 1 .. Len(nodes) : pins'[p] = IF p = q THEN ps[p] + 1 ELSE ps[p]
    <3>1. q \in 1 .. Len(ps) /\ pins' = Pin(ps, q)
      BY <1>3, <2>1
    <3> QED  BY <3>1, Pinned
  <2>3. \A p : Owed(p)' <= (IF p = rootPageNum THEN 1 ELSE 0) + (IF p = q THEN 1 ELSE 0)
    BY <2>1 DEF Owed
  <2>4. \A p : Owed(p)' \in Nat
    BY DEF Owed
  <2>5. \A p \in 1 .. Len(nodes) : pins'[p] >= Owed(p)'
    <3> SUFFICES ASSUME NEW p \in 1 .. Len(nodes) PROVE pins'[p] >= Owed(p)'
      OBVIOUS
    <3>1. PICK r, o : r = (IF p = rootPageNum THEN 1 ELSE 0) /\ o = Owed(p)'
      OBVIOUS
    <3>2. ps[p] \in Nat /\ ps[p] >= r /\ r \in Nat
      BY <1>1, <3>1
    <3>3. pins'[p] = IF p = q THEN ps[p] + 1 ELSE ps[p]
      BY <2>2
    <3>4. o \in Nat /\ o <= r + (IF p = q THEN 1 ELSE 0)
      BY <2>3, <2>4, <3>1
    <3>5. pins'[p] >= o
      BY <3>2, <3>3, <3>4
    <3> QED  BY <3>1, <3>5
  <2> QED  BY <2>2, <2>5 DEF PinsOK
<1> QED  BY <1>2, <1>3

(* What a step of the scan leaves alone.                                   *)
LEMMA ScanStep ==
  ASSUME IInv, nodes' = nodes, rootPageNum' = rootPageNum, tried' = tried, stored' = stored,
         leafOccupancy' = leafOccupancy, nodeOccupancy' = nodeOccupancy,
         call.at # "newRoot", call'.at \in {"idle", "seek", "dead"}, ScanOK', PinsOK'
  PROVE  IInv'
<1>1. PICK h : TreeOK(h)
  BY DEF IInv
<1>2. TreeOK(h)'
  BY <1>1, TreeStays
<1>3. CountsOK'
  BY DEF IInv, CountsOK
<1> QED  BY <1>2, <1>3 DEF IInv

(* A page that has no frame is not the root. *)
LEMMA NotTheRoot ==
  ASSUME NEW ps \in Seq(Nat), NEW p \in 1 .. Len(ps), ~HasFrame(ps, p),
         ps[p] >= IF p = rootPageNum THEN 1 ELSE 0
  PROVE  p # rootPageNum
<1>1. ps[p] \in Nat
  OBVIOUS
<1> QED  BY <1>1, Pinned

LEMMA StartKeepsIInv == ASSUME IInv, NEW a \in ScanArgs, StartScan(NewScan(a)) PROVE IInv'
<1>1. PICK h : TreeOK(h)
  BY DEF IInv
<1>2. ScanOK /\ PinsOK
  BY DEF IInv
<1>3. PICK ps : ps = Released(scan)
  OBVIOUS
<1>4. /\ ps \in Seq(Nat) /\ Len(ps) = Len(nodes)
      /\ \A p \in 1 .. Len(nodes) : ps[p] >= IF p = rootPageNum THEN 1 ELSE 0
  BY <1>2, <1>3, ReleasedIs
<1>5. /\ Stands(nodes, h) /\ Len(nodes) \in Nat /\ rootPageNum \in 1 .. Len(nodes)
  BY <1>1, TreeIs
<1> DEFINE s == NewScan(a)
<1>6. /\ nodes' = nodes /\ rootPageNum' = rootPageNum /\ tried' = tried /\ stored' = stored
      /\ leafOccupancy' = leafOccupancy /\ nodeOccupancy' = nodeOccupancy
      /\ call.at = "idle"
  BY DEF StartScan, Idle
<1>7. CASE pins' = pins /\ scan' = scan /\ call' = AtRest
  <2>1. ScanOK' /\ PinsOK'
    BY <1>2, <1>6, <1>7 DEF ScanOK, PinsOK, Owed, AtRest
  <2> QED  BY <1>6, <1>7, <2>1, ScanStep DEF AtRest
<1>8. CASE pins' = ps /\ scan' = NoScan /\ call' = AtRest
  <2>1. ScanOK'
    BY <1>8, NoScanIs DEF ScanOK, AtRest
  <2>2. PinsOK'
    BY <1>4, <1>5, <1>6, <1>8, NoScanIs, ScanPins
  <2> QED  BY <1>6, <1>8, <2>1, <2>2, ScanStep DEF AtRest
<1>9. ASSUME NEW i \in Blocked(ps, s.low), pins' = ps, scan' = [s EXCEPT !.page = Way(s.low)[i]],
             call' = AtRest
      PROVE  IInv'
  <2>1. PICK p : p = Way(s.low)[i]
    OBVIOUS
  <2>2. p \in 1 .. Len(nodes) /\ ~HasFrame(ps, p)
    BY <1>5, <1>9, <2>1, LeafForIs DEF Blocked
  <2>3. p # rootPageNum /\ p \in Nat
    BY <1>4, <2>2, NotTheRoot
  <2>4. scan' \in Scans /\ scan'.page = p /\ scan'.executing /\ ~scan'.ready
    <3>1. scan' = [NewScan(a) EXCEPT !.page = p]
      BY <1>9, <2>1
    <3> HIDE DEF s
    <3> QED  BY <2>3, <3>1, ScanNew
  <2>5. ScanOK'
    BY <1>6, <1>9, <2>2, <2>3, <2>4 DEF ScanOK, AtRest
  <2>6. PinsOK'
    BY <1>4, <1>5, <1>6, <1>9, <2>4, ScanPins
  <2> QED  BY <1>6, <1>9, <2>5, <2>6, ScanStep DEF AtRest
<1>10. CASE /\ pins' = Pin(ps, LeafFor(s.low))
            /\ scan' = [s EXCEPT !.page = LeafFor(s.low), !.ready = TRUE]
            /\ call' = [at |-> "seek"]
  <2>1. PICK p, yes : p = LeafFor(s.low) /\ yes = TRUE
    OBVIOUS
  <2>2. p \in 1 .. Len(nodes) /\ nodes[p].leaf /\ p \in Nat /\ yes \in BOOLEAN
    BY <1>5, <2>1, LeafForIs
  <2>3. scan' \in Scans /\ scan'.page = p /\ scan'.executing /\ scan'.ready
    <3>1. scan' = [NewScan(a) EXCEPT !.page = p, !.ready = yes]
      BY <1>10, <2>1
    <3>2. NewScan(a) \in Scans /\ NewScan(a).executing
      BY <2>2, ScanNew
    <3> HIDE DEF s
    <3>3. PICK new : new = NewScan(a)
      OBVIOUS
    <3>4. scan' = [new EXCEPT !.page = p, !.ready = yes] /\ new \in Scans /\ new.executing
      BY <3>1, <3>2, <3>3
    <3>5. scan' \in Scans /\ scan'.page = p /\ scan'.executing = new.executing /\ scan'.ready = yes
      <4>1. yes \in BOOLEAN /\ p \in Nat
        BY <2>2
      <4> QED  BY <3>4, <4>1 DEF Scans
    <3> QED  BY <2>1, <3>4, <3>5
  <2>4. ScanOK'
    BY <1>6, <2>2, <2>3 DEF ScanOK
  <2>5. PinsOK'
    BY <1>4, <1>5, <1>6, <1>10, <2>1, <2>2, <2>3, ScanPins
  <2> QED  BY <1>6, <1>10, <2>4, <2>5, ScanStep
<1> HIDE DEF s
<1> QED  BY <1>3, <1>7, <1>8, <1>9, <1>10 DEF StartScan, Ended, s

(* The scan goes on in its leaf, or in the leaf to the right, or it has no *)
(* frame for that one.                                                     *)
Onward(q, i) ==
    \/ pins' = pins /\ scan' = scan
    \/ pins' = pins /\ scan' = [scan EXCEPT !.next = i]
    \/ pins' = pins /\ scan' = [scan EXCEPT !.page = scan.page, !.next = i]
    \/ /\ q # NoPage
       /\ pins' = Pin(UnPin(pins, scan.page), q)
       /\ scan' = [scan EXCEPT !.page = q, !.next = i]
    \/ /\ q # NoPage
       /\ ~HasFrame(UnPin(pins, scan.page), q)
       /\ pins' = UnPin(pins, scan.page)
       /\ scan' = [scan EXCEPT !.page = q, !.ready = FALSE]

LEMMA ScanGoesOn ==
  ASSUME NEW h, Stands(nodes, h), ScanOK, PinsOK, scan.executing, scan.ready,
         nodes' = nodes, rootPageNum' = rootPageNum, NEW q, q = nodes[scan.page].right,
         NEW i \in Nat, Onward(q, i), call'.at = "seek" => scan'.ready
  PROVE  ScanOK' /\ PinsOK'
<1>1. PICK p, no, ps : p = scan.page /\ no = FALSE /\ ps = UnPin(pins, scan.page)
  OBVIOUS
<1>2. scan \in Scans /\ p \in 1 .. Len(nodes) /\ nodes[p].leaf /\ p \in Nat /\ no \in BOOLEAN
  <2>1. scan \in Scans /\ p \in 1 .. Len(nodes) /\ nodes[p].leaf
    BY <1>1 DEF ScanOK
  <2> QED  BY <1>1, <2>1, ScanFields
<1>3. Len(nodes) \in Nat /\ rootPageNum \in 1 .. Len(nodes)
  BY Standing DEF Stands
<1>4. q # NoPage => q \in 1 .. Len(nodes) /\ q \in Nat /\ nodes[q].leaf
  <2>1. q # NoPage => q \in 1 .. Len(nodes) /\ h[q] = 0
    BY <1>1, <1>2, Standing
  <2> QED  BY <2>1, Standing
<1>5. pins \in Seq(Nat) /\ Len(pins) = Len(nodes) /\ \A r \in 1 .. Len(nodes) : pins[r] >= Owed(r)
  BY DEF PinsOK
<1>6. ps = Released(scan)
  <2>1. Owed(p) >= 1 /\ Owed(p) \in Nat
    BY <1>1 DEF Owed
  <2>2. pins[p] \in Nat /\ pins[p] > 0
    BY <1>2, <1>5, <2>1
  <2> QED  BY <1>1, <2>2 DEF Released
<1>7. /\ ps \in Seq(Nat) /\ Len(ps) = Len(nodes)
      /\ \A r \in 1 .. Len(nodes) : ps[r] >= IF r = rootPageNum THEN 1 ELSE 0
  BY <1>6, ReleasedIs
<1>8. CASE pins' = pins /\ (scan' = scan \/ scan' = [scan EXCEPT !.next = i]
                            \/ scan' = [scan EXCEPT !.page = p, !.next = i])
  <2>1. /\ scan' \in Scans /\ scan'.page = p /\ scan'.executing = scan.executing
        /\ scan'.ready = scan.ready
    BY <1>1, <1>2, <1>8 DEF Scans
  <2>2. ScanOK'
    BY <1>2, <2>1 DEF ScanOK
  <2>3. \A r : Owed(r)' = Owed(r)
    BY <1>1, <2>1 DEF Owed
  <2> QED  BY <1>5, <1>8, <2>2, <2>3 DEF PinsOK
<1>9. CASE q # NoPage /\ pins' = Pin(ps, q) /\ scan' = [scan EXCEPT !.page = q, !.next = i]
  <2>1. q \in Nat
    BY <1>4, <1>9
  <2>2. /\ scan' \in Scans /\ scan'.page = q /\ scan'.executing = scan.executing
        /\ scan'.ready = scan.ready
    BY <1>2, <1>9, <2>1 DEF Scans
  <2>3. ScanOK'
    BY <1>4, <1>9, <2>2 DEF ScanOK
  <2>4. scan'.page \in 1 .. Len(nodes) /\ pins' = Pin(ps, scan'.page)
    BY <1>4, <1>9, <2>2
  <2>5. PinsOK'
    BY <1>3, <1>7, <2>4, ScanPins
  <2> QED  BY <2>3, <2>5
<1>10. CASE /\ q # NoPage /\ ~HasFrame(ps, q) /\ pins' = ps
            /\ scan' = [scan EXCEPT !.page = q, !.ready = no]
  <2>1. q \in Nat /\ q \in 1 .. Len(nodes)
    BY <1>4, <1>10
  <2>2. /\ scan' \in Scans /\ scan'.page = q /\ scan'.executing = scan.executing
        /\ scan'.ready = no
    BY <1>2, <1>10, <2>1 DEF Scans
  <2>3. q # rootPageNum
    BY <1>7, <1>10, <2>1, NotTheRoot
  <2>4. ScanOK'
    BY <1>1, <2>1, <2>2, <2>3 DEF ScanOK
  <2>5. PinsOK'
    BY <1>1, <1>3, <1>7, <1>10, <2>2, ScanPins
  <2> QED  BY <2>4, <2>5
<1> QED  BY <1>1, <1>8, <1>9, <1>10 DEF Onward

LEMMA SeekKeepsIInv == ASSUME IInv, SeekFirst PROVE IInv'
<1>1. PICK h : TreeOK(h)
  BY DEF IInv
<1>2. ScanOK /\ PinsOK /\ scan.executing /\ scan.ready
  BY DEF IInv, ScanOK, SeekFirst
<1>3. Stands(nodes, h) /\ scan.page \in 1 .. Len(nodes) /\ nodes[scan.page].leaf
  BY <1>1, <1>2 DEF TreeOK, ScanOK
<1>4. /\ nodes' = nodes /\ rootPageNum' = rootPageNum /\ tried' = tried /\ stored' = stored
      /\ leafOccupancy' = leafOccupancy /\ nodeOccupancy' = nodeOccupancy
      /\ call.at = "seek"
  BY DEF SeekFirst, historyVars
<1> DEFINE entries == nodes[scan.page].entries
           q == nodes[scan.page].right
<1>5. entries \in Seq(Entry)
  BY <1>3, Standing, LeafFits
<1> HIDE DEF entries
<1>6. /\ call'.at \in {"idle", "seek"} /\ (call'.at = "seek" => scan'.ready)
      /\ \E i \in Nat : Onward(q, i)
  <2>1. ASSUME NEW i \in DOMAIN entries, pins' = pins, scan' = [scan EXCEPT !.next = i - 1]
        PROVE  \E j \in Nat : Onward(q, j)
    <3>1. i - 1 \in Nat
      BY <1>5
    <3> QED  BY <2>1, <3>1 DEF Onward
  <2>2. ASSUME pins' = pins, scan' = [scan EXCEPT !.next = Len(entries)]
        PROVE  \E j \in Nat : Onward(q, j)
    <3>1. Len(entries) \in Nat
      BY <1>5
    <3> QED  BY <2>2, <3>1 DEF Onward
  <2>3. ASSUME q # NoPage, MovesTo(q)
        PROVE  \E j \in Nat : Onward(q, j)
    <3>1. 0 \in Nat
      OBVIOUS
    <3> QED  BY <2>3, <3>1 DEF Onward, MovesTo
  <2>4. /\ call'.at \in {"idle", "seek"} /\ (call'.at = "seek" => scan'.ready)
        /\ \/ \E i \in DOMAIN entries : pins' = pins /\ scan' = [scan EXCEPT !.next = i - 1]
           \/ pins' = pins /\ scan' = [scan EXCEPT !.next = Len(entries)]
           \/ q # NoPage /\ MovesTo(q)
    BY <1>4 DEF SeekFirst, entries, Ended, AtRest
  <2> QED  BY <2>1, <2>2, <2>3, <2>4
<1>7. ScanOK' /\ PinsOK'
  <2>1. PICK r : r = q
    OBVIOUS
  <2> QED  BY <1>2, <1>3, <1>4, <1>6, <2>1, ScanGoesOn
<1> QED  BY <1>4, <1>6, <1>7, ScanStep

LEMMA NextEntryKeepsIInv == ASSUME IInv, ScanNext PROVE IInv'
<1>1. PICK h : TreeOK(h)
  BY DEF IInv
<1>2. ScanOK /\ PinsOK
  BY DEF IInv
<1>3. Stands(nodes, h)
  BY <1>1 DEF TreeOK
<1>4. /\ nodes' = nodes /\ rootPageNum' = rootPageNum /\ tried' = tried /\ stored' = stored
      /\ leafOccupancy' = leafOccupancy /\ nodeOccupancy' = nodeOccupancy
      /\ call.at = "idle" /\ call'.at = "idle"
  BY DEF ScanNext, Idle, Ended, AtRest, Yields
<1>5. CASE pins' = pins /\ scan' = scan
  <2>1. ScanOK' /\ PinsOK'
    BY <1>2, <1>4, <1>5 DEF ScanOK, PinsOK, Owed
  <2> QED  BY <1>4, <2>1, ScanStep
<1>6. CASE scan.executing /\ scan.ready /\ ~(pins' = pins /\ scan' = scan)
  <2> DEFINE q == nodes[scan.page].right
  <2>1. scan.next \in Nat /\ scan.next + 1 \in Nat /\ 0 \in Nat /\ 0 + 1 \in Nat
    BY <1>2, ScanFields DEF ScanOK
  <2>2. \E i \in Nat : Onward(q, i)
    <3>1. CASE Yields(scan.page, scan.next) /\ pins' = pins
      <4>1. \/ scan' = [scan EXCEPT !.page = scan.page, !.next = scan.next]
            \/ scan' = [scan EXCEPT !.page = scan.page, !.next = scan.next + 1]
        BY <3>1 DEF Yields
      <4> QED  BY <2>1, <3>1, <4>1 DEF Onward
    <3>2. CASE q # NoPage /\ pins' = Pin(UnPin(pins, scan.page), q) /\ Yields(q, 0)
      <4>1. \/ scan' = [scan EXCEPT !.page = q, !.next = 0]
            \/ scan' = [scan EXCEPT !.page = q, !.next = 0 + 1]
        BY <3>2 DEF Yields
      <4> QED  BY <2>1, <3>2, <4>1 DEF Onward
    <3>3. CASE /\ q # NoPage
               /\ ~HasFrame(UnPin(pins, scan.page), q)
               /\ pins' = UnPin(pins, scan.page)
               /\ scan' = [scan EXCEPT !.page = q, !.ready = FALSE]
      BY <2>1, <3>3 DEF Onward
    <3> QED  BY <1>6, <3>1, <3>2, <3>3 DEF ScanNext
  <2>3. PICK r : r = q
    OBVIOUS
  <2>4. ScanOK' /\ PinsOK'
    BY <1>2, <1>3, <1>4, <1>6, <2>2, <2>3, ScanGoesOn
  <2> QED  BY <1>4, <2>4, ScanStep
<1> QED  BY <1>5, <1>6 DEF ScanNext

LEMMA EndKeepsIInv == ASSUME IInv, EndScan PROVE IInv'
<1>1. PICK h : TreeOK(h)
  BY DEF IInv
<1>2. ScanOK /\ PinsOK
  BY DEF IInv
<1>3. Len(nodes) \in Nat
  BY <1>1, TreeIs
<1>4. /\ nodes' = nodes /\ rootPageNum' = rootPageNum /\ tried' = tried /\ stored' = stored
      /\ leafOccupancy' = leafOccupancy /\ nodeOccupancy' = nodeOccupancy
      /\ call.at = "idle" /\ call'.at = "idle"
  BY DEF EndScan, Idle, Ended, AtRest
<1>5. CASE pins' = pins /\ scan' = scan
  <2>1. ScanOK' /\ PinsOK'
    BY <1>2, <1>4, <1>5 DEF ScanOK, PinsOK, Owed
  <2> QED  BY <1>4, <2>1, ScanStep
<1>6. CASE pins' = Released(scan) /\ scan' = NoScan
  <2>1. PICK ps : ps = Released(scan)
    OBVIOUS
  <2>2. /\ ps \in Seq(Nat) /\ Len(ps) = Len(nodes)
        /\ \A p \in 1 .. Len(nodes) : ps[p] >= IF p = rootPageNum THEN 1 ELSE 0
    BY <1>2, <2>1, ReleasedIs
  <2>3. ScanOK'
    BY <1>4, <1>6, NoScanIs DEF ScanOK
  <2>4. PinsOK'
    BY <1>3, <1>4, <1>6, <2>1, <2>2, NoScanIs, ScanPins
  <2> QED  BY <1>4, <2>3, <2>4, ScanStep
<1> QED  BY <1>5, <1>6 DEF EndScan

LEMMA ReopenKeepsIInv == ASSUME IInv, Reopen PROVE IInv'
<1>1. PICK h : TreeOK(h)
  BY DEF IInv
<1>2. ScanOK /\ PinsOK
  BY DEF IInv
<1>3. Len(nodes) \in Nat /\ rootPageNum \in 1 .. Len(nodes)
  BY <1>1, TreeIs
<1>4. /\ nodes' = nodes /\ rootPageNum' = rootPageNum /\ tried' = tried /\ stored' = stored
      /\ leafOccupancy' = leafOccupancy /\ nodeOccupancy' = nodeOccupancy
      /\ call.at = "idle" /\ call'.at \in {"idle", "dead"}
  BY DEF Reopen, Idle, Ended, AtRest
<1>5. CASE pins' = pins /\ scan' = scan
  <2>1. ScanOK' /\ PinsOK'
    BY <1>2, <1>4, <1>5 DEF ScanOK, PinsOK, Owed
  <2> QED  BY <1>4, <2>1, ScanStep
<1>6. CASE pins' = Pin(UnPin(Released(scan), rootPageNum), rootPageNum) /\ scan' = NoScan
  <2>1. PICK ps, closed : ps = Released(scan) /\ closed = UnPin(ps, rootPageNum)
    OBVIOUS
  <2>2. /\ ps \in Seq(Nat) /\ Len(ps) = Len(nodes)
        /\ \A p \in 1 .. Len(nodes) : ps[p] >= IF p = rootPageNum THEN 1 ELSE 0
    BY <1>2, <2>1, ReleasedIs
  <2>3. rootPageNum \in 1 .. Len(ps) /\ ps[rootPageNum] > 0
    <3>1. ps[rootPageNum] \in Nat /\ ps[rootPageNum] >= 1
      BY <1>3, <2>2
    <3> QED  BY <1>3, <2>2, <3>1
  <2>4. /\ closed \in Seq(Nat) /\ Len(closed) = Len(ps)
        /\ \A q \in 1 .. Len(ps) : closed[q] = IF q = rootPageNum THEN ps[q] - 1 ELSE ps[q]
    BY <2>1, <2>2, <2>3, UnPinned
  <2>5. /\ pins' \in Seq(Nat) /\ Len(pins') = Len(ps)
        /\ \A q \in 1 .. Len(ps) : pins'[q] = IF q = rootPageNum THEN closed[q] + 1 ELSE closed[q]
    <3>1. rootPageNum \in 1 .. Len(closed) /\ pins' = Pin(closed, rootPageNum)
      BY <1>6, <2>1, <2>3, <2>4
    <3> QED  BY <2>4, <3>1, Pinned
  <2>6. \A q \in 1 .. Len(ps) : pins'[q] = ps[q]
    <3> SUFFICES ASSUME NEW q \in 1 .. Len(ps) PROVE pins'[q] = ps[q]
      OBVIOUS
    <3>1. ps[q] \in Nat
      BY <2>2
    <3>2. /\ closed[q] = IF q = rootPageNum THEN ps[q] - 1 ELSE ps[q]
          /\ pins'[q] = IF q = rootPageNum THEN closed[q] + 1 ELSE closed[q]
      BY <2>4, <2>5
    <3> QED  BY <3>1, <3>2
  <2>7. \A q : Owed(q)' = IF q = rootPageNum THEN 1 ELSE 0
    BY <1>4, <1>6, NoScanIs DEF Owed
  <2>8. ScanOK'
    BY <1>4, <1>6, NoScanIs DEF ScanOK
  <2>9. PinsOK'
    BY <1>4, <2>2, <2>5, <2>6, <2>7 DEF PinsOK
  <2> QED  BY <1>4, <2>8, <2>9, ScanStep
<1> QED  BY <1>5, <1>6 DEF Reopen

LEMMA NextKeepsIInv == IInv /\ [Next]_vars => IInv'
<1> SUFFICES ASSUME IInv, [Next]_vars PROVE IInv'
  OBVIOUS
<1>1. CASE UNCHANGED vars
  BY <1>1 DEF IInv, TreeOK, Stands, OneTop, CallOK, ScanOK, PinsOK, Owed, CountsOK,
              vars, treeVars, historyVars
<1>2. CASE \E e \in Entry : InsertEntry(e)
  BY <1>2, InsertKeepsIInv
<1>3. CASE EnterIntoParent
  BY <1>3, EnterKeepsIInv
<1>4. CASE MakeNewRoot
  BY <1>4, NewRootKeepsIInv
<1>5. CASE \E a \in ScanArgs : StartScan(NewScan(a))
  BY <1>5, StartKeepsIInv
<1>6. CASE SeekFirst
  BY <1>6, SeekKeepsIInv
<1>7. CASE ScanNext
  BY <1>7, NextEntryKeepsIInv
<1>8. CASE EndScan
  BY <1>8, EndKeepsIInv
<1>9. CASE Reopen
  BY <1>9, ReopenKeepsIInv
<1> QED  BY <1>1, <1>2, <1>3, <1>4, <1>5, <1>6, <1>7, <1>8, <1>9 DEF Next

(* The tree stands in every state, and the fields of BTreeIndex agree with *)
(* it.                                                                     *)
THEOREM Invariance == Spec => []IInv
BY InitIInv, NextKeepsIInv, PTL DEF Spec

LEMMA IInvTypeOK == IInv => TypeOK
<1> SUFFICES ASSUME IInv PROVE TypeOK
  OBVIOUS
<1>1. PICK h : TreeOK(h)
  BY DEF IInv
<1>2. ScanOK /\ PinsOK /\ CountsOK
  BY DEF IInv
<1>3. Len(nodes) \in Nat /\ rootPageNum \in 1 .. Len(nodes) /\ Page = 1 .. Len(nodes)
  BY <1>1, TreeIs DEF Page
<1>4. \A p \in Page : NodeFits(nodes[p], Len(nodes))
  BY <1>1, <1>3, Standing DEF TreeOK
<1>5. ASSUME NEW p \in Page PROVE NodeOK(nodes[p])
  <2> DEFINE node == nodes[p]
  <2> SUFFICES NodeOK(node)
    OBVIOUS
  <2>1. NodeFits(node, Len(nodes))
    BY <1>4
  <2> HIDE DEF node
  <2>2. CASE node.leaf
    <3>1. /\ node.entries \in Seq(Entry) /\ Len(node.entries) <= LeafSize
          /\ node.right \in Nat /\ node.right <= Len(nodes)
      BY <2>1, <2>2, LeafFits
    <3>2. node.right \in {NoPage} \cup Page
      BY <1>3, <3>1 DEF NoPage
    <3> QED  BY <2>2, <3>1, <3>2 DEF NodeOK
  <2>3. CASE ~node.leaf
    <3>1. PICK k \in 1 .. NonLeafSize : InnerWith(node, k, Page)
      BY <1>3, <2>1, <2>3, InnerFits
    <3>2. /\ node.keys \in Seq(Key) /\ node.pages \in Seq(Nat) /\ node.level \in {0, 1}
          /\ Len(node.keys) = k /\ Len(node.pages) = k + 1 /\ ToSet(node.pages) \subseteq Page
      BY <3>1, InnerFields DEF InnerWith
    <3>3. node.pages \in Seq(Page)
      <4>1. \A i \in 1 .. Len(node.pages) : node.pages[i] \in Page
        BY <3>2, SetOf
      <4> QED  BY <3>2, <4>1
    <3> QED  BY <2>3, <3>2, <3>3 DEF NodeOK
  <2> QED  BY <2>2, <2>3
<1>6. pins \in [Page -> Nat]
  BY <1>2, <1>3 DEF PinsOK
<1>7. scan.executing => scan.page \in Page
  BY <1>2, <1>3 DEF ScanOK
<1>8. call.at \in {"idle", "parent", "newRoot", "seek", "lost", "dead"}
  BY <1>1 DEF TreeOK, CallOK
<1> QED  BY <1>2, <1>3, <1>5, <1>6, <1>7, <1>8 DEF TypeOK, CountsOK

(* In every state each node fits its page and points to pages there are,   *)
(* and the fields of BTreeIndex have their types.                          *)
THEOREM TypeCorrect == Spec => []TypeOK
BY Invariance, IInvTypeOK, PTL

LEMMA IInvKindsTold == IInv => KindsTold
<1> SUFFICES ASSUME IInv PROVE KindsTold
  OBVIOUS
<1>1. PICK h : Stands(nodes, h)
  BY DEF IInv, TreeOK
<1>2. /\ rootPageNum \in 1 .. Len(nodes) /\ Page = 1 .. Len(nodes)
      /\ nodeOccupancy = 0 <=> h[rootPageNum] = 0
  BY <1>1, Standing DEF Stands, Page
<1>3. \A p \in Page : /\ nodes[p].leaf <=> h[p] = 0
                      /\ ~nodes[p].leaf => (nodes[p].level = 1 <=> h[p] = 1)
                      /\ ~nodes[p].leaf => \A q \in ToSet(nodes[p].pages) :
                                              q \in Page /\ h[p] = h[q] + 1 /\ h[q] \in Nat
  BY <1>1, <1>2, Standing
<1>4. ASSUME NEW p \in Page, ~nodes[p].leaf, NEW i \in DOMAIN nodes[p].pages
      PROVE  nodes[p].level = 1 <=> nodes[nodes[p].pages[i]].leaf
  <2>1. PICK q : q = nodes[p].pages[i]
    OBVIOUS
  <2>2. q \in ToSet(nodes[p].pages)
    BY <2>1 DEF ToSet
  <2>3. q \in Page /\ h[p] = h[q] + 1 /\ h[q] \in Nat
    BY <1>3, <1>4, <2>2
  <2>4. nodes[p].level = 1 <=> h[q] = 0
    BY <1>3, <1>4, <2>3
  <2> QED  BY <1>3, <2>1, <2>3, <2>4
<1> QED  BY <1>2, <1>3, <1>4 DEF KindsTold

(* findLeaf, which tells leaves by level and by nodeOccupancy, never takes *)
(* a node for one of the other kind, whatever was split before and         *)
(* wherever a call ran out of frames.                                      *)
THEOREM KindsAreTold == Spec => []KindsTold
BY Invariance, IInvKindsTold, PTL

-----------------------------------------------------------------------------
(* With frames enough no call runs out of them, and the pins are exact.    *)

(* There is a frame for every page. *)
Roomy(ps) == \A p : HasFrame(ps, p)

LEMMA RoomLeft ==
  ASSUME NEW ps, NEW S, IsFiniteSet(S), Cardinality(S) + CallerPins < NumBufs,
         \A p \in DOMAIN ps : ps[p] > 0 => p \in S
  PROVE  Roomy(ps)
<1> DEFINE T == {p \in DOMAIN ps : ps[p] > 0}
<1>1. T \in SUBSET S
  OBVIOUS
<1> HIDE DEF T
<1>2. Cardinality(T) <= Cardinality(S) /\ IsFiniteSet(T)
  BY <1>1, FS_Subset
<1>3. Cardinality(T) \in Nat /\ Cardinality(S) \in Nat
  BY <1>2, FS_CardinalityType
<1>4. Cardinality(T) + CallerPins < NumBufs
  BY <1>2, <1>3, PoolAssumption
<1> QED  BY <1>4 DEF Roomy, HasFrame, T

LEMMA FewPages ==
  /\ \A a : IsFiniteSet({a}) /\ Cardinality({a}) = 1
  /\ \A a, b : IsFiniteSet({a, b}) /\ Cardinality({a, b}) \in 1 .. 2
  /\ \A a, b, c : IsFiniteSet({a, b, c}) /\ Cardinality({a, b, c}) \in 1 .. 3
<1>1. \A a : IsFiniteSet({a}) /\ Cardinality({a}) = 1
  BY FS_Singleton
<1>2. ASSUME NEW a, NEW b PROVE IsFiniteSet({a, b}) /\ Cardinality({a, b}) \in 1 .. 2
  <2>1. {a, b} = {a} \cup {b}
    OBVIOUS
  <2>2. IsFiniteSet({a}) /\ Cardinality({a}) = 1
    BY <1>1
  <2>3. IsFiniteSet({a} \cup {b}) /\ Cardinality({a} \cup {b}) = IF b \in {a} THEN 1 ELSE 1 + 1
    BY <2>2, FS_AddElement
  <2> QED  BY <2>1, <2>3
<1>3. ASSUME NEW a, NEW b, NEW c
      PROVE  IsFiniteSet({a, b, c}) /\ Cardinality({a, b, c}) \in 1 .. 3
  <2>1. {a, b, c} = {a, b} \cup {c}
    OBVIOUS
  <2>2. IsFiniteSet({a, b}) /\ Cardinality({a, b}) \in 1 .. 2
    BY <1>2
  <2> DEFINE n == Cardinality({a, b})
  <2>3. /\ IsFiniteSet({a, b} \cup {c})
        /\ Cardinality({a, b} \cup {c}) = IF c \in {a, b} THEN n ELSE n + 1
    BY <2>2, FS_AddElement
  <2>4. n \in 1 .. 2
    BY <2>2
  <2> HIDE DEF n
  <2> QED  BY <2>1, <2>3, <2>4
<1> QED  BY <1>1, <1>2, <1>3

(* A page more to pin takes one frame more. *)
LEMMA RoomFor ==
  ASSUME NEW n \in Nat, CallerPins + n < NumBufs, NEW ps \in Seq(Nat), NEW a, NEW b,
         \A p \in 1 .. Len(ps) : ps[p] > 0 => p \in {a, b}, a = b => n >= 1, a # b => n >= 2
  PROVE  /\ Roomy(ps)
         /\ n >= 3 \/ (a = b /\ n >= 2) =>
               /\ \A p \in 1 .. Len(ps) : Roomy(Pin(ps, p))
               /\ Roomy(Append(ps, 1))
<1>0. CallerPins \in Nat /\ NumBufs \in Nat
  BY PoolAssumption
<1>1. \E S : /\ IsFiniteSet(S) /\ Cardinality(S) \in Nat /\ S = {a, b}
             /\ Cardinality(S) <= n /\ (a = b => Cardinality(S) = 1)
             /\ (a # b => Cardinality(S) <= 2)
  <2>1. CASE a = b
    <3>1. {a, b} = {a} /\ IsFiniteSet({a}) /\ Cardinality({a}) = 1
      BY <2>1, FewPages
    <3> QED  BY <2>1, <3>1
  <2>2. CASE a # b
    <3>1. IsFiniteSet({a, b}) /\ Cardinality({a, b}) \in 1 .. 2
      BY FewPages
    <3> QED  BY <2>2, <3>1
  <2> QED  BY <2>1, <2>2
<1>2. PICK S : /\ IsFiniteSet(S) /\ Cardinality(S) \in Nat /\ S = {a, b}
               /\ Cardinality(S) <= n /\ (a = b => Cardinality(S) = 1)
               /\ (a # b => Cardinality(S) <= 2)
  BY <1>1
<1>3. PICK m \in Nat : m = Cardinality(S)
  BY <1>2
<1>4. Roomy(ps)
  <2>1. m + CallerPins < NumBufs
    BY <1>0, <1>2, <1>3
  <2> QED  BY <1>2, <1>3, <2>1, RoomLeft
<1>5. ASSUME n >= 3 \/ (a = b /\ n >= 2), NEW ps2, NEW p,
             \A q \in DOMAIN ps2 : ps2[q] > 0 => q \in S \cup {p}
      PROVE  Roomy(ps2)
  <2>1. /\ IsFiniteSet(S \cup {p})
        /\ Cardinality(S \cup {p}) = IF p \in S THEN Cardinality(S) ELSE Cardinality(S) + 1
    BY <1>2, FS_AddElement
  <2>2. m + 1 <= n
    BY <1>2, <1>3, <1>5
  <2>3. Cardinality(S \cup {p}) + CallerPins < NumBufs
    BY <1>0, <1>3, <2>1, <2>2
  <2> QED  BY <1>5, <2>1, <2>3, RoomLeft
<1>6. ASSUME NEW p \in 1 .. Len(ps)
      PROVE  \A q \in DOMAIN Pin(ps, p) : Pin(ps, p)[q] > 0 => q \in S \cup {p}
  BY <1>2 DEF Pin
<1>7. \A q \in DOMAIN Append(ps, 1) : Append(ps, 1)[q] > 0 => q \in S \cup {Len(ps) + 1}
  BY <1>2
<1> QED  BY <1>4, <1>5, <1>6, <1>7

(* insertEntry ends for want of a frame only when there is none for a page *)
(* besides the one it has pinned, and pins none for good otherwise.        *)
LEMMA InsertWithFrames ==
  ASSUME IInv, NEW e \in Entry, InsertEntry(e), Roomy(pins),
         \A p \in 1 .. Len(nodes) : Roomy(Pin(pins, p))
  PROVE  /\ pins' = pins \/ pins' = Append(pins, 0)
         /\ outcome'.res # "BufferExceeded" \/ (outcome' = outcome /\ call'.at # "idle")
         /\ call'.at # "dead"
<1>1. PICK h : Stands(nodes, h)
  BY DEF IInv, TreeOK
<1>2. LeafFor(e[1]) \in 1 .. Len(nodes) /\ Blocked(pins, e[1]) = {}
  BY <1>1, LeafForIs DEF Blocked, Roomy
<1>3. HasFrame(Pin(pins, LeafFor(e[1])), NewPage)
  BY <1>2 DEF Roomy
<1>4. \/ pins' = pins /\ Ended("insertEntry", "ok")
      \/ pins' = Append(pins, 0) /\ \E ns, c, k, q, d : GoUp(ns, c, k, q, d, e)
  BY <1>2, <1>3 DEF InsertEntry
<1>5. CASE Ended("insertEntry", "ok")
  BY <1>4, <1>5 DEF Ended, AtRest, GoUp
<1>6. ASSUME NEW ns, NEW c, NEW k, NEW q, NEW d, GoUp(ns, c, k, q, d, e)
      PROVE  /\ outcome'.res # "BufferExceeded" \/ (outcome' = outcome /\ call'.at # "idle")
             /\ call'.at # "dead"
  BY <1>6 DEF GoUp
<1> QED  BY <1>4, <1>5, <1>6 DEF Ended, AtRest

LEMMA EnterWithFrames ==
  ASSUME IInv, EnterIntoParent, \A p \in 1 .. Len(nodes) : Roomy(Pin(pins, p))
  PROVE  /\ pins' = pins \/ pins' = Append(pins, 0)
         /\ outcome'.res # "BufferExceeded" \/ (outcome' = outcome /\ call'.at # "idle")
         /\ call'.at # "dead"
<1>1. call.currId \in 1 .. Len(nodes)
  BY DEF IInv, TreeOK, CallOK, EnterIntoParent
<1>2. HasFrame(Pin(pins, call.currId), NewPage)
  BY <1>1 DEF Roomy
<1>3. \/ pins' = pins /\ Ended("insertEntry", "ok")
      \/ pins' = Append(pins, 0) /\ \E ns, c, k, q, d : GoUp(ns, c, k, q, d, call.entry)
  BY <1>2 DEF EnterIntoParent
<1>4. ASSUME NEW ns, NEW c, NEW k, NEW q, NEW d, GoUp(ns, c, k, q, d, call.entry)
      PROVE  /\ outcome'.res # "BufferExceeded" \/ (outcome' = outcome /\ call'.at # "idle")
             /\ call'.at # "dead"
  BY <1>4 DEF GoUp
<1> QED  BY <1>3, <1>4 DEF Ended, AtRest

LEMMA NewRootWithFrames ==
  ASSUME MakeNewRoot, Roomy(Append(pins, 1))
  PROVE  pins' = UnPin(Append(pins, 1), call.currId) /\ Ended("insertEntry", "ok")
BY DEF MakeNewRoot, Roomy, UnPinnedTwice

LEMMA AloneStep ==
  ASSUME NumBufs >= CallerPins + 3, IInv, Alone, Next, call'.at = "idle"
  PROVE  outcome'.res # "BufferExceeded"
<1>1. PICK h : TreeOK(h)
  BY DEF IInv
<1>2. /\ Stands(nodes, h) /\ rootPageNum \in 1 .. Len(nodes) /\ Page = 1 .. Len(nodes)
      /\ Len(nodes) \in Nat
  BY <1>1, TreeIs DEF Page
<1>3. pins \in Seq(Nat) /\ Len(pins) = Len(nodes) /\ ~scan.executing
      /\ \A p \in 1 .. Len(pins) : pins[p] > 0 => p \in {rootPageNum, rootPageNum}
  BY <1>2 DEF IInv, PinsOK, Alone
<1>4. PICK n \in Nat : n = 2
  OBVIOUS
<1>5. /\ Roomy(pins) /\ Roomy(Append(pins, 1))
      /\ \A p \in 1 .. Len(nodes) : Roomy(Pin(pins, p))
  <2>1. PICK a, b : a = rootPageNum /\ b = rootPageNum
    OBVIOUS
  <2>2. /\ pins \in Seq(Nat) /\ \A p \in 1 .. Len(pins) : pins[p] > 0 => p \in {a, b}
        /\ a = b /\ n >= 2 /\ n >= 1 /\ CallerPins + n < NumBufs
    BY <1>3, <1>4, <2>1, PoolAssumption
  <2>3. Roomy(pins) /\ (\A p \in 1 .. Len(pins) : Roomy(Pin(pins, p))) /\ Roomy(Append(pins, 1))
    BY <2>2, RoomFor
  <2> QED  BY <1>3, <2>3
<1>6. ASSUME NEW e \in Entry, InsertEntry(e) PROVE outcome'.res # "BufferExceeded"
  BY <1>5, <1>6, InsertWithFrames
<1>7. CASE EnterIntoParent
  BY <1>5, <1>7, EnterWithFrames
<1>8. CASE MakeNewRoot
  BY <1>5, <1>8, NewRootWithFrames DEF Ended
<1>9. ASSUME NEW s, StartScan(s) PROVE outcome'.res # "BufferExceeded"
  <2>1. Released(scan) = pins
    BY <1>3 DEF Released
  <2>2. Blocked(pins, s.low) = {}
    BY <1>5 DEF Blocked, Roomy
  <2>3. call' # [at |-> "seek"]
    OBVIOUS
  <2>4. ~Unheld(scan)
    BY <1>3 DEF Unheld
  <2> QED  BY <1>9, <2>1, <2>2, <2>3, <2>4 DEF StartScan, Ended
<1>10. ~SeekFirst
  BY <1>3 DEF IInv, ScanOK, SeekFirst
<1>11. CASE ScanNext
  BY <1>3, <1>11 DEF ScanNext, Ended
<1>12. CASE EndScan
  BY <1>3, <1>12 DEF EndScan, Ended
<1>13. CASE Reopen
  BY <1>13 DEF Reopen, Ended
<1> QED  BY <1>6, <1>7, <1>8, <1>9, <1>10, <1>11, <1>12, <1>13 DEF Next

(* design_report.md: four frames are enough, the caller's page among them. *)
(* With three frames besides the caller's, no call that begins with the    *)
(* root pinned and nothing else ends for want of a frame.                  *)
THEOREM FourFrames == ASSUME NumBufs >= CallerPins + 3 PROVE Spec => FourFramesSuffice
<1>1. IInv /\ [Next]_vars => [Alone /\ call'.at = "idle" => outcome'.res # "BufferExceeded"]_vars
  BY AloneStep
<1> QED  BY <1>1, Invariance, PTL DEF Spec, FourFramesSuffice

(* What holds when there are always frames enough: the pins are those of   *)
(* the root and of the scan, which has its page, and no call failed.       *)
Exact ==
    /\ \A p \in 1 .. Len(nodes) : pins[p] = Owed(p)
    /\ scan.executing => scan.ready
    /\ call.at # "dead"
    /\ outcome.res # "BufferExceeded"

LEMMA InitExact == Init => Exact
<1> SUFFICES ASSUME Init PROVE Exact
  OBVIOUS
<1>1. scan.executing = FALSE /\ rootPageNum = 1 /\ pins = <<1>> /\ Len(nodes) = 1
  BY DEF Init, NoScan
<1>2. \A p : Owed(p) = IF p = 1 THEN 1 ELSE 0
  BY <1>1 DEF Owed
<1>3. call.at = "idle" /\ outcome.res = "ok"
  BY DEF Init, AtRest
<1> QED  BY <1>1, <1>2, <1>3 DEF Exact

LEMMA ExactRoom ==
  ASSUME NumBufs >= CallerPins + 4, IInv, Exact
  PROVE  /\ Roomy(pins) /\ Roomy(Append(pins, 1))
         /\ \A p \in 1 .. Len(nodes) : Roomy(Pin(pins, p))
<1>1. PICK a, b, n : a = rootPageNum /\ b = scan.page /\ n = 3
  OBVIOUS
<1>2. pins \in Seq(Nat) /\ Len(pins) = Len(nodes)
  BY DEF IInv, PinsOK
<1>3. \A p \in 1 .. Len(pins) : pins[p] > 0 => p \in {a, b}
  BY <1>1, <1>2 DEF Exact, Owed
<1>4. n \in Nat /\ n >= 3 /\ n >= 2 /\ n >= 1 /\ CallerPins + n < NumBufs
  BY <1>1, PoolAssumption
<1>5. Roomy(pins) /\ (\A p \in 1 .. Len(pins) : Roomy(Pin(pins, p))) /\ Roomy(Append(pins, 1))
  BY <1>2, <1>3, <1>4, RoomFor
<1> QED  BY <1>2, <1>5

(* The steps of an insert that do not replace the root. *)
LEMMA ExactGrows ==
  ASSUME IInv, IInv', Exact, scan' = scan, rootPageNum' = rootPageNum,
         pins' = pins \/ pins' = Append(pins, 0),
         outcome'.res # "BufferExceeded" \/ outcome' = outcome, call'.at # "dead"
  PROVE  Exact'
<1>1. /\ pins \in Seq(Nat) /\ Len(pins) = Len(nodes) /\ Len(pins') = Len(nodes')
      /\ Len(nodes) \in Nat
  BY DEF IInv, PinsOK
<1>2. \A p : Owed(p)' = Owed(p)
  BY DEF Owed
<1>3. rootPageNum \in 1 .. Len(nodes) /\ (scan.executing => scan.page \in 1 .. Len(nodes))
  BY TreeIs DEF IInv, ScanOK
<1>4. ASSUME NEW p \in 1 .. Len(nodes') PROVE pins'[p] = Owed(p)'
  <2>1. CASE p \in 1 .. Len(nodes)
    BY <1>1, <1>2, <2>1 DEF Exact
  <2>2. CASE p \notin 1 .. Len(nodes)
    <3>1. Owed(p) = 0
      BY <1>3, <2>2 DEF Owed
    <3>2. pins' = Append(pins, 0) /\ p = Len(nodes) + 1
      BY <1>1, <2>2
    <3> QED  BY <1>1, <1>2, <3>1, <3>2
  <2> QED  BY <2>1, <2>2
<1> QED  BY <1>4 DEF Exact

LEMMA ExactNewRoot ==
  ASSUME NumBufs >= CallerPins + 4, IInv, IInv', Exact, MakeNewRoot
  PROVE  Exact'
<1>1. PICK n, held, old : n = Len(nodes) + 1 /\ held = Append(pins, 1) /\ old = rootPageNum
  OBVIOUS
<1>2. /\ pins \in Seq(Nat) /\ Len(pins) = Len(nodes) /\ Len(pins') = Len(nodes')
      /\ Len(nodes) \in Nat
  BY DEF IInv, PinsOK
<1>3. old \in 1 .. Len(nodes) /\ (scan.executing => scan.page \in 1 .. Len(nodes))
  BY <1>1, TreeIs DEF IInv, ScanOK
<1>4. call.currId = old
  BY <1>1 DEF IInv, TreeOK, CallOK, MakeNewRoot
<1>5. pins' = UnPin(held, old) /\ Ended("insertEntry", "ok")
  <2>1. Roomy(Append(pins, 1))
    BY ExactRoom
  <2> QED  BY <1>1, <1>4, <2>1, NewRootWithFrames
<1>6. /\ held \in Seq(Nat) /\ Len(held) = n /\ held[n] = 1
      /\ \A p \in 1 .. Len(nodes) : held[p] = pins[p]
  BY <1>1, <1>2
<1>7. held[old] > 0 /\ old \in 1 .. n
  BY <1>1, <1>3, <1>6 DEF Exact, Owed
<1>8. Len(pins') = n /\ \A p \in 1 .. n : pins'[p] = IF p = old THEN held[p] - 1 ELSE held[p]
  BY <1>5, <1>6, <1>7, UnPinned
<1>9. scan' = scan /\ rootPageNum' = n
  BY <1>1 DEF MakeNewRoot, NewPage
<1>10. ASSUME NEW p \in 1 .. Len(nodes') PROVE pins'[p] = Owed(p)'
  <2>1. CASE p = n
    <3>1. ~(scan.executing /\ p = scan.page)
      BY <1>1, <1>2, <1>3, <2>1
    <3>2. Owed(p)' = 1
      BY <1>9, <2>1, <3>1 DEF Owed
    <3> QED  BY <1>1, <1>3, <1>6, <1>8, <2>1, <3>2
  <2>2. CASE p \in 1 .. Len(nodes)
    <3>1. Owed(p)' = IF p = old THEN Owed(p) - 1 ELSE Owed(p)
      BY <1>1, <1>2, <1>9, <2>2 DEF Owed
    <3>2. pins'[p] = IF p = old THEN pins[p] - 1 ELSE pins[p]
      BY <1>1, <1>2, <1>6, <1>8, <2>2
    <3> QED  BY <2>2, <3>1, <3>2 DEF Exact
  <2> QED  BY <1>1, <1>2, <1>8, <2>1, <2>2
<1> QED  BY <1>5, <1>9, <1>10 DEF Exact, Ended, AtRest

(* Without the scan's pin the root's is left. *)
LEMMA ExactReleased ==
  ASSUME NumBufs >= CallerPins + 4, IInv, Exact
  PROVE  /\ Released(scan) \in Seq(Nat) /\ Len(Released(scan)) = Len(nodes)
         /\ \A p \in 1 .. Len(nodes) : Released(scan)[p] = IF p = rootPageNum THEN 1 ELSE 0
         /\ Roomy(Released(scan)) /\ ~Unheld(scan)
         /\ scan.executing => Released(scan) = UnPin(pins, scan.page)
<1>1. pins \in Seq(Nat) /\ Len(pins) = Len(nodes) /\ \A p \in 1 .. Len(nodes) : pins[p] = Owed(p)
  BY DEF IInv, PinsOK, Exact
<1>2. PICK q, ps : q = scan.page /\ ps = Released(scan)
  OBVIOUS
<1>3. scan.executing => q \in 1 .. Len(nodes) /\ pins[q] > 0
  BY <1>1, <1>2 DEF IInv, ScanOK, Exact, Owed
<1>4. scan.executing => ps = UnPin(pins, q)
  BY <1>2, <1>3 DEF Released
<1>5. /\ ps \in Seq(Nat) /\ Len(ps) = Len(nodes)
      /\ \A p \in 1 .. Len(nodes) : ps[p] = IF p = rootPageNum THEN 1 ELSE 0
  <2>1. CASE scan.executing
    <3>1. /\ ps \in Seq(Nat) /\ Len(ps) = Len(pins)
          /\ \A p \in 1 .. Len(pins) : ps[p] = IF p = q THEN pins[p] - 1 ELSE pins[p]
      BY <1>1, <1>3, <1>4, <2>1, UnPinned
    <3>2. \A p \in 1 .. Len(nodes) : pins[p] = (IF p = rootPageNum THEN 1 ELSE 0)
                                               + (IF p = q THEN 1 ELSE 0)
      BY <1>1, <1>2, <2>1 DEF Exact, Owed
    <3>3. ASSUME NEW p \in 1 .. Len(nodes) PROVE ps[p] = IF p = rootPageNum THEN 1 ELSE 0
      <4>1. /\ ps[p] = IF p = q THEN pins[p] - 1 ELSE pins[p]
            /\ pins[p] = (IF p = rootPageNum THEN 1 ELSE 0) + (IF p = q THEN 1 ELSE 0)
        BY <1>1, <3>1, <3>2
      <4> QED  BY <4>1
    <3> QED  BY <1>1, <3>1, <3>3
  <2>2. CASE ~scan.executing
    <3>1. ps = pins
      BY <1>2, <2>2 DEF Released
    <3>2. \A p \in 1 .. Len(nodes) : pins[p] = IF p = rootPageNum THEN 1 ELSE 0
      BY <1>1, <2>2 DEF Owed
    <3> QED  BY <1>1, <3>1, <3>2
  <2> QED  BY <2>1, <2>2
<1>6. Roomy(ps)
  <2>1. PICK a, b, n : a = rootPageNum /\ b = rootPageNum /\ n = 3
    OBVIOUS
  <2>2. /\ \A p \in 1 .. Len(ps) : ps[p] > 0 => p \in {a, b}
        /\ n \in Nat /\ a = b /\ n >= 2 /\ n >= 1 /\ CallerPins + n < NumBufs
    BY <1>5, <2>1, PoolAssumption
  <2> QED  BY <1>5, <2>2, RoomFor
<1>7. ~Unheld(scan)
  <2>1. scan.executing => pins[scan.page] # 0
    BY <1>1, <1>2, <1>3
  <2> QED  BY <2>1 DEF Unheld
<1> QED  BY <1>2, <1>4, <1>5, <1>6, <1>7

(* A step of the scan: it has given up its page, or has pinned another.    *)
LEMMA ExactScan ==
  ASSUME IInv, Exact, NEW ps \in Seq(Nat), Len(ps) = Len(nodes),
         \A p \in 1 .. Len(nodes) : ps[p] = IF p = rootPageNum THEN 1 ELSE 0,
         nodes' = nodes, rootPageNum' = rootPageNum, call'.at # "dead",
         outcome'.res # "BufferExceeded" \/ outcome' = outcome,
         \/ pins' = ps /\ ~scan'.executing
         \/ /\ scan'.executing /\ scan'.ready /\ scan'.page \in 1 .. Len(nodes)
            /\ pins' = Pin(ps, scan'.page)
         \/ /\ pins' = pins /\ scan'.executing = scan.executing /\ scan'.ready = scan.ready
            /\ scan'.page = scan.page
  PROVE  Exact'
<1>1. CASE pins' = ps /\ ~scan'.executing
  <2>1. \A p : Owed(p)' = IF p = rootPageNum THEN 1 ELSE 0
    BY <1>1 DEF Owed
  <2> QED  BY <1>1, <2>1 DEF Exact
<1>2. CASE /\ scan'.executing /\ scan'.ready /\ scan'.page \in 1 .. Len(nodes)
           /\ pins' = Pin(ps, scan'.page)
  <2>1. PICK q : q = scan'.page
    OBVIOUS
  <2>2. \A p \in 1 .. Len(nodes) : pins'[p] = IF p = q THEN ps[p] + 1 ELSE ps[p]
    <3>1. q \in 1 .. Len(ps) /\ pins' = Pin(ps, q)
      BY <1>2, <2>1
    <3> QED  BY <3>1, Pinned
  <2>3. \A p : Owed(p)' = (IF p = rootPageNum THEN 1 ELSE 0) + (IF p = q THEN 1 ELSE 0)
    BY <1>2, <2>1 DEF Owed
  <2>4. ASSUME NEW p \in 1 .. Len(nodes') PROVE pins'[p] = Owed(p)'
    <3>1. /\ pins'[p] = IF p = q THEN ps[p] + 1 ELSE ps[p]
          /\ ps[p] = IF p = rootPageNum THEN 1 ELSE 0
      BY <2>2
    <3>2. Owed(p)' = (IF p = rootPageNum THEN 1 ELSE 0) + (IF p = q THEN 1 ELSE 0)
      BY <2>3
    <3> QED  BY <3>1, <3>2
  <2> QED  BY <1>2, <2>4 DEF Exact
<1>3. CASE /\ pins' = pins /\ scan'.executing = scan.executing /\ scan'.ready = scan.ready
           /\ scan'.page = scan.page
  <2>1. \A p : Owed(p)' = Owed(p)
    BY <1>3 DEF Owed
  <2> QED  BY <1>3, <2>1 DEF Exact
<1> QED  BY <1>1, <1>2, <1>3

LEMMA ExactStart ==
  ASSUME NumBufs >= CallerPins + 4, IInv, IInv', Exact, NEW s, StartScan(s), s.executing
  PROVE  Exact'
<1>1. PICK ps : ps = Released(scan)
  OBVIOUS
<1>2. /\ ps \in Seq(Nat) /\ Len(ps) = Len(nodes)
      /\ \A p \in 1 .. Len(nodes) : ps[p] = IF p = rootPageNum THEN 1 ELSE 0
      /\ Roomy(ps) /\ ~Unheld(scan)
  BY <1>1, ExactReleased
<1>3. Blocked(ps, s.low) = {}
  BY <1>2 DEF Blocked, Roomy
<1>4. /\ nodes' = nodes /\ rootPageNum' = rootPageNum /\ call'.at # "dead"
      /\ outcome'.res # "BufferExceeded" \/ outcome' = outcome
  BY <1>1, <1>2, <1>3 DEF StartScan, Ended, AtRest
<1>5. CASE pins' = pins /\ scan' = scan
  <2>1. /\ pins' = pins /\ scan'.executing = scan.executing /\ scan'.ready = scan.ready
        /\ scan'.page = scan.page
    BY <1>5
  <2> QED  BY <1>2, <1>4, <2>1, ExactScan
<1>6. CASE pins' = ps /\ scan' = NoScan
  <2>1. pins' = ps /\ ~scan'.executing
    BY <1>6, NoScanIs
  <2> QED  BY <1>2, <1>4, <2>1, ExactScan
<1>7. CASE /\ pins' = Pin(ps, LeafFor(s.low)) /\ call'.at = "seek"
           /\ scan' = [s EXCEPT !.page = LeafFor(s.low), !.ready = TRUE]
  <2>1. scan'.executing /\ scan'.ready /\ scan'.page \in 1 .. Len(nodes)
    <3>1. ScanOK'
      BY DEF IInv
    <3> QED  BY <1>4, <1>7, <3>1 DEF ScanOK
  <2>2. scan'.page = LeafFor(s.low)
    <3>1. PICK q, yes : q = LeafFor(s.low) /\ yes = TRUE
      OBVIOUS
    <3>2. scan' = [s EXCEPT !.page = q, !.ready = yes]
      BY <1>7, <3>1
    <3>3. scan'.page = q
      BY <2>1, <3>2 DEF Scans, IInv, ScanOK
    <3> QED  BY <3>1, <3>3
  <2>3. pins' = Pin(ps, scan'.page)
    BY <1>7, <2>2
  <2> QED  BY <1>2, <1>4, <2>1, <2>3, ExactScan
<1> QED  BY <1>1, <1>2, <1>3, <1>5, <1>6, <1>7 DEF StartScan

LEMMA ExactOnward ==
  ASSUME NumBufs >= CallerPins + 4, IInv, IInv', Exact, scan.executing, scan.ready,
         NEW q, NEW i \in Nat, Onward(q, i), nodes' = nodes, rootPageNum' = rootPageNum,
         call'.at # "dead", outcome'.res # "BufferExceeded" \/ outcome' = outcome
  PROVE  Exact'
<1>1. PICK ps : ps = Released(scan)
  OBVIOUS
<1>2. /\ ps \in Seq(Nat) /\ Len(ps) = Len(nodes)
      /\ \A p \in 1 .. Len(nodes) : ps[p] = IF p = rootPageNum THEN 1 ELSE 0
      /\ Roomy(ps) /\ ps = UnPin(pins, scan.page)
  BY <1>1, ExactReleased
<1>3. scan \in Scans /\ scan' \in Scans
      /\ (scan'.executing => scan'.page \in 1 .. Len(nodes))
  BY DEF IInv, ScanOK
<1>4. CASE pins' = pins /\ (scan' = scan \/ scan' = [scan EXCEPT !.next = i]
                            \/ scan' = [scan EXCEPT !.page = scan.page, !.next = i])
  <2>1. scan'.page = scan.page /\ scan'.executing = scan.executing /\ scan'.ready = scan.ready
    BY <1>3, <1>4 DEF Scans
  <2> QED  BY <1>2, <1>4, <2>1, ExactScan
<1>5. CASE pins' = Pin(ps, q) /\ scan' = [scan EXCEPT !.page = q, !.next = i]
  <2>1. scan'.page = q /\ scan'.executing = scan.executing /\ scan'.ready = scan.ready
    BY <1>3, <1>5 DEF Scans
  <2> QED  BY <1>2, <1>3, <1>5, <2>1, ExactScan
<1> QED  BY <1>2, <1>4, <1>5 DEF Onward, Roomy

LEMMA NextKeepsExact ==
  ASSUME NumBufs >= CallerPins + 4
  PROVE  IInv /\ Exact /\ [Next]_vars => Exact'
<1> SUFFICES ASSUME IInv, Exact, [Next]_vars PROVE Exact'
  OBVIOUS
<1>1. IInv'
  BY NextKeepsIInv
<1>2. CASE UNCHANGED vars
  BY <1>2 DEF Exact, Owed, vars, treeVars, historyVars
<1>3. ASSUME NEW e \in Entry, InsertEntry(e) PROVE Exact'
  <2>1. /\ pins' = pins \/ pins' = Append(pins, 0)
        /\ outcome'.res # "BufferExceeded" \/ outcome' = outcome
        /\ call'.at # "dead"
    BY <1>3, ExactRoom, InsertWithFrames
  <2>2. scan' = scan /\ rootPageNum' = rootPageNum
    BY <1>3 DEF InsertEntry
  <2> QED  BY <1>1, <2>1, <2>2, ExactGrows
<1>4. CASE EnterIntoParent
  <2>1. /\ pins' = pins \/ pins' = Append(pins, 0)
        /\ outcome'.res # "BufferExceeded" \/ outcome' = outcome
        /\ call'.at # "dead"
    BY <1>4, ExactRoom, EnterWithFrames
  <2>2. scan' = scan /\ rootPageNum' = rootPageNum
    BY <1>4 DEF EnterIntoParent
  <2> QED  BY <1>1, <2>1, <2>2, ExactGrows
<1>5. CASE MakeNewRoot
  BY <1>1, <1>5, ExactNewRoot
<1>6. ASSUME NEW a \in ScanArgs, StartScan(NewScan(a)) PROVE Exact'
  <2>1. 0 \in Nat
    OBVIOUS
  <2>2. NewScan(a).executing
    BY <2>1, ScanNew
  <2>3. PICK s : s = NewScan(a)
    OBVIOUS
  <2> QED  BY <1>1, <1>6, <2>2, <2>3, ExactStart
<1>7. CASE SeekFirst
  <2>1. /\ nodes' = nodes /\ rootPageNum' = rootPageNum /\ scan.executing /\ scan.ready
        /\ call.at = "seek"
    BY <1>7 DEF SeekFirst, IInv, ScanOK
  <2>2. PICK h : Stands(nodes, h) /\ scan.page \in 1 .. Len(nodes) /\ nodes[scan.page].leaf
    BY <2>1 DEF IInv, TreeOK, ScanOK
  <2> DEFINE entries == nodes[scan.page].entries
             q == nodes[scan.page].right
  <2>3. entries \in Seq(Entry)
    BY <2>2, Standing, LeafFits
  <2>4. q # NoPage => HasFrame(UnPin(pins, scan.page), q)
    BY <2>1, ExactReleased DEF Roomy
  <2> HIDE DEF entries
  <2>5. /\ \/ \E i \in DOMAIN entries :
                 /\ pins' = pins /\ scan' = [scan EXCEPT !.next = i - 1]
                 /\ \E res \in {"NoSuchKeyFound", "ok"} : Ended("startScan", res)
           \/ /\ pins' = pins /\ scan' = [scan EXCEPT !.next = Len(entries)]
              /\ Ended("startScan", "NoSuchKeyFound")
           \/ /\ q # NoPage /\ MovesTo(q)
              /\ scan'.ready => UNCHANGED <<call, outcome>>
    BY <1>7 DEF SeekFirst, entries
  <2>6. CASE \E i \in DOMAIN entries :
                 /\ pins' = pins /\ scan' = [scan EXCEPT !.next = i - 1]
                 /\ \E res \in {"NoSuchKeyFound", "ok"} : Ended("startScan", res)
    <3>1. PICK i \in DOMAIN entries : pins' = pins /\ scan' = [scan EXCEPT !.next = i - 1]
      BY <2>6
    <3>2. PICK j \in Nat : j = i - 1
      BY <2>3
    <3>3. Onward(q, j)
      BY <3>1, <3>2 DEF Onward
    <3>4. call'.at # "dead" /\ outcome'.res # "BufferExceeded"
      BY <2>6 DEF Ended, AtRest
    <3>5. PICK r : r = q
      OBVIOUS
    <3> QED  BY <1>1, <2>1, <3>3, <3>4, <3>5, ExactOnward
  <2>7. CASE /\ pins' = pins /\ scan' = [scan EXCEPT !.next = Len(entries)]
             /\ Ended("startScan", "NoSuchKeyFound")
    <3>1. PICK j \in Nat : j = Len(entries)
      BY <2>3
    <3>2. Onward(q, j)
      BY <2>7, <3>1 DEF Onward
    <3>3. call'.at # "dead" /\ outcome'.res # "BufferExceeded"
      BY <2>7 DEF Ended, AtRest
    <3>4. PICK r : r = q
      OBVIOUS
    <3> QED  BY <1>1, <2>1, <3>2, <3>3, <3>4, ExactOnward
  <2>8. CASE q # NoPage /\ MovesTo(q) /\ (scan'.ready => UNCHANGED <<call, outcome>>)
    <3>1. pins' = Pin(UnPin(pins, scan.page), q) /\ scan' = [scan EXCEPT !.page = q, !.next = 0]
      BY <2>4, <2>8 DEF MovesTo
    <3>2. 0 \in Nat /\ Onward(q, 0)
      BY <2>8, <3>1 DEF Onward
    <3>3. scan'.ready
      BY <2>1, <3>1 DEF IInv, ScanOK, Scans
    <3>4. call'.at # "dead" /\ outcome' = outcome
      BY <2>1, <2>8, <3>3
    <3>5. PICK r : r = q
      OBVIOUS
    <3> QED  BY <1>1, <2>1, <3>2, <3>4, <3>5, ExactOnward
  <2> QED  BY <2>5, <2>6, <2>7, <2>8
<1>8. CASE ScanNext
  <2>1. nodes' = nodes /\ rootPageNum' = rootPageNum /\ call'.at # "dead"
    BY <1>8 DEF ScanNext, Ended, AtRest, Yields
  <2>2. PICK q, ps : q = nodes[scan.page].right /\ ps = UnPin(pins, scan.page)
    OBVIOUS
  <2>3. CASE pins' = pins /\ scan' = scan
    <3>1. outcome'.res # "BufferExceeded"
      BY <1>8, <2>3, ExactReleased DEF ScanNext, Ended, Roomy, Yields
    <3> QED  BY <2>1, <2>3, <3>1 DEF Exact, Owed
  <2>4. CASE scan.executing /\ scan.ready /\ ~(pins' = pins /\ scan' = scan)
    <3>1. HasFrame(ps, q)
      BY <2>2, <2>4, ExactReleased DEF Roomy
    <3>2. scan.next \in Nat /\ scan.next + 1 \in Nat /\ 0 \in Nat /\ 0 + 1 \in Nat
      BY ScanFields DEF IInv, ScanOK
    <3>3. \/ Yields(scan.page, scan.next) /\ pins' = pins
          \/ q # NoPage /\ pins' = Pin(ps, q) /\ Yields(q, 0)
      BY <1>8, <2>2, <2>4, <3>1 DEF ScanNext
    <3>4. outcome'.res # "BufferExceeded"
      BY <3>3 DEF Yields, Ended
    <3>5. \E i \in Nat : Onward(q, i)
      <4>1. CASE Yields(scan.page, scan.next) /\ pins' = pins
        <5>1. \/ scan' = [scan EXCEPT !.page = scan.page, !.next = scan.next]
              \/ scan' = [scan EXCEPT !.page = scan.page, !.next = scan.next + 1]
          BY <4>1 DEF Yields
        <5> QED  BY <3>2, <4>1, <5>1 DEF Onward
      <4>2. CASE q # NoPage /\ pins' = Pin(ps, q) /\ Yields(q, 0)
        <5>1. \/ scan' = [scan EXCEPT !.page = q, !.next = 0]
              \/ scan' = [scan EXCEPT !.page = q, !.next = 0 + 1]
          BY <4>2 DEF Yields
        <5> QED  BY <2>2, <3>2, <4>2, <5>1 DEF Onward
      <4> QED  BY <3>3, <4>1, <4>2
    <3> QED  BY <1>1, <2>1, <2>4, <3>4, <3>5, ExactOnward
  <2> QED  BY <1>8, <2>3, <2>4 DEF ScanNext
<1>9. CASE EndScan
  <2>1. PICK ps : ps = Released(scan)
    OBVIOUS
  <2>2. /\ ps \in Seq(Nat) /\ Len(ps) = Len(nodes)
        /\ \A p \in 1 .. Len(nodes) : ps[p] = IF p = rootPageNum THEN 1 ELSE 0
        /\ ~Unheld(scan)
    BY <2>1, ExactReleased
  <2>3. /\ nodes' = nodes /\ rootPageNum' = rootPageNum /\ call'.at # "dead"
        /\ outcome'.res # "BufferExceeded"
    BY <1>9, <2>2 DEF EndScan, Ended, AtRest
  <2>4. CASE pins' = ps /\ scan' = NoScan
    <3>1. pins' = ps /\ ~scan'.executing
      BY <2>4, NoScanIs
    <3> QED  BY <2>2, <2>3, <3>1, ExactScan
  <2>5. CASE pins' = pins /\ scan' = scan
    BY <2>3, <2>5 DEF Exact, Owed
  <2> QED  BY <1>9, <2>1, <2>4, <2>5 DEF EndScan
<1>10. CASE Reopen
  <2>1. PICK ps, closed, root : /\ ps = Released(scan) /\ closed = UnPin(ps, rootPageNum)
                                /\ root = rootPageNum
    OBVIOUS
  <2>2. /\ ps \in Seq(Nat) /\ Len(ps) = Len(nodes)
        /\ \A p \in 1 .. Len(nodes) : ps[p] = IF p = root THEN 1 ELSE 0
        /\ Roomy(ps) /\ ~Unheld(scan)
    BY <2>1, ExactReleased
  <2>3. root \in 1 .. Len(ps) /\ DOMAIN nodes = 1 .. Len(nodes)
    BY <2>1, <2>2, TreeIs DEF IInv
  <2>4. /\ closed \in Seq(Nat) /\ Len(closed) = Len(ps)
        /\ \A p \in 1 .. Len(ps) : closed[p] = IF p = root THEN ps[p] - 1 ELSE ps[p]
    <3>1. ps[root] > 0 /\ closed = UnPin(ps, root)
      BY <2>1, <2>2, <2>3
    <3> QED  BY <2>2, <2>3, <3>1, UnPinned
  <2>5. \A p \in 1 .. Len(ps) : closed[p] = 0
    BY <2>2, <2>4
  <2>6. /\ pins' = Pin(closed, root) /\ scan' = NoScan /\ Ended("BTreeIndex", "ok")
    BY <1>10, <2>1, <2>2, <2>3, <2>5 DEF Reopen, Page, Roomy
  <2>7. \A p \in 1 .. Len(ps) : pins'[p] = IF p = root THEN 1 ELSE 0
    <3>1. root \in 1 .. Len(closed) /\ pins' = Pin(closed, root)
      BY <2>3, <2>4, <2>6
    <3>2. \A p \in 1 .. Len(closed) : pins'[p] = IF p = root THEN closed[p] + 1 ELSE closed[p]
      BY <2>4, <3>1, Pinned
    <3> QED  BY <2>4, <2>5, <3>2
  <2>8. nodes' = nodes /\ rootPageNum' = rootPageNum /\ call'.at # "dead"
    BY <1>10, <2>6 DEF Reopen, Ended, AtRest
  <2>9. \A p : Owed(p)' = IF p = root THEN 1 ELSE 0
    BY <2>1, <2>6, <2>8, NoScanIs DEF Owed
  <2> QED  BY <2>2, <2>6, <2>7, <2>8, <2>9, NoScanIs DEF Exact, Ended
<1> QED  BY <1>2, <1>3, <1>4, <1>5, <1>6, <1>7, <1>8, <1>9, <1>10 DEF Next

(* With frames enough the pins are exactly those of the root and the scan, *)
(* also between the steps of a call, and no call ends for want of a frame. *)
THEOREM ExactInvariance == ASSUME NumBufs >= CallerPins + 4 PROVE Spec => []Exact
<1>1. IInv /\ Exact /\ [Next]_vars => Exact'
  BY NextKeepsExact
<1> QED  BY <1>1, InitExact, Invariance, PTL DEF Spec

(* With a frame more than the four of design_report.md, the page of an     *)
(* open scan, no call ends for want of a frame.                            *)
THEOREM FramesSuffice == ASSUME NumBufs >= CallerPins + 4 PROVE Spec => []NeverExceeded
<1>1. Exact => NeverExceeded
  BY DEF Exact, NeverExceeded
<1> QED  BY <1>1, ExactInvariance, PTL

(* With as many frames, every call gives back each pin it took but those   *)
(* of the root and of the scan's page, whatever it split, and gives none   *)
(* back twice.                                                             *)
THEOREM PinsAreBalanced == ASSUME NumBufs >= CallerPins + 4 PROVE Spec => []PinsBalanced
<1>1. IInv /\ Exact => PinsBalanced
  <2> SUFFICES ASSUME IInv, Exact, NEW p \in Page
               PROVE  pins[p] = (IF p = rootPageNum THEN 1 ELSE 0)
                                + (IF scan.executing /\ p = scan.page THEN 1 ELSE 0)
    BY DEF PinsBalanced
  <2>1. p \in 1 .. Len(nodes)
    BY TreeIs DEF IInv, Page
  <2> QED  BY <2>1 DEF Exact, Owed
<1> QED  BY <1>1, ExactInvariance, Invariance, PTL

-----------------------------------------------------------------------------
(* No entry is lost: the leaves are a chain from the first to the last, on *)
(* which each entry is once.                                               *)

LEMMA Joined ==
  ASSUME NEW S, NEW s \in Seq(S), NEW t \in Seq(S)
  PROVE  /\ s \o t \in Seq(S) /\ ToSet(s \o t) = ToSet(s) \cup ToSet(t)
         /\ IsInjective(s) /\ IsInjective(t) /\ ToSet(s) \cap ToSet(t) = {} =>
               IsInjective(s \o t)
<1> DEFINE u == s \o t
           m == Len(s)
           n == Len(t)
<1>1. /\ u \in Seq(S) /\ Len(u) = m + n /\ m \in Nat /\ n \in Nat
      /\ \A i \in 1 .. m + n : u[i] = IF i <= m THEN s[i] ELSE t[i - m]
  BY ConcatProperties
<1> HIDE DEF u
<1>2. \A i \in 1 .. m : i \in 1 .. m + n /\ u[i] = s[i]
  BY <1>1
<1>3. \A i \in 1 .. n : m + i \in 1 .. m + n /\ u[m + i] = t[i]
  <2> SUFFICES ASSUME NEW i \in 1 .. n PROVE m + i \in 1 .. m + n /\ u[m + i] = t[i]
    OBVIOUS
  <2>1. m + i \in 1 .. m + n /\ ~(m + i <= m) /\ m + i - m = i
    BY <1>1
  <2> QED  BY <1>1, <2>1
<1>4. \A i \in 1 .. m + n : i \in 1 .. m \/ (i - m \in 1 .. n /\ u[i] = t[i - m])
  BY <1>1
<1>5. ToSet(u) = ToSet(s) \cup ToSet(t)
  <2>1. /\ \A x : x \in ToSet(u) <=> \E i \in 1 .. m + n : x = u[i]
        /\ \A x : x \in ToSet(s) <=> \E i \in 1 .. m : x = s[i]
        /\ \A x : x \in ToSet(t) <=> \E i \in 1 .. n : x = t[i]
    <3>1. \A x : x \in ToSet(u) <=> \E i \in 1 .. Len(u) : x = u[i]
      BY <1>1, SetOf
    <3>2. /\ \A x : x \in ToSet(s) <=> \E i \in 1 .. m : x = s[i]
          /\ \A x : x \in ToSet(t) <=> \E i \in 1 .. n : x = t[i]
      BY SetOf
    <3> QED  BY <1>1, <3>1, <3>2
  <2> HIDE DEF m, n
  <2>2. \A x : x \in ToSet(u) => x \in ToSet(s) \cup ToSet(t)
    BY <1>2, <1>4, <2>1
  <2>3. \A x : x \in ToSet(s) \cup ToSet(t) => x \in ToSet(u)
    BY <1>2, <1>3, <2>1
  <2> QED  BY <2>2, <2>3
<1>6. ASSUME IsInjective(s), IsInjective(t), ToSet(s) \cap ToSet(t) = {}
      PROVE  IsInjective(u)
  <2>1. /\ \A i, j \in 1 .. m : s[i] = s[j] => i = j
        /\ \A i, j \in 1 .. n : t[i] = t[j] => i = j
    BY <1>6 DEF IsInjective
  <2>2. \A i \in 1 .. m, j \in 1 .. n : s[i] # t[j]
    <3>1. (\A i \in 1 .. m : s[i] \in ToSet(s)) /\ (\A j \in 1 .. n : t[j] \in ToSet(t))
      BY SetOf
    <3> QED  BY <1>6, <3>1
  <2>3. ASSUME NEW i \in 1 .. m + n, NEW j \in 1 .. m + n, u[i] = u[j] PROVE i = j
    <3>1. CASE i \in 1 .. m /\ j \in 1 .. m
      BY <1>2, <2>1, <2>3, <3>1
    <3>2. CASE i \in 1 .. m /\ j \notin 1 .. m
      BY <1>2, <1>4, <2>2, <2>3, <3>2
    <3>3. CASE i \notin 1 .. m /\ j \in 1 .. m
      BY <1>2, <1>4, <2>2, <2>3, <3>3
    <3>4. CASE i \notin 1 .. m /\ j \notin 1 .. m
      <4>1. i - m \in 1 .. n /\ j - m \in 1 .. n /\ t[i - m] = t[j - m]
        BY <1>4, <2>3, <3>4
      <4>2. i - m = j - m
        BY <2>1, <4>1
      <4> QED  BY <1>1, <4>2
    <3> QED  BY <3>1, <3>2, <3>3, <3>4
  <2>4. DOMAIN u = 1 .. m + n
    BY <1>1
  <2> QED  BY <2>3, <2>4 DEF IsInjective
<1> QED  BY <1>1, <1>5, <1>6 DEF u

Leaves(ns) == {p \in 1 .. Len(ns) : ns[p].leaf}
EntriesIn(ns, p) == ToSet(ns[p].entries)

(* d tells how many leaves there are to the right of one; the first leaf   *)
(* has the most.                                                           *)
Chained(ns, d) ==
    /\ d \in [1 .. Len(ns) -> Nat]
    /\ 1 \in Leaves(ns)
    /\ \A p \in Leaves(ns) : d[p] <= d[1]
    /\ \A p, q \in Leaves(ns) : d[p] = d[q] => p = q
    /\ \A p \in Leaves(ns) :
          IF ns[p].right = NoPage THEN d[p] = 0
          ELSE ns[p].right \in Leaves(ns) /\ d[p] = d[ns[p].right] + 1

(* Each leaf has its entries once, of those that are given, and no two     *)
(* leaves have the same.                                                   *)
Apart(ns, given) ==
    /\ \A p \in Leaves(ns) : IsInjective(ns[p].entries) /\ EntriesIn(ns, p) \subseteq given
    /\ \A p, q \in Leaves(ns) : p # q => EntriesIn(ns, p) \cap EntriesIn(ns, q) = {}

Has(ns, e) == \E p \in Leaves(ns) : e \in EntriesIn(ns, p)

(* The entry that insertEntry is about is in its leaf before a parent is.  *)
ChainOK ==
    /\ \E d : Chained(nodes, d)
    /\ Apart(nodes, tried)
    /\ \A e \in stored : Has(nodes, e)
    /\ call.at \in {"parent", "newRoot"} => Has(nodes, call.entry)

(* The leaves are the same and so is what they hold. *)
SameLeaves(ns, ms) == Leaves(ms) = Leaves(ns) /\ \A p \in Leaves(ns) : ms[p] = ns[p]

LEMMA ChainedSame ==
  ASSUME NEW ns, NEW ms, SameLeaves(ns, ms), Len(ns) \in Nat, Len(ms) \in Nat,
         NEW d, Chained(ns, d)
  PROVE  \E g : Chained(ms, g) /\ \A p \in Leaves(ns) : g[p] = d[p]
<1>2. PICK g : g = [q \in 1 .. Len(ms) |-> IF q \in Leaves(ns) THEN d[q] ELSE 0]
  OBVIOUS
<1>3. \A p \in Leaves(ns) : p \in 1 .. Len(ns) /\ p \in 1 .. Len(ms) /\ d[p] \in Nat
  BY DEF Chained, SameLeaves, Leaves
<1>4. (\A p \in Leaves(ns) : g[p] = d[p]) /\ g \in [1 .. Len(ms) -> Nat]
  BY <1>2, <1>3
<1>5. Chained(ms, g)
  <2>1. Leaves(ms) = Leaves(ns) /\ \A p \in Leaves(ns) : ms[p] = ns[p]
    BY DEF SameLeaves
  <2>2. /\ 1 \in Leaves(ns)
        /\ \A p \in Leaves(ns) : g[p] <= g[1]
        /\ \A p, q \in Leaves(ns) : g[p] = g[q] => p = q
    BY <1>4 DEF Chained
  <2>3. ASSUME NEW p \in Leaves(ns)
        PROVE  IF ns[p].right = NoPage THEN g[p] = 0
               ELSE ns[p].right \in Leaves(ns) /\ g[p] = g[ns[p].right] + 1
    BY <1>4 DEF Chained
  <2> QED  BY <1>4, <2>1, <2>2, <2>3 DEF Chained
<1> QED  BY <1>4, <1>5

LEMMA SameChain ==
  ASSUME NEW ns, NEW ms, SameLeaves(ns, ms), Len(ns) \in Nat, Len(ms) \in Nat,
         \E d : Chained(ns, d), NEW given, Apart(ns, given)
  PROVE  (\E d : Chained(ms, d)) /\ Apart(ms, given) /\ \A e : Has(ns, e) => Has(ms, e)
<1>1. \E d : Chained(ms, d)
  BY ChainedSame
<1>2. Apart(ms, given) /\ \A e : Has(ns, e) => Has(ms, e)
  BY DEF Apart, Has, SameLeaves, EntriesIn
<1> QED  BY <1>1, <1>2

(* A leaf takes a new entry. *)
LEMMA LeafTakes ==
  ASSUME NEW ns, DOMAIN ns = 1 .. Len(ns), Len(ns) \in Nat, NEW d, Chained(ns, d),
         NEW given, Apart(ns, given), NEW e, e \notin given,
         NEW p \in Leaves(ns), NEW a, a.leaf, a.right = ns[p].right,
         ToSet(a.entries) = EntriesIn(ns, p) \cup {e}, IsInjective(a.entries),
         NEW ms, ms = [ns EXCEPT ![p] = a]
  PROVE  /\ Chained(ms, d)
         /\ Apart(ms, given \cup {e})
         /\ Has(ms, e) /\ \A f : Has(ns, f) => Has(ms, f)
<1>2. p \in 1 .. Len(ns) /\ Leaves(ns) \subseteq 1 .. Len(ns)
  BY DEF Leaves
<1>3. ms[p] = a /\ \A q \in 1 .. Len(ns) : q # p => ms[q] = ns[q]
  BY <1>2
<1>4. Len(ms) = Len(ns)
  BY <1>2
<1>5. Leaves(ms) = Leaves(ns)
  BY <1>2, <1>3, <1>4 DEF Leaves
<1>61. \A q \in Leaves(ns) : ms[q].right = ns[q].right
  BY <1>2, <1>3
<1>6. \A q \in Leaves(ns) : /\ EntriesIn(ms, q) = IF q = p THEN EntriesIn(ns, p) \cup {e}
                                                  ELSE EntriesIn(ns, q)
                            /\ IsInjective(ms[q].entries)
  BY <1>2, <1>3 DEF EntriesIn, Apart
<1>7. Chained(ms, d)
  <2>1. \A q \in Leaves(ns) : IF ms[q].right = NoPage THEN d[q] = 0
                             ELSE ms[q].right \in Leaves(ns) /\ d[q] = d[ms[q].right] + 1
    BY <1>61 DEF Chained
  <2> QED  BY <1>4, <1>5, <2>1 DEF Chained
<1>8. \A q \in Leaves(ns) : EntriesIn(ns, q) \subseteq given
  BY DEF Apart
<1>9. Apart(ms, given \cup {e})
  <2>1. \A q, r \in Leaves(ns) : q # r => EntriesIn(ms, q) \cap EntriesIn(ms, r) = {}
    <3> SUFFICES ASSUME NEW q \in Leaves(ns), NEW r \in Leaves(ns), q # r
                 PROVE  EntriesIn(ms, q) \cap EntriesIn(ms, r) = {}
      OBVIOUS
    <3>1. EntriesIn(ns, q) \cap EntriesIn(ns, r) = {}
      BY DEF Apart
    <3>2. e \notin EntriesIn(ns, q) /\ e \notin EntriesIn(ns, r)
      BY <1>8
    <3>3. /\ EntriesIn(ms, q) = IF q = p THEN EntriesIn(ns, p) \cup {e} ELSE EntriesIn(ns, q)
          /\ EntriesIn(ms, r) = IF r = p THEN EntriesIn(ns, p) \cup {e} ELSE EntriesIn(ns, r)
      BY <1>6
    <3> QED  BY <3>1, <3>2, <3>3
  <2>2. \A q \in Leaves(ns) : /\ IsInjective(ms[q].entries)
                              /\ EntriesIn(ms, q) \subseteq given \cup {e}
    BY <1>6, <1>8
  <2> QED  BY <1>5, <2>1, <2>2 DEF Apart
<1>10. Has(ms, e) /\ \A f : Has(ns, f) => Has(ms, f)
  BY <1>5, <1>6 DEF Has
<1> QED  BY <1>7, <1>9, <1>10

(* The leaves when page n is added behind leaf p. *)
Behind(ns, p, n, ms) ==
    /\ Len(ns) \in Nat /\ p \in Leaves(ns)
    /\ n = Len(ns) + 1 /\ Len(ms) = n /\ Leaves(ms) = Leaves(ns) \cup {n}
    /\ ms[p].right = n /\ ms[n].right = ns[p].right
    /\ \A q \in Leaves(ns) : q # p => ms[q].right = ns[q].right

(* Page n takes the place of p, and those left of it move one on.          *)
Shifted(ns, d, p, n, g) ==
    /\ g[n] = d[p]
    /\ \A q \in Leaves(ns) : g[q] = IF d[q] >= d[p] THEN d[q] + 1 ELSE d[q]

LEMMA ChainedBehind ==
  ASSUME NEW ns, NEW d, Chained(ns, d), NEW p, NEW n, NEW ms, Behind(ns, p, n, ms)
  PROVE  \E g : Chained(ms, g) /\ Shifted(ns, d, p, n, g)
<1>0. /\ Len(ns) \in Nat /\ p \in Leaves(ns)
      /\ n = Len(ns) + 1 /\ Len(ms) = n /\ Leaves(ms) = Leaves(ns) \cup {n}
      /\ ms[p].right = n /\ ms[n].right = ns[p].right
      /\ \A q \in Leaves(ns) : q # p => ms[q].right = ns[q].right
  BY DEF Behind
<1> DEFINE up(q) == IF d[q] >= d[p] THEN d[q] + 1 ELSE d[q]
<1>1. PICK g : g = [q \in 1 .. n |-> IF q = n THEN d[p] ELSE up(q)]
  OBVIOUS
<1>2. /\ \A q \in Leaves(ns) : q \in 1 .. Len(ns) /\ d[q] \in Nat /\ d[q] <= d[1]
      /\ \A q \in 1 .. Len(ns) : d[q] \in Nat
      /\ \A q, r \in Leaves(ns) : d[q] = d[r] => q = r
      /\ 1 \in Leaves(ns)
      /\ \A q \in Leaves(ns) :
            IF ns[q].right = NoPage THEN d[q] = 0
            ELSE ns[q].right \in Leaves(ns) /\ d[q] = d[ns[q].right] + 1
  BY <1>0 DEF Chained, Leaves
<1>3. /\ n \in 1 .. n /\ n \in Nat /\ n # NoPage /\ n \notin 1 .. Len(ns)
      /\ \A q \in 1 .. n : q \in 1 .. Len(ns) \/ q = n
      /\ \A q \in 1 .. Len(ns) : q \in 1 .. n /\ q # n
  BY <1>0 DEF NoPage
<1>4. g[n] = d[p] /\ \A q \in 1 .. Len(ns) : g[q] = up(q)
  BY <1>0, <1>1, <1>3
<1>5. \A q \in 1 .. Len(ns) : up(q) \in Nat
  BY <1>0, <1>2
<1>6. g \in [1 .. n -> Nat]
  BY <1>0, <1>1, <1>2, <1>3, <1>5
<1>7. p \in 1 .. Len(ns) /\ up(p) = d[p] + 1 /\ d[p] \in Nat /\ g[p] = d[p] + 1
  BY <1>0, <1>2, <1>4
<1>8. \A q \in Leaves(ms) : g[q] <= g[1]
  <2> SUFFICES ASSUME NEW q \in Leaves(ms) PROVE g[q] <= g[1]
    OBVIOUS
  <2>1. g[1] = up(1) /\ d[1] \in Nat /\ d[p] <= d[1]
    BY <1>0, <1>2, <1>4
  <2>2. CASE q = n
    BY <1>0, <1>4, <1>7, <2>1, <2>2
  <2>3. CASE q \in Leaves(ns)
    <3>1. g[q] = up(q) /\ d[q] \in Nat /\ d[q] <= d[1]
      BY <1>0, <1>2, <1>4, <2>3
    <3> QED  BY <1>0, <1>7, <2>1, <3>1
  <2> QED  BY <1>0, <2>2, <2>3
<1>9. ASSUME NEW q \in Leaves(ms), NEW r \in Leaves(ms), g[q] = g[r] PROVE q = r
  <2>1. \A t \in Leaves(ns) : g[t] = up(t) /\ d[t] \in Nat /\ up(t) # d[p]
    BY <1>0, <1>2, <1>4, <1>7
  <2>2. CASE q \in Leaves(ns) /\ r \in Leaves(ns)
    <3>1. up(q) = up(r) /\ d[q] \in Nat /\ d[r] \in Nat
      BY <1>0, <1>9, <2>1, <2>2
    <3>2. d[q] = d[r]
      BY <1>0, <1>7, <3>1
    <3> QED  BY <1>0, <1>2, <2>2, <3>2
  <2>3. CASE q = n \/ r = n
    BY <1>0, <1>4, <1>9, <2>1, <2>3
  <2> QED  BY <1>0, <2>2, <2>3
<1>10. ASSUME NEW q \in Leaves(ms)
       PROVE  IF ms[q].right = NoPage THEN g[q] = 0
              ELSE ms[q].right \in Leaves(ms) /\ g[q] = g[ms[q].right] + 1
  <2>1. CASE q = p
    BY <1>0, <1>3, <1>4, <1>7, <2>1
  <2>2. CASE q = n /\ ns[p].right = NoPage
    BY <1>0, <1>2, <1>4, <2>2
  <2>3. CASE q = n /\ ns[p].right # NoPage
    <3>1. PICK r : r = ns[p].right
      OBVIOUS
    <3>2. r \in Leaves(ns) /\ d[p] = d[r] + 1 /\ d[r] \in Nat /\ g[r] = up(r)
      BY <1>0, <1>2, <1>4, <2>3, <3>1
    <3>3. g[r] = d[r]
      BY <1>0, <1>7, <3>2
    <3> QED  BY <1>0, <1>4, <2>3, <3>1, <3>2, <3>3
  <2>4. CASE q \in Leaves(ns) /\ q # p /\ ns[q].right = NoPage
    <3>1. ms[q].right = NoPage /\ d[q] = 0 /\ g[q] = up(q)
      BY <1>0, <1>2, <1>4, <2>4
    <3>2. d[q] # d[p]
      BY <1>0, <1>2, <2>4
    <3> QED  BY <1>0, <1>7, <3>1, <3>2
  <2>5. CASE q \in Leaves(ns) /\ q # p /\ ns[q].right # NoPage
    <3>1. PICK r : r = ns[q].right
      OBVIOUS
    <3>2. r \in Leaves(ns) /\ d[q] = d[r] + 1 /\ d[r] \in Nat /\ g[r] = up(r) /\ g[q] = up(q)
      BY <1>0, <1>2, <1>4, <2>5, <3>1
    <3>3. d[q] # d[p]
      BY <1>0, <1>2, <2>5
    <3>4. up(q) = up(r) + 1
      BY <1>0, <1>7, <3>2, <3>3
    <3>5. ms[q].right = r
      BY <1>0, <2>5, <3>1
    <3> QED  BY <1>0, <2>5, <3>1, <3>2, <3>4, <3>5
  <2> QED  BY <1>0, <2>1, <2>2, <2>3, <2>4, <2>5
<1>11. Chained(ms, g)
  BY <1>0, <1>2, <1>6, <1>8, <1>9, <1>10 DEF Chained
<1>12. Shifted(ns, d, p, n, g)
  BY <1>2, <1>4 DEF Shifted
<1> QED  BY <1>11, <1>12

(* A leaf is split in two, which have its entries and the new one. *)
InTwo(ns, p, e, a, b, ms) ==
    /\ Len(ns) \in Nat /\ ns \in Seq(LeafNode \cup InnerNode) /\ p \in Leaves(ns)
    /\ ms = Append([ns EXCEPT ![p] = a], b)
    /\ a \in LeafNode /\ b \in LeafNode
    /\ a.right = Len(ns) + 1 /\ b.right = ns[p].right
    /\ ToSet(a.entries) \cup ToSet(b.entries) = EntriesIn(ns, p) \cup {e}
    /\ ToSet(a.entries) \cap ToSet(b.entries) = {}
    /\ IsInjective(a.entries) /\ IsInjective(b.entries)

LEMMA LeafSplits ==
  ASSUME NEW ns, NEW d, Chained(ns, d), NEW given, Apart(ns, given), NEW e, e \notin given,
         NEW p, NEW a, NEW b, NEW ms, InTwo(ns, p, e, a, b, ms)
  PROVE  /\ \E g : Chained(ms, g)
         /\ Apart(ms, given \cup {e})
         /\ Has(ms, e) /\ \A f : Has(ns, f) => Has(ms, f)
<1>0. PICK n : /\ n = Len(ns) + 1 /\ Len(ns) \in Nat
               /\ ns \in Seq(LeafNode \cup InnerNode) /\ p \in Leaves(ns)
               /\ ms = Append([ns EXCEPT ![p] = a], b)
  BY DEF InTwo
<1>1. /\ a \in LeafNode /\ b \in LeafNode /\ a.right = n /\ b.right = ns[p].right
      /\ ToSet(a.entries) \cup ToSet(b.entries) = EntriesIn(ns, p) \cup {e}
      /\ ToSet(a.entries) \cap ToSet(b.entries) = {}
      /\ IsInjective(a.entries) /\ IsInjective(b.entries)
  BY <1>0 DEF InTwo
<1>2. p \in 1 .. Len(ns) /\ Leaves(ns) \subseteq 1 .. Len(ns) /\ a.leaf /\ b.leaf
  BY <1>0, <1>1 DEF Leaves, LeafNode
<1>3. /\ Len(ms) = n /\ ms[p] = a /\ ms[n] = b
      /\ \A q \in 1 .. Len(ns) : q # p => ms[q] = ns[q]
  BY <1>0, <1>2
<1>4. /\ n \in 1 .. n /\ n \notin 1 .. Len(ns)
      /\ \A q \in 1 .. n : q \in 1 .. Len(ns) \/ q = n
      /\ \A q \in 1 .. Len(ns) : q \in 1 .. n
  BY <1>0
<1>5. Leaves(ms) = Leaves(ns) \cup {n}
  <2>1. \A q \in 1 .. Len(ns) : ms[q].leaf <=> ns[q].leaf
    BY <1>0, <1>1, <1>2, <1>3 DEF Leaves
  <2> QED  BY <1>2, <1>3, <1>4, <2>1 DEF Leaves
<1>6. \E g : Chained(ms, g)
  <2>1. ms[p].right = n /\ ms[n].right = ns[p].right
    BY <1>1, <1>3
  <2>2. \A q \in Leaves(ns) : q # p => ms[q].right = ns[q].right
    BY <1>2, <1>3
  <2>3. Behind(ns, p, n, ms)
    BY <1>0, <1>3, <1>5, <2>1, <2>2 DEF Behind
  <2> QED  BY <2>3, ChainedBehind
<1>7. /\ EntriesIn(ms, p) = ToSet(a.entries) /\ EntriesIn(ms, n) = ToSet(b.entries)
      /\ \A q \in Leaves(ns) : q # p => EntriesIn(ms, q) = EntriesIn(ns, q)
  BY <1>2, <1>3 DEF EntriesIn
<1>8. \A q \in Leaves(ns) : EntriesIn(ns, q) \subseteq given
  BY DEF Apart
<1>9. \A q, r \in Leaves(ns) : q # r => EntriesIn(ns, q) \cap EntriesIn(ns, r) = {}
  BY DEF Apart
<1>10. /\ EntriesIn(ms, p) \subseteq EntriesIn(ns, p) \cup {e}
       /\ EntriesIn(ms, n) \subseteq EntriesIn(ns, p) \cup {e}
       /\ EntriesIn(ms, p) \cup EntriesIn(ms, n) = EntriesIn(ns, p) \cup {e}
       /\ EntriesIn(ms, p) \cap EntriesIn(ms, n) = {}
  BY <1>1, <1>7
<1>11. \A q \in Leaves(ns) : q # p =>
          /\ EntriesIn(ms, q) \cap EntriesIn(ms, p) = {}
          /\ EntriesIn(ms, q) \cap EntriesIn(ms, n) = {}
  <2> SUFFICES ASSUME NEW q \in Leaves(ns), q # p
               PROVE  /\ EntriesIn(ms, q) \cap EntriesIn(ms, p) = {}
                      /\ EntriesIn(ms, q) \cap EntriesIn(ms, n) = {}
    OBVIOUS
  <2>1. EntriesIn(ms, q) = EntriesIn(ns, q) /\ e \notin EntriesIn(ns, q)
        /\ EntriesIn(ns, q) \cap EntriesIn(ns, p) = {}
    BY <1>0, <1>7, <1>8, <1>9
  <2> QED  BY <1>10, <2>1
<1>12. \A q, r \in Leaves(ms) : q # r => EntriesIn(ms, q) \cap EntriesIn(ms, r) = {}
  <2> SUFFICES ASSUME NEW q \in Leaves(ms), NEW r \in Leaves(ms), q # r
               PROVE  EntriesIn(ms, q) \cap EntriesIn(ms, r) = {}
    OBVIOUS
  <2>1. (q \in Leaves(ns) \/ q = n) /\ (r \in Leaves(ns) \/ r = n)
    BY <1>5
  <2>2. CASE q \notin {p, n} /\ r \notin {p, n}
    <3>1. /\ EntriesIn(ms, q) = EntriesIn(ns, q) /\ EntriesIn(ms, r) = EntriesIn(ns, r)
          /\ q \in Leaves(ns) /\ r \in Leaves(ns)
      BY <1>7, <2>1, <2>2
    <3> QED  BY <1>9, <3>1
  <2>3. CASE q \in {p, n} /\ r \in {p, n}
    <3>1. EntriesIn(ms, p) \cap EntriesIn(ms, n) = {} /\ EntriesIn(ms, n) \cap EntriesIn(ms, p) = {}
      BY <1>10
    <3>2. (q = p /\ r = n) \/ (q = n /\ r = p)
      BY <2>3
    <3> QED  BY <3>1, <3>2
  <2>4. CASE q \in {p, n} /\ r \notin {p, n}
    <3>1. /\ EntriesIn(ms, r) \cap EntriesIn(ms, p) = {}
          /\ EntriesIn(ms, r) \cap EntriesIn(ms, n) = {}
      BY <1>11, <2>1, <2>4
    <3> QED  BY <2>4, <3>1
  <2>5. CASE q \notin {p, n} /\ r \in {p, n}
    BY <1>11, <2>1, <2>5
  <2> QED  BY <2>2, <2>3, <2>4, <2>5
<1>13. \A q \in Leaves(ms) : /\ IsInjective(ms[q].entries)
                             /\ EntriesIn(ms, q) \subseteq given \cup {e}
  <2> SUFFICES ASSUME NEW q \in Leaves(ms)
               PROVE  /\ IsInjective(ms[q].entries)
                      /\ EntriesIn(ms, q) \subseteq given \cup {e}
    OBVIOUS
  <2>1. CASE q \in {p, n}
    BY <1>0, <1>1, <1>3, <1>8, <1>10, <2>1
  <2>2. CASE q \in Leaves(ns) /\ q # p
    <3>1. ms[q] = ns[q] /\ EntriesIn(ms, q) = EntriesIn(ns, q)
      BY <1>2, <1>3, <1>7, <2>2
    <3> QED  BY <2>2, <3>1 DEF Apart
  <2> QED  BY <1>5, <2>1, <2>2
<1>14. Has(ms, e) /\ \A f : Has(ns, f) => Has(ms, f)
  <2>1. p \in Leaves(ms) /\ n \in Leaves(ms)
    BY <1>0, <1>5
  <2>2. Has(ms, e)
    BY <1>10, <2>1 DEF Has
  <2>3. ASSUME NEW f, Has(ns, f) PROVE Has(ms, f)
    <3>1. PICK q \in Leaves(ns) : f \in EntriesIn(ns, q)
      BY <2>3 DEF Has
    <3>2. CASE q = p
      BY <1>10, <2>1, <3>1, <3>2 DEF Has
    <3>3. CASE q # p
      BY <1>5, <1>7, <3>1, <3>3 DEF Has
    <3> QED  BY <3>2, <3>3
  <2> QED  BY <2>2, <2>3
<1>15. Apart(ms, given \cup {e})
  BY <1>12, <1>13 DEF Apart
<1> QED  BY <1>6, <1>14, <1>15

LEMMA InitChainOK == Init => ChainOK
<1> SUFFICES ASSUME Init PROVE ChainOK
  OBVIOUS
<1>1. /\ Len(nodes) = 1 /\ nodes[1].leaf /\ nodes[1].entries = <<>> /\ nodes[1].right = NoPage
      /\ tried = {} /\ stored = {} /\ call.at = "idle"
  BY DEF Init, Leaf, AtRest
<1>2. Leaves(nodes) = {1}
  BY <1>1 DEF Leaves
<1> DEFINE d == [p \in 1 .. 1 |-> 0]
<1>3. Chained(nodes, d)
  BY <1>1, <1>2 DEF Chained
<1>4. Apart(nodes, tried)
  BY <1>1, <1>2 DEF Apart, EntriesIn, IsInjective, ToSet
<1> QED  BY <1>1, <1>3, <1>4 DEF ChainOK

(* The leaf is the one place where an entry comes in. *)
LEMMA InsertKeepsChain ==
  ASSUME IInv, ChainOK, NEW e \in Entry, InsertEntry(e)
  PROVE  ChainOK'
<1>1. PICK h : Stands(nodes, h)
  BY DEF IInv, TreeOK
<1>2. /\ Len(nodes) \in Nat /\ DOMAIN nodes = 1 .. Len(nodes)
      /\ nodes \in Seq(LeafNode \cup InnerNode)
  BY TreeIs DEF IInv
<1> DEFINE leaf == nodes[LeafFor(e[1])]
<1>3. PICK p : p = LeafFor(e[1])
  OBVIOUS
<1>4. p \in Leaves(nodes) /\ NodeFits(leaf, Len(nodes))
  BY <1>1, <1>3, LeafForIs, Standing DEF Leaves
<1>5. /\ leaf \in LeafNode /\ leaf.entries \in Seq(Entry) /\ Len(leaf.entries) <= LeafSize
      /\ leaf.right \in Nat
  BY <1>3, <1>4, LeafFits DEF Leaves
<1>60. PICK d : Chained(nodes, d)
  BY DEF ChainOK
<1>6. /\ Apart(nodes, tried) /\ e \notin tried /\ \A f \in stored : Has(nodes, f)
  BY DEF ChainOK, InsertEntry, Inserts
<1>7. IsInjective(leaf.entries) /\ e \notin ToSet(leaf.entries)
      /\ EntriesIn(nodes, p) = ToSet(leaf.entries) /\ leaf = nodes[p]
  BY <1>3, <1>4, <1>6 DEF Apart, EntriesIn
<1>8. tried' = tried \cup {e} /\ stored' \in {stored, stored \cup {e}}
  BY DEF InsertEntry
<1> HIDE DEF leaf
<1>9. CASE nodes' = nodes /\ call' = AtRest /\ stored' = stored
  <2>1. Apart(nodes, tried \cup {e})
    BY <1>6 DEF Apart
  <2> QED  BY <1>6, <1>60, <1>8, <1>9, <2>1 DEF ChainOK, AtRest
<1>10. CASE /\ nodes' = [nodes EXCEPT ![p].entries = WithEntry(leaf.entries, e)]
            /\ call' = AtRest
  <2> DEFINE entries == WithEntry(leaf.entries, e)
             a == Leaf(entries, leaf.right)
  <2>1. /\ entries \in Seq(Entry) /\ ToSet(entries) = ToSet(leaf.entries) \cup {e}
        /\ IsInjective(entries)
    BY <1>5, <1>7, EntryPlaced
  <2> HIDE DEF entries
  <2>2. nodes' = [nodes EXCEPT ![p] = a]
    <3>1. Shaped(nodes) /\ p \in 1 .. Len(nodes) /\ nodes[p].leaf
      BY <1>1, <1>4 DEF Stands, Leaves
    <3>2. [nodes EXCEPT ![p].entries = entries] = [nodes EXCEPT ![p] = Leaf(entries, nodes[p].right)]
      BY <2>1, <3>1, LeafExcept
    <3> QED  BY <1>7, <1>10, <3>2 DEF entries
  <2>3. a.leaf /\ a.right = nodes[p].right /\ a.entries = entries
    BY <1>5, <1>7, <2>1, LeafIs
  <2> HIDE DEF a
  <2>4. PICK ns : ns = [nodes EXCEPT ![p] = a]
    OBVIOUS
  <2>5. /\ Chained(ns, d)
        /\ Apart(ns, tried \cup {e})
        /\ Has(ns, e) /\ \A f : Has(nodes, f) => Has(ns, f)
    <3>1. ToSet(a.entries) = EntriesIn(nodes, p) \cup {e} /\ IsInjective(a.entries)
      BY <1>7, <2>1, <2>3
    <3>2. PICK given, ms : given = tried /\ ms = nodes
      OBVIOUS
    <3>3. /\ DOMAIN ms = 1 .. Len(ms) /\ Len(ms) \in Nat /\ Chained(ms, d) /\ Apart(ms, given)
          /\ e \notin given /\ p \in Leaves(ms) /\ a.leaf /\ a.right = ms[p].right
          /\ ToSet(a.entries) = EntriesIn(ms, p) \cup {e} /\ IsInjective(a.entries)
          /\ ns = [ms EXCEPT ![p] = a]
      BY <1>2, <1>4, <1>6, <1>60, <2>3, <2>4, <3>1, <3>2
    <3>4. /\ Chained(ns, d)
          /\ Apart(ns, given \cup {e})
          /\ Has(ns, e) /\ \A f : Has(ms, f) => Has(ns, f)
      BY <3>3, LeafTakes
    <3> QED  BY <3>2, <3>4
  <2> QED  BY <1>6, <1>8, <1>10, <2>2, <2>4, <2>5 DEF ChainOK, AtRest
<1>11. CASE LET halves == SplitLeaf(leaf.entries, e)
                split == Append([nodes EXCEPT ![p] = Leaf(halves[1], NewPage)],
                                Leaf(halves[2], leaf.right))
            IN /\ ~Fits(leaf)
               /\ nodes' = split
               /\ GoUp(split, p, halves[2][1][1], NewPage, Len(Way(e[1])) - 1, e)
               /\ stored' = stored
  <2>1. Len(leaf.entries) = LeafSize
    BY <1>5, <1>11, SizeAssumption DEF Fits
  <2>2. PICK n, l, r : n = Len(nodes) + 1 /\ SplitLeaf(leaf.entries, e) = <<l, r>>
    BY DEF SplitLeaf
  <2>3. /\ l \in Seq(Entry) /\ r \in Seq(Entry)
        /\ ToSet(l) \cup ToSet(r) = ToSet(leaf.entries) \cup {e}
        /\ IsInjective(l) /\ IsInjective(r) /\ ToSet(l) \cap ToSet(r) = {}
    BY <1>5, <1>7, <2>1, <2>2, LeafSplitInTwo
  <2>4. PICK a, b, ns : /\ a = Leaf(l, n) /\ b = Leaf(r, leaf.right)
                        /\ ns = Append([nodes EXCEPT ![p] = a], b)
    OBVIOUS
  <2>5. nodes' = ns /\ stored' = stored
        /\ GoUp(ns, p, r[1][1], n, Len(Way(e[1])) - 1, e)
    BY <1>11, <2>2, <2>4 DEF NewPage
  <2>6. /\ a \in LeafNode /\ a.entries = l /\ a.right = n
        /\ b \in LeafNode /\ b.entries = r /\ b.right = leaf.right
    BY <1>2, <1>5, <2>2, <2>3, <2>4, LeafIs
  <2>7. /\ \E g : Chained(ns, g)
        /\ Apart(ns, tried \cup {e})
        /\ Has(ns, e) /\ \A f : Has(nodes, f) => Has(ns, f)
    <3>1. PICK given, ms : given = tried /\ ms = nodes
      OBVIOUS
    <3>2. Chained(ms, d) /\ Apart(ms, given) /\ e \notin given
      BY <1>6, <1>60, <3>1
    <3>3. InTwo(ms, p, e, a, b, ns)
      <4>1. /\ Len(ms) \in Nat /\ ms \in Seq(LeafNode \cup InnerNode) /\ p \in Leaves(ms)
            /\ ns = Append([ms EXCEPT ![p] = a], b)
        BY <1>2, <1>4, <2>4, <3>1
      <4> QED  BY <1>7, <2>2, <2>3, <2>6, <3>1, <4>1 DEF InTwo
    <3>4. /\ \E g : Chained(ns, g)
          /\ Apart(ns, given \cup {e})
          /\ Has(ns, e) /\ \A f : Has(ms, f) => Has(ns, f)
      BY <3>2, <3>3, LeafSplits
    <3> QED  BY <3>1, <3>4
  <2>8. call'.at \in {"parent", "newRoot"} => call'.entry = e
    BY <2>5 DEF GoUp
  <2> QED  BY <1>6, <1>8, <2>5, <2>7, <2>8 DEF ChainOK
<1> QED  BY <1>3, <1>9, <1>10, <1>11 DEF InsertEntry, Ended, leaf

(* Nodes that are not leaves come and go. *)
LEMMA LeavesStay ==
  ASSUME NEW S, NEW ns \in Seq(S), NEW p \in 1 .. Len(ns), ~ns[p].leaf,
         NEW a, ~a.leaf, NEW b, ~b.leaf
  PROVE  /\ SameLeaves(ns, [ns EXCEPT ![p] = a]) /\ Len([ns EXCEPT ![p] = a]) \in Nat
         /\ SameLeaves(ns, Append([ns EXCEPT ![p] = a], b))
         /\ Len(Append([ns EXCEPT ![p] = a], b)) \in Nat
<1> DEFINE ms == [ns EXCEPT ![p] = a]
           ks == Append(ms, b)
<1>1. /\ Len(ns) \in Nat /\ Len(ms) = Len(ns) /\ Len(ks) = Len(ns) + 1
      /\ ms[p] = a /\ ks[p] = a /\ ks[Len(ns) + 1] = b
      /\ \A q \in 1 .. Len(ns) : q # p => ms[q] = ns[q] /\ ks[q] = ns[q]
  OBVIOUS
<1> HIDE DEF ms, ks
<1>2. /\ Len(ns) + 1 \notin 1 .. Len(ns)
      /\ \A q \in 1 .. Len(ns) + 1 : q \in 1 .. Len(ns) \/ q = Len(ns) + 1
      /\ \A q \in 1 .. Len(ns) : q \in 1 .. Len(ns) + 1
  BY <1>1
<1>3. Leaves(ms) = Leaves(ns)
  BY <1>1 DEF Leaves
<1>4. Leaves(ks) = Leaves(ns)
  BY <1>1, <1>2 DEF Leaves
<1>5. \A q \in Leaves(ns) : q \in 1 .. Len(ns) /\ q # p
  BY DEF Leaves
<1>6. SameLeaves(ns, ms) /\ SameLeaves(ns, ks)
  BY <1>1, <1>3, <1>4, <1>5 DEF SameLeaves
<1> QED  BY <1>1, <1>6 DEF ms, ks

LEMMA LeavesStayNew ==
  ASSUME NEW S, NEW ns \in Seq(S), NEW b, ~b.leaf
  PROVE  SameLeaves(ns, Append(ns, b)) /\ Len(Append(ns, b)) \in Nat
<1> DEFINE ks == Append(ns, b)
<1>1. /\ Len(ns) \in Nat /\ Len(ks) = Len(ns) + 1 /\ ks[Len(ns) + 1] = b
      /\ \A q \in 1 .. Len(ns) : ks[q] = ns[q]
  OBVIOUS
<1> HIDE DEF ks
<1>2. /\ \A q \in 1 .. Len(ns) + 1 : q \in 1 .. Len(ns) \/ q = Len(ns) + 1
      /\ \A q \in 1 .. Len(ns) : q \in 1 .. Len(ns) + 1
  BY <1>1
<1>3. Leaves(ks) = Leaves(ns)
  BY <1>1, <1>2 DEF Leaves
<1>4. SameLeaves(ns, ks)
  BY <1>1, <1>3 DEF SameLeaves, Leaves
<1> QED  BY <1>1, <1>4 DEF ks

(* The leaves stay, and an entry is stored that is in one of them. *)
LEMMA ChainStays ==
  ASSUME ChainOK, Len(nodes) \in Nat, Len(nodes') \in Nat, SameLeaves(nodes, nodes'),
         tried' = tried,
         \/ stored' = stored
         \/ stored' = stored \cup {call.entry} /\ call.at \in {"parent", "newRoot"},
         call'.at \in {"parent", "newRoot"} =>
            call.at \in {"parent", "newRoot"} /\ call'.entry = call.entry
  PROVE  ChainOK'
<1>1. PICK ns, ms, given : ns = nodes /\ ms = nodes' /\ given = tried
  OBVIOUS
<1>2. /\ SameLeaves(ns, ms) /\ Len(ns) \in Nat /\ Len(ms) \in Nat
      /\ \E d : Chained(ns, d)
      /\ Apart(ns, given)
  BY <1>1 DEF ChainOK
<1>3. (\E d : Chained(ms, d)) /\ Apart(ms, given) /\ \A e : Has(ns, e) => Has(ms, e)
  BY <1>2, SameChain
<1>4. /\ \A e \in stored : Has(ns, e)
      /\ call.at \in {"parent", "newRoot"} => Has(ns, call.entry)
  BY <1>1 DEF ChainOK
<1>5. \A e \in stored' : Has(ms, e)
  BY <1>3, <1>4
<1>6. call'.at \in {"parent", "newRoot"} => Has(ms, call'.entry)
  BY <1>3, <1>4
<1>7. nodes' = ms /\ tried' = given
  BY <1>1
<1> QED  BY <1>3, <1>5, <1>6, <1>7 DEF ChainOK

LEMMA InnerNotLeaf ==
  ASSUME NEW node, NEW k, NEW p
  PROVE  /\ ~WithChild(node, k, p).leaf
         /\ ~SplitNonLeaf(node, k, p).left.leaf /\ ~SplitNonLeaf(node, k, p).right.leaf
<1>1. \A n, q, m : ~WithChild(n, q, m).leaf
  BY DEF WithChild, NonLeaf
<1>2. \A ks, ps, level : ~NonLeaf(ks, ps, level).leaf
  BY DEF NonLeaf
<1> QED  BY <1>1, <1>2 DEF SplitNonLeaf

LEMMA EnterKeepsLeaves ==
  ASSUME IInv, EnterIntoParent
  PROVE  SameLeaves(nodes, nodes') /\ Len(nodes) \in Nat /\ Len(nodes') \in Nat
<1>1. PICK h : TreeOK(h)
  BY DEF IInv
<1>2. /\ Stands(nodes, h) /\ Len(nodes) \in Nat /\ nodes \in Seq(LeafNode \cup InnerNode)
      /\ h \in [1 .. Len(nodes) -> Nat]
  BY <1>1, TreeIs, Standing
<1> DEFINE p == call.currId
           k == call.currKey
           q == call.prevId
<1>3. call.at = "parent" /\ p \in 1 .. Len(nodes)
  BY <1>1 DEF TreeOK, CallOK, EnterIntoParent
<1>4. ~nodes[p].leaf
  <2>1. q \in 1 .. Len(nodes) /\ h[p] = h[q] + 1
    BY <1>1, <1>3 DEF TreeOK, CallOK
  <2>2. h[p] # 0
    BY <1>2, <1>3, <2>1
  <2> QED  BY <1>2, <1>3, <2>2, Standing
<1> DEFINE halves == SplitNonLeaf(nodes[p], k, q)
<1>5. \/ nodes' = nodes
      \/ nodes' = [nodes EXCEPT ![p] = WithChild(nodes[p], k, q)]
      \/ nodes' = Append([nodes EXCEPT ![p] = halves.left], halves.right)
  BY DEF EnterIntoParent, Ended
<1> HIDE DEF p, k, q, halves
<1>6. SameLeaves(nodes, nodes') /\ Len(nodes') \in Nat
  <2>1. CASE nodes' = nodes
    BY <1>2, <2>1 DEF SameLeaves
  <2>2. CASE nodes' = [nodes EXCEPT ![p] = WithChild(nodes[p], k, q)]
    <3>1. PICK a : a = WithChild(nodes[p], k, q)
      OBVIOUS
    <3>2. ~a.leaf
      BY <3>1, InnerNotLeaf
    <3> QED  BY <1>2, <1>3, <1>4, <2>2, <3>1, <3>2, LeavesStay
  <2>3. CASE nodes' = Append([nodes EXCEPT ![p] = halves.left], halves.right)
    <3>1. PICK a, b : a = halves.left /\ b = halves.right
      OBVIOUS
    <3>2. ~a.leaf /\ ~b.leaf
      BY <3>1, InnerNotLeaf DEF halves
    <3> QED  BY <1>2, <1>3, <1>4, <2>3, <3>1, <3>2, LeavesStay
  <2> QED  BY <1>5, <2>1, <2>2, <2>3
<1> QED  BY <1>2, <1>6

LEMMA NewRootKeepsLeaves ==
  ASSUME IInv, MakeNewRoot
  PROVE  SameLeaves(nodes, nodes') /\ Len(nodes) \in Nat /\ Len(nodes') \in Nat
<1>1. PICK h : TreeOK(h)
  BY DEF IInv
<1>2. Len(nodes) \in Nat /\ nodes \in Seq(LeafNode \cup InnerNode)
  BY <1>1, TreeIs
<1>3. PICK b : nodes' = Append(nodes, b) /\ ~b.leaf
  BY DEF MakeNewRoot, NonLeaf
<1> QED  BY <1>2, <1>3, LeavesStayNew

LEMMA EnterKeepsChain == ASSUME IInv, ChainOK, EnterIntoParent PROVE ChainOK'
<1>1. /\ call.at = "parent" /\ tried' = tried
      /\ stored' = stored \/ stored' = stored \cup {call.entry}
      /\ \/ call' = AtRest
         \/ \E ns, child, key, page, depth : GoUp(ns, child, key, page, depth, call.entry)
  BY DEF EnterIntoParent, Ended
<1>2. call'.at \in {"parent", "newRoot"} => call'.entry = call.entry
  BY <1>1 DEF AtRest, GoUp
<1> QED  BY <1>1, <1>2, EnterKeepsLeaves, ChainStays

LEMMA NewRootKeepsChain == ASSUME IInv, ChainOK, MakeNewRoot PROVE ChainOK'
<1>1. /\ call.at = "newRoot" /\ tried' = tried /\ call'.at = "idle"
      /\ stored' = stored \/ stored' = stored \cup {call.entry}
  BY DEF MakeNewRoot, Ended, AtRest
<1> QED  BY <1>1, NewRootKeepsLeaves, ChainStays

LEMMA NextKeepsChain == IInv /\ ChainOK /\ [Next]_vars => ChainOK'
<1> SUFFICES ASSUME IInv, ChainOK, [Next]_vars PROVE ChainOK'
  OBVIOUS
<1>1. ASSUME /\ nodes' = nodes /\ tried' = tried /\ stored' = stored
             /\ call' = call \/ call'.at \notin {"parent", "newRoot"}
      PROVE  ChainOK'
  BY <1>1 DEF ChainOK
<1>2. CASE UNCHANGED vars
  BY <1>1, <1>2 DEF vars, treeVars, historyVars
<1>3. ASSUME NEW e \in Entry, InsertEntry(e) PROVE ChainOK'
  BY <1>3, InsertKeepsChain
<1>4. CASE EnterIntoParent
  BY <1>4, EnterKeepsChain
<1>5. CASE MakeNewRoot
  BY <1>5, NewRootKeepsChain
<1>6. ASSUME NEW a \in ScanArgs, StartScan(NewScan(a)) PROVE ChainOK'
  <2>1. PICK s : s = NewScan(a)
    OBVIOUS
  <2>2. /\ nodes' = nodes /\ tried' = tried /\ stored' = stored
        /\ call'.at \notin {"parent", "newRoot"}
    BY <1>6, <2>1 DEF StartScan, Ended, AtRest
  <2> QED  BY <1>1, <2>2
<1>7. CASE SeekFirst
  <2>1. nodes' = nodes /\ tried' = tried /\ stored' = stored
    BY <1>7 DEF SeekFirst, historyVars
  <2>2. call' = call \/ call' = AtRest
    BY <1>7 DEF SeekFirst, Ended
  <2> QED  BY <1>1, <2>1, <2>2 DEF AtRest
<1>8. CASE ScanNext
  <2>1. nodes' = nodes /\ tried' = tried /\ stored' = stored
    BY <1>8 DEF ScanNext
  <2>2. call' = AtRest
    BY <1>8 DEF ScanNext, Ended, Yields
  <2> QED  BY <1>1, <2>1, <2>2 DEF AtRest
<1>9. CASE EndScan
  BY <1>1, <1>9 DEF EndScan, Ended, AtRest
<1>10. CASE Reopen
  BY <1>1, <1>10 DEF Reopen, Ended, AtRest
<1> QED  BY <1>2, <1>3, <1>4, <1>5, <1>6, <1>7, <1>8, <1>9, <1>10 DEF Next

(* The leaves are a chain from page 1 on, on which the entries of stored   *)
(* are, and that of an insertEntry that has still to reach the parents.    *)
THEOREM ChainInvariance == Spec => []ChainOK
<1>1. Spec => []IInv
  BY Invariance
<1>2. Init => ChainOK
  BY InitChainOK
<1>3. IInv /\ ChainOK /\ [Next]_vars => ChainOK'
  BY NextKeepsChain
<1> QED  BY <1>1, <1>2, <1>3, PTL DEF Spec

(* The entries of the leaves up to n from the right end, each once. *)
Walked(w, n, d) ==
    /\ w \in Seq(Entry) /\ IsInjective(w)
    /\ \A x : x \in ToSet(w) <=> \E q \in Leaves(nodes) : d[q] <= n /\ x \in EntriesIn(nodes, q)

(* One leaf more: p has the entries s, and right of it are those of t. *)
LEMMA WalkedOn ==
  ASSUME NEW d, Chained(nodes, d), NEW given, Apart(nodes, given),
         NEW p \in Leaves(nodes), NEW s \in Seq(Entry), s = nodes[p].entries,
         NEW n \in Nat, d[p] = n + 1, NEW t, Walked(t, n, d)
  PROVE  Walked(s \o t, d[p], d)
<1>1. /\ \A q \in Leaves(nodes) : d[q] \in Nat
      /\ \A q \in Leaves(nodes) : d[q] = d[p] => q = p
  BY DEF Chained, Leaves
<1>2. /\ t \in Seq(Entry) /\ IsInjective(t) /\ IsInjective(s) /\ ToSet(s) = EntriesIn(nodes, p)
      /\ \A x : x \in ToSet(t) <=> \E q \in Leaves(nodes) : d[q] <= n /\ x \in EntriesIn(nodes, q)
  BY DEF Walked, Apart, EntriesIn
<1>3. \A q \in Leaves(nodes) : d[q] <= d[p] <=> (d[q] <= n \/ q = p)
  <2> SUFFICES ASSUME NEW q \in Leaves(nodes) PROVE d[q] <= d[p] <=> (d[q] <= n \/ q = p)
    OBVIOUS
  <2>1. d[q] \in Nat /\ d[p] = n + 1 /\ (d[q] = d[p] => q = p)
    BY <1>1
  <2> QED  BY <2>1
<1>4. ToSet(s) \cap ToSet(t) = {}
  <2> SUFFICES ASSUME NEW x \in ToSet(s), x \in ToSet(t) PROVE FALSE
    OBVIOUS
  <2>1. PICK q \in Leaves(nodes) : d[q] <= n /\ x \in EntriesIn(nodes, q)
    BY <1>2
  <2>2. q # p
    BY <1>1, <2>1
  <2>3. EntriesIn(nodes, q) \cap EntriesIn(nodes, p) = {}
    BY <2>2 DEF Apart
  <2> QED  BY <1>2, <2>1, <2>3
<1>5. s \o t \in Seq(Entry) /\ IsInjective(s \o t) /\ ToSet(s \o t) = ToSet(s) \cup ToSet(t)
  BY <1>2, <1>4, Joined
<1>6. ASSUME NEW x
      PROVE  x \in ToSet(s) \cup ToSet(t) <=>
             \E q \in Leaves(nodes) : d[q] <= d[p] /\ x \in EntriesIn(nodes, q)
  BY <1>2, <1>3
<1> QED  BY <1>5, <1>6 DEF Walked

(* The walk along the chain comes by every leaf. *)
LEMMA ChainIs ==
  ASSUME DOMAIN nodes = 1 .. Len(nodes),
         \A p \in Leaves(nodes) : nodes[p].entries \in Seq(Entry),
         NEW d, Chained(nodes, d), NEW given, Apart(nodes, given)
  PROVE  Walked(ChainEntries, d[1], d)
<1> DEFINE L == Leaves(nodes)
           T == Seq(Entry)
           entries(p) == nodes[p].entries
           right(p) == nodes[p].right
           r == [p \in L |-> d[p]]
           stop == {p \in L : right(p) = NoPage}
           base == [p \in stop |-> entries(p) \o <<>>]
           nxt == [p \in L |-> right(p)]
           comb == [y \in L \X T |-> entries(y[1]) \o y[2]]
           IsFrom(f) == f = [p \in {q \in Page : nodes[q].leaf} |->
               nodes[p].entries \o IF nodes[p].right = NoPage THEN <<>> ELSE f[nodes[p].right]]
           from[p \in {q \in Page : nodes[q].leaf}] ==
               nodes[p].entries \o IF nodes[p].right = NoPage THEN <<>> ELSE from[nodes[p].right]
<1>1. {q \in Page : nodes[q].leaf} = L
  BY DEF Page, Leaves
<1>2. /\ 1 \in L /\ \A p \in L : d[p] \in Nat /\ d[p] <= d[1] /\ entries(p) \in T
      /\ \A p \in L : IF right(p) = NoPage THEN d[p] = 0
                      ELSE right(p) \in L /\ d[p] = d[right(p)] + 1
      /\ \A p, q \in L : d[p] = d[q] => p = q
  BY DEF Chained, Leaves
<1>3. ChainEntries = from[1]
  BY DEF ChainEntries
<1>4. from = CHOOSE g : IsFrom(g)
  OBVIOUS
<1> HIDE DEF L, from, entries, right
<1>5. \E f : IsFrom(f)
  <2>1. base \in [stop -> T]
    BY <1>2
  <2>2. /\ r \in [L -> Nat] /\ d[1] \in Nat /\ \A x \in L : r[x] <= d[1]
    BY <1>2
  <2>3. \A x \in L \ stop : nxt[x] \in L /\ r[nxt[x]] < r[x]
    <3> SUFFICES ASSUME NEW x \in L \ stop PROVE nxt[x] \in L /\ r[nxt[x]] < r[x]
      OBVIOUS
    <3>1. x \in L /\ right(x) # NoPage
      OBVIOUS
    <3>2. right(x) \in L /\ d[x] = d[right(x)] + 1 /\ d[right(x)] \in Nat
      BY <1>2, <3>1
    <3> QED  BY <3>1, <3>2
  <2>4. comb \in [L \X T -> T] /\ stop \in SUBSET L
    BY <1>2
  <2> HIDE DEF T, r, stop, base, nxt, comb
  <2>5. PICK f \in [L -> T] : Unfolded(f, L, stop, base, nxt, comb)
    BY <2>1, <2>2, <2>3, <2>4, Unfolds
  <2>6. ASSUME NEW p \in L
        PROVE  f[p] = entries(p) \o IF right(p) = NoPage THEN <<>> ELSE f[right(p)]
    <3>1. f[p] = IF p \in stop THEN base[p] ELSE comb[<<p, f[nxt[p]]>>]
      BY <2>5 DEF Unfolded
    <3>2. CASE p \in stop
      BY <3>1, <3>2 DEF stop, base
    <3>3. CASE p \notin stop
      <4>1. nxt[p] = right(p) /\ f[right(p)] \in T /\ right(p) # NoPage
        BY <1>2, <2>5, <3>3 DEF nxt, stop
      <4>2. comb[<<p, f[right(p)]>>] = entries(p) \o f[right(p)]
        BY <4>1 DEF comb
      <4> QED  BY <3>1, <3>3, <4>1, <4>2
    <3> QED  BY <3>2, <3>3
  <2>7. f = [p \in L |-> f[p]]
    OBVIOUS
  <2>8. f = [p \in L |-> entries(p) \o IF right(p) = NoPage THEN <<>> ELSE f[right(p)]]
    BY <2>6, <2>7
  <2>9. IsFrom(f)
    BY <1>1, <2>8 DEF entries, right
  <2> QED  BY <2>9
<1> HIDE DEF IsFrom
<1>6. IsFrom(from)
  BY <1>4, <1>5
<1>7. \A p \in L : from[p] = entries(p) \o IF right(p) = NoPage THEN <<>> ELSE from[right(p)]
  BY <1>1, <1>6 DEF IsFrom, entries, right
<1>8. \A p \in L : Walked(from[p], d[p], d)
  <2> DEFINE Bad == {d[p] : p \in {q \in L : ~Walked(from[q], d[q], d)}}
  <2> SUFFICES ASSUME Bad # {} PROVE FALSE
    OBVIOUS
  <2>1. PICK m \in Bad : \A n \in Bad : m <= n
    <3>1. Bad \in SUBSET Nat
      BY <1>2
    <3> HIDE DEF Bad
    <3> QED  BY <3>1, LeastNumber
  <2>2. PICK p \in L : d[p] = m /\ ~Walked(from[p], d[p], d)
    BY <2>1
  <2>3. PICK s \in T : s = entries(p)
    BY <1>2
  <2>4. p \in Leaves(nodes) /\ s = nodes[p].entries
    BY <2>2, <2>3 DEF L, entries
  <2>5. CASE right(p) = NoPage
    <3>1. d[p] = 0 /\ from[p] = s \o <<>>
      BY <1>2, <1>7, <2>3, <2>5
    <3>2. s \o <<>> = s
      OBVIOUS
    <3>3. IsInjective(s) /\ ToSet(s) = EntriesIn(nodes, p)
      BY <2>4 DEF Apart, EntriesIn
    <3>4. \A q \in Leaves(nodes) : d[q] <= 0 <=> q = p
      BY <1>2, <3>1 DEF L
    <3>5. Walked(s, 0, d)
      BY <2>4, <3>3, <3>4 DEF Walked
    <3> QED  BY <2>2, <3>1, <3>2, <3>5
  <2>6. CASE right(p) # NoPage
    <3>1. PICK q \in L : q = right(p) /\ d[p] = d[q] + 1 /\ d[q] \in Nat
      BY <1>2, <2>6
    <3>2. from[p] = s \o from[q]
      BY <1>7, <2>3, <2>6, <3>1
    <3>3. d[q] \notin Bad
      <4> HIDE DEF Bad
      <4>1. d[q] \in Bad => d[p] <= d[q]
        BY <2>1, <2>2
      <4> QED  BY <3>1, <4>1
    <3>4. Walked(from[q], d[q], d)
      BY <3>1, <3>3
    <3>5. PICK n, t : n = d[q] /\ t = from[q]
      OBVIOUS
    <3>6. n \in Nat /\ d[p] = n + 1 /\ Walked(t, n, d)
      BY <3>1, <3>4, <3>5
    <3>7. Walked(s \o t, d[p], d)
      BY <2>4, <3>6, WalkedOn
    <3> QED  BY <2>2, <3>2, <3>5, <3>7
  <2> QED  BY <2>5, <2>6
<1> QED  BY <1>2, <1>3, <1>8

(* No entry is lost or is there twice, whatever was split and wherever an  *)
(* insertEntry ran out of frames: what insertEntry returned for is on the  *)
(* chain of leaves, once, and nothing else but what it was called with.    *)
THEOREM NoneLost == Spec => []NoEntryLost
<1>1. IInv /\ ChainOK => NoEntryLost
  <2> SUFFICES ASSUME IInv, ChainOK PROVE NoEntryLost
    OBVIOUS
  <2>1. PICK h : Stands(nodes, h)
    BY DEF IInv, TreeOK
  <2>2. /\ DOMAIN nodes = 1 .. Len(nodes)
        /\ \A p \in Leaves(nodes) : nodes[p].entries \in Seq(Entry)
    <3>1. \A p \in Leaves(nodes) : NodeFits(nodes[p], Len(nodes)) /\ nodes[p].leaf
      BY <2>1, Standing DEF Leaves
    <3> QED  BY <2>1, <3>1, Standing, LeafFits
  <2>3. PICK d : Chained(nodes, d)
    BY DEF ChainOK
  <2>4. Apart(nodes, tried)
    BY DEF ChainOK
  <2>5. PICK given : given = tried
    OBVIOUS
  <2>6. Walked(ChainEntries, d[1], d)
    BY <2>2, <2>3, <2>4, <2>5, ChainIs
  <2>7. PICK all : all = ChainEntries
    OBVIOUS
  <2>8. IsInjective(all) /\ \A x : x \in ToSet(all) <=> Has(nodes, x)
    BY <2>3, <2>6, <2>7 DEF Walked, Chained, Has
  <2>9. \A x : Has(nodes, x) => x \in tried
    BY <2>4 DEF Has, Apart
  <2>10. \A x \in stored : Has(nodes, x)
    BY DEF ChainOK
  <2> QED  BY <2>7, <2>8, <2>9, <2>10 DEF NoEntryLost
<1>2. Spec => []IInv
  BY Invariance
<1>3. Spec => []ChainOK
  BY ChainInvariance
<1> QED  BY <1>1, <1>2, <1>3, PTL
=============================================================================

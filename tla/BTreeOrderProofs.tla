-------------------------- MODULE BTreeOrderProofs --------------------------
(***************************************************************************)
(* Proofs about the order of the keys in BTreeIndex: that a search comes   *)
(* to the leaf that has the key, and that a scan is complete, as long as   *)
(* the keys are different and no non-leaf node is split by a key below     *)
(* the one that moves up.                                                  *)
(***************************************************************************)
EXTENDS BTreeProofs

-----------------------------------------------------------------------------
(* findIndex among the keys of a node. *)

Ascending(keys) == \A i, j \in DOMAIN keys : i < j => keys[i] < keys[j]

LEMMA KeysAreInts ==
  ASSUME NEW keys \in Seq(Key)
  PROVE  keys \in Seq(Int)
<1>1. \A i \in 1 .. Len(keys) : keys[i] \in Key
  OBVIOUS
<1>2. \A i \in 1 .. Len(keys) : keys[i] \in Int
  BY <1>1, KeysAreNumbers
<1> QED  BY <1>2

(* k passes the first j of n keys and not the next. *)
Stops(keys, n, k, j) ==
    /\ j \in 0 .. n
    /\ \A i \in 1 .. j : k >= keys[i]
    /\ j < n => ~(k >= keys[j + 1])

LEMMA StopsAt ==
  ASSUME NEW keys, NEW n \in Nat, DOMAIN keys = 1 .. n, NEW k, NEW j, Stops(keys, n, k, j)
  PROVE  FindIndex(keys, k) = j
<1> DEFINE Passed == {i \in DOMAIN keys : \A m \in 1 .. i : k >= keys[m]}
<1>1. j \in Nat /\ j <= n
  BY DEF Stops
<1>2. Passed = 1 .. j
  <2>1. ASSUME NEW i \in 1 .. n, i <= j PROVE i \in Passed
    BY <1>1, <2>1 DEF Stops
  <2>2. ASSUME NEW i \in 1 .. n, ~(i <= j) PROVE i \notin Passed
    <3>1. j < n /\ j + 1 \in 1 .. i
      BY <1>1, <2>2
    <3> QED  BY <3>1 DEF Stops
  <2> QED  BY <1>1, <2>1, <2>2
<1>3. Cardinality(1 .. j) = j
  BY <1>1, FS_Interval
<1> QED  BY <1>2, <1>3 DEF FindIndex

LEMMA FindIndexStops ==
  ASSUME NEW keys, NEW n \in Nat, DOMAIN keys = 1 .. n, NEW k
  PROVE  Stops(keys, n, k, FindIndex(keys, k))
<1> DEFINE T == {j \in 0 .. n : j = n \/ ~(k >= keys[j + 1])}
<1>1. T \in SUBSET Nat /\ n \in T
  OBVIOUS
<1>2. PICK j \in T : \A i \in T : j <= i
  BY <1>1, LeastNumber
<1>3. j \in 0 .. n /\ (j < n => ~(k >= keys[j + 1]))
  OBVIOUS
<1>4. ASSUME NEW i \in 1 .. j PROVE k >= keys[i]
  <2>1. i - 1 \in 0 .. n /\ ~(j <= i - 1) /\ (i - 1) + 1 = i
    BY <1>3
  <2>2. i - 1 \notin T
    BY <1>2, <2>1
  <2> QED  BY <2>1, <2>2
<1>5. Stops(keys, n, k, j)
  BY <1>3, <1>4 DEF Stops
<1> QED  BY <1>5, StopsAt

(* In ascending keys findIndex counts the keys that are not above k.       *)
LEMMA FindIndexCounts ==
  ASSUME NEW keys \in Seq(Int), Ascending(keys), NEW k \in Int, NEW j \in 1 .. Len(keys)
  PROVE  FindIndex(keys, k) >= j <=> k >= keys[j]
<1> DEFINE n == Len(keys)
           f == FindIndex(keys, k)
<1>1. n \in Nat /\ DOMAIN keys = 1 .. n /\ \A i \in 1 .. n : keys[i] \in Int
  OBVIOUS
<1>2. /\ f \in 0 .. n /\ \A i \in 1 .. f : k >= keys[i]
      /\ f < n => ~(k >= keys[f + 1])
  BY <1>1, FindIndexStops DEF Stops
<1> HIDE DEF n, f
<1>3. CASE f >= j
  <2>1. j \in 1 .. f
    BY <1>2, <1>3
  <2> QED  BY <1>2, <1>3, <2>1 DEF f
<1>4. CASE ~(f >= j)
  <2>1. f < n /\ f + 1 \in 1 .. n /\ f + 1 <= j /\ j \in 1 .. n
    BY <1>1, <1>2, <1>4 DEF n
  <2>2. f + 1 = j \/ keys[f + 1] < keys[j]
    BY <1>1, <2>1 DEF Ascending
  <2> QED  BY <1>1, <1>2, <1>4, <2>1, <2>2 DEF f
<1> QED  BY <1>3, <1>4 DEF f

(* A key that is put in its place is found there by those not below it.    *)
LEMMA FindIndexPlaced ==
  ASSUME NEW keys \in Seq(Int), NEW k \in Int, NEW x \in Int, NEW new,
         new = InsertAt(keys, FindIndex(keys, k) + 1, k)
  PROVE  /\ x < k => /\ FindIndex(new, x) = FindIndex(keys, x)
                     /\ FindIndex(keys, x) <= FindIndex(keys, k)
         /\ x >= k => /\ FindIndex(new, x) = FindIndex(keys, x) + 1
                      /\ FindIndex(keys, x) >= FindIndex(keys, k)
<1> DEFINE n == Len(keys)
<1>1. n \in Nat /\ DOMAIN keys = 1 .. n /\ \A i \in 1 .. n : keys[i] \in Int
  OBVIOUS
<1>2. PICK i, f : i = FindIndex(keys, k) /\ f = FindIndex(keys, x)
  OBVIOUS
<1>3. /\ i \in 0 .. n /\ \A m \in 1 .. i : k >= keys[m]
      /\ i < n => ~(k >= keys[i + 1])
  BY <1>1, <1>2, FindIndexStops DEF Stops
<1>4. /\ f \in 0 .. n /\ \A m \in 1 .. f : x >= keys[m]
      /\ f < n => ~(x >= keys[f + 1])
  BY <1>1, <1>2, FindIndexStops DEF Stops
<1>5. i + 1 \in 1 .. Len(keys) + 1
  BY <1>3
<1>6. new \in Seq(Int) /\ Len(new) = n + 1 /\ SpreadBy(new, keys, i + 1, k)
  BY <1>2, <1>5, Inserted
<1>7. DOMAIN new = 1 .. n + 1
  BY <1>6
<1>8. \A m \in 1 .. n + 1 : new[m] = IF m < i + 1 THEN keys[m] ELSE IF m = i + 1 THEN k ELSE keys[m - 1]
  BY <1>6 DEF SpreadBy
<1> HIDE DEF n
<1>9. ASSUME x < k PROVE f <= i /\ FindIndex(new, x) = f
  <2>1. f <= i
    <3> SUFFICES ASSUME ~(f <= i) PROVE FALSE
      OBVIOUS
    <3>1. i < n /\ i + 1 \in 1 .. f /\ i + 1 \in 1 .. n
      BY <1>1, <1>3, <1>4
    <3> QED  BY <1>1, <1>3, <1>4, <1>9, <3>1
  <2>2. \A m \in 1 .. f : new[m] = keys[m]
    BY <1>1, <1>3, <1>4, <1>8, <2>1
  <2>3. ~(x >= new[f + 1])
    <3>1. CASE f = i
      <4>1. new[f + 1] = k
        BY <1>1, <1>3, <1>8, <3>1
      <4> QED  BY <1>9, <4>1
    <3>2. CASE f # i
      <4>1. f < n /\ f + 1 \in 1 .. n + 1 /\ f + 1 < i + 1
        BY <1>1, <1>3, <1>4, <2>1, <3>2
      <4>2. new[f + 1] = keys[f + 1]
        BY <1>8, <4>1
      <4> QED  BY <1>4, <4>1, <4>2
    <3> QED  BY <3>1, <3>2
  <2>4. Stops(new, n + 1, x, f)
    BY <1>1, <1>4, <2>2, <2>3 DEF Stops
  <2> QED  BY <1>1, <1>7, <2>1, <2>4, StopsAt
<1>10. ASSUME x >= k PROVE f >= i /\ FindIndex(new, x) = f + 1
  <2>1. f >= i
    <3> SUFFICES ASSUME ~(f >= i) PROVE FALSE
      OBVIOUS
    <3>1. f < n /\ f + 1 \in 1 .. i /\ f + 1 \in 1 .. n
      BY <1>1, <1>3, <1>4
    <3> QED  BY <1>1, <1>3, <1>4, <1>10, <3>1
  <2>2. \A m \in 1 .. f + 1 : x >= new[m]
    <3> SUFFICES ASSUME NEW m \in 1 .. f + 1 PROVE x >= new[m]
      OBVIOUS
    <3>1. m \in 1 .. n + 1
      BY <1>1, <1>4
    <3>2. CASE m < i + 1
      BY <1>3, <1>4, <1>8, <2>1, <3>1, <3>2
    <3>3. CASE m = i + 1
      BY <1>8, <1>10, <3>1, <3>3
    <3>4. CASE m > i + 1
      <4>1. m - 1 \in 1 .. f /\ new[m] = keys[m - 1]
        BY <1>3, <1>4, <1>8, <3>1, <3>4
      <4> QED  BY <1>4, <4>1
    <3> QED  BY <1>3, <3>2, <3>3, <3>4
  <2>3. f + 1 < n + 1 => ~(x >= new[(f + 1) + 1])
    <3> SUFFICES ASSUME f + 1 < n + 1 PROVE ~(x >= new[(f + 1) + 1])
      OBVIOUS
    <3>1. (f + 1) + 1 \in 1 .. n + 1 /\ (f + 1) + 1 > i + 1 /\ ((f + 1) + 1) - 1 = f + 1 /\ f < n
      BY <1>1, <1>3, <1>4, <2>1
    <3>2. new[(f + 1) + 1] = keys[f + 1]
      BY <1>3, <1>8, <3>1
    <3> QED  BY <1>4, <3>1, <3>2
  <2>4. Stops(new, n + 1, x, f + 1)
    BY <1>1, <1>4, <2>2, <2>3 DEF Stops
  <2> QED  BY <1>1, <1>7, <2>1, <2>4, StopsAt
<1> QED  BY <1>2, <1>9, <1>10

(* In the first part of the keys, and in what is left of them.             *)
LEMMA FindIndexLeft ==
  ASSUME NEW keys \in Seq(Int), NEW m \in 0 .. Len(keys), NEW x \in Int
  PROVE  FindIndex(SubSeq(keys, 1, m), x) =
            IF FindIndex(keys, x) <= m THEN FindIndex(keys, x) ELSE m
<1> DEFINE n == Len(keys)
<1>1. n \in Nat /\ DOMAIN keys = 1 .. n /\ m \in 0 .. n
  OBVIOUS
<1>2. PICK f : f = FindIndex(keys, x)
  OBVIOUS
<1>3. /\ f \in 0 .. n /\ \A i \in 1 .. f : x >= keys[i]
      /\ f < n => ~(x >= keys[f + 1])
  BY <1>1, <1>2, FindIndexStops DEF Stops
<1>4. PICK part : part = SubSeq(keys, 1, m)
  OBVIOUS
<1>5. DOMAIN part = 1 .. m /\ \A i \in 1 .. m : part[i] = keys[i]
  BY <1>4, Halves
<1> HIDE DEF n
<1>6. PICK g : g = IF f <= m THEN f ELSE m
  OBVIOUS
<1>7. Stops(part, m, x, g)
  <2>1. g \in 0 .. m /\ g <= f
    BY <1>1, <1>3, <1>6
  <2>2. \A i \in 1 .. g : x >= part[i]
    BY <1>1, <1>3, <1>5, <2>1
  <2>3. g < m => ~(x >= part[g + 1])
    <3> SUFFICES ASSUME g < m PROVE ~(x >= part[g + 1])
      OBVIOUS
    <3>1. g = f /\ f < n /\ f + 1 \in 1 .. m
      BY <1>1, <1>3, <1>6
    <3> QED  BY <1>3, <1>5, <3>1
  <2> QED  BY <2>1, <2>2, <2>3 DEF Stops
<1>8. m \in Nat
  BY <1>1
<1> QED  BY <1>2, <1>4, <1>5, <1>6, <1>7, <1>8, StopsAt

LEMMA FindIndexRight ==
  ASSUME NEW keys \in Seq(Int), NEW m \in 0 .. Len(keys), NEW x \in Int,
         FindIndex(keys, x) >= m
  PROVE  FindIndex(SubSeq(keys, m + 1, Len(keys)), x) = FindIndex(keys, x) - m
<1> DEFINE n == Len(keys)
<1>1. n \in Nat /\ DOMAIN keys = 1 .. n /\ m \in 0 .. n
  OBVIOUS
<1>2. PICK f : f = FindIndex(keys, x)
  OBVIOUS
<1>3. /\ f \in 0 .. n /\ \A i \in 1 .. f : x >= keys[i]
      /\ f < n => ~(x >= keys[f + 1])
  BY <1>1, <1>2, FindIndexStops DEF Stops
<1>4. PICK part : part = SubSeq(keys, m + 1, n)
  OBVIOUS
<1>5. DOMAIN part = 1 .. n - m /\ \A i \in 1 .. n - m : part[i] = keys[m + i]
  BY <1>4, Halves
<1> HIDE DEF n
<1>6. f >= m
  BY <1>2
<1>7. Stops(part, n - m, x, f - m)
  <2>1. f - m \in 0 .. n - m
    BY <1>1, <1>3, <1>6
  <2>2. \A i \in 1 .. f - m : x >= part[i]
    <3> SUFFICES ASSUME NEW i \in 1 .. f - m PROVE x >= part[i]
      OBVIOUS
    <3>1. i \in 1 .. n - m /\ m + i \in 1 .. f
      BY <1>1, <1>3, <1>6
    <3> QED  BY <1>3, <1>5, <3>1
  <2>3. f - m < n - m => ~(x >= part[(f - m) + 1])
    <3> SUFFICES ASSUME f - m < n - m PROVE ~(x >= part[(f - m) + 1])
      OBVIOUS
    <3>1. f < n /\ (f - m) + 1 \in 1 .. n - m /\ m + ((f - m) + 1) = f + 1
      BY <1>1, <1>3, <1>6
    <3> QED  BY <1>3, <1>5, <3>1
  <2> QED  BY <2>1, <2>2, <2>3 DEF Stops
<1>8. n - m \in Nat
  BY <1>1
<1> QED  BY <1>2, <1>4, <1>5, <1>7, <1>8, StopsAt DEF n

LEMMA SomewhereInIt ==
  ASSUME NEW keys \in Seq(Int), NEW k \in Int
  PROVE  FindIndex(keys, k) \in 0 .. Len(keys)
BY FindIndexIs

(* The parts of ascending keys ascend.                                     *)
LEMMA AscendingParts ==
  ASSUME NEW keys \in Seq(Int), Ascending(keys), NEW m \in 0 .. Len(keys)
  PROVE  /\ Ascending(SubSeq(keys, 1, m)) /\ SubSeq(keys, 1, m) \in Seq(Int)
         /\ Ascending(SubSeq(keys, m + 1, Len(keys)))
         /\ SubSeq(keys, m + 1, Len(keys)) \in Seq(Int)
<1>1. PICK l, r : l = SubSeq(keys, 1, m) /\ r = SubSeq(keys, m + 1, Len(keys))
  OBVIOUS
<1>2. /\ l \in Seq(Int) /\ DOMAIN l = 1 .. m
      /\ r \in Seq(Int) /\ DOMAIN r = 1 .. Len(keys) - m
      /\ \A j \in 1 .. m : l[j] = keys[j]
      /\ \A j \in 1 .. Len(keys) - m : r[j] = keys[m + j]
  BY <1>1, Halves
<1>3. Ascending(l)
  <2>1. ASSUME NEW i \in 1 .. m, NEW j \in 1 .. m, i < j PROVE l[i] < l[j]
    <3>1. i \in DOMAIN keys /\ j \in DOMAIN keys
      OBVIOUS
    <3> QED  BY <1>2, <2>1, <3>1 DEF Ascending
  <2> QED  BY <1>2, <2>1 DEF Ascending
<1>4. ASSUME NEW i \in 1 .. Len(keys) - m, NEW j \in 1 .. Len(keys) - m, i < j
      PROVE  r[i] < r[j]
  <2>1. m + i \in DOMAIN keys /\ m + j \in DOMAIN keys /\ m + i < m + j
    BY <1>4
  <2> QED  BY <1>2, <2>1 DEF Ascending
<1>5. Ascending(r)
  BY <1>2, <1>4 DEF Ascending
<1> QED  BY <1>1, <1>2, <1>3, <1>5

(* Ascending keys ascend with a new key in its place. *)
LEMMA AscendingPlaced ==
  ASSUME NEW keys \in Seq(Int), Ascending(keys), NEW k \in Int, k \notin ToSet(keys), NEW new,
         new = InsertAt(keys, FindIndex(keys, k) + 1, k)
  PROVE  Ascending(new) /\ new \in Seq(Int) /\ ToSet(new) = ToSet(keys) \cup {k}
<1> DEFINE n == Len(keys)
<1>1. n \in Nat /\ DOMAIN keys = 1 .. n /\ \A i \in 1 .. n : keys[i] \in Int
  OBVIOUS
<1>2. PICK f : f = FindIndex(keys, k)
  OBVIOUS
<1>3. /\ f \in 0 .. n /\ \A m \in 1 .. f : k >= keys[m]
      /\ f < n => ~(k >= keys[f + 1])
  BY <1>1, <1>2, FindIndexStops DEF Stops
<1>4. f + 1 \in 1 .. Len(keys) + 1
  BY <1>3
<1>5. new \in Seq(Int) /\ Len(new) = n + 1 /\ SpreadBy(new, keys, f + 1, k)
  BY <1>2, <1>4, Inserted
<1>6. ToSet(new) = ToSet(keys) \cup {k}
  BY <1>2, <1>4, InsertedSet
<1>7. \A m \in 1 .. n + 1 : new[m] = IF m < f + 1 THEN keys[m] ELSE IF m = f + 1 THEN k ELSE keys[m - 1]
  BY <1>5 DEF SpreadBy
<1>8. \A m \in 1 .. n : k # keys[m]
  BY SetOf
<1> HIDE DEF n
<1>9. \A m \in 1 .. f : keys[m] < k
  BY <1>1, <1>3, <1>8
<1>10. \A m \in 1 .. n : m >= f + 1 => k < keys[m]
  <2> SUFFICES ASSUME NEW m \in 1 .. n, m >= f + 1 PROVE k < keys[m]
    OBVIOUS
  <2>1. f < n /\ f + 1 \in 1 .. n
    BY <1>1, <1>3
  <2>2. f + 1 = m \/ keys[f + 1] < keys[m]
    BY <1>1, <2>1 DEF Ascending
  <2> QED  BY <1>1, <1>3, <2>1, <2>2
<1>11. ASSUME NEW i \in 1 .. n + 1, NEW j \in 1 .. n + 1, i < j PROVE new[i] < new[j]
  <2>1. CASE j < f + 1
    <3>1. i \in 1 .. n /\ j \in 1 .. n /\ new[i] = keys[i] /\ new[j] = keys[j]
      BY <1>1, <1>3, <1>7, <1>11, <2>1
    <3> QED  BY <1>1, <1>11, <3>1 DEF Ascending
  <2>2. CASE j = f + 1
    <3>1. i \in 1 .. f /\ new[i] = keys[i] /\ new[j] = k
      BY <1>1, <1>3, <1>7, <1>11, <2>2
    <3> QED  BY <1>9, <3>1
  <2>3. CASE j > f + 1 /\ i < f + 1
    <3>1. i \in 1 .. n /\ j - 1 \in 1 .. n /\ i < j - 1 /\ new[i] = keys[i] /\ new[j] = keys[j - 1]
      BY <1>1, <1>3, <1>7, <1>11, <2>3
    <3> QED  BY <1>1, <3>1 DEF Ascending
  <2>4. CASE j > f + 1 /\ i = f + 1
    <3>1. j - 1 \in 1 .. n /\ j - 1 >= f + 1 /\ new[i] = k /\ new[j] = keys[j - 1]
      BY <1>1, <1>3, <1>7, <1>11, <2>4
    <3> QED  BY <1>10, <3>1
  <2>5. CASE i > f + 1
    <3>1. i - 1 \in 1 .. n /\ j - 1 \in 1 .. n /\ i - 1 < j - 1 /\ new[i] = keys[i - 1]
          /\ new[j] = keys[j - 1]
      BY <1>1, <1>3, <1>7, <1>11, <2>5
    <3> QED  BY <1>1, <3>1 DEF Ascending
  <2> QED  BY <1>3, <1>11, <2>1, <2>2, <2>3, <2>4, <2>5
<1>12. DOMAIN new = 1 .. n + 1
  BY <1>5
<1> QED  BY <1>5, <1>6, <1>11, <1>12 DEF Ascending

-----------------------------------------------------------------------------
(* The keys of a node and the pages below it. *)

(* A node on the way of the keys in S has keys of these, in order, and W   *)
(* gives for each of its children the keys that findIndex sends there.     *)
Keeps(node, S, W) ==
    /\ Ascending(Keys(node)) /\ ToSet(Keys(node)) \subseteq S
    /\ ~node.leaf => \A i \in DOMAIN node.pages :
          W[node.pages[i]] = {k \in S : FindIndex(node.keys, k) = i - 1}

(* Of the keys that W gives page c, page q has those from k on. *)
Parted(W, R, c, q, k) ==
    /\ R[c] = {x \in W[c] : x < k} /\ R[c] # {}
    /\ R[q] = {x \in W[c] : x >= k} /\ k \in R[q]

LEMMA InnerKeys ==
  ASSUME NEW ks, NEW ps, NEW level, NEW S, NEW W,
         Ascending(ks), ToSet(ks) \subseteq S,
         \A i \in DOMAIN ps : W[ps[i]] = {k \in S : FindIndex(ks, k) = i - 1}
  PROVE  Keeps(NonLeaf(ks, ps, level), S, W)
BY DEF Keeps, NonLeaf, Keys

LEMMA InnerKeeps ==
  ASSUME NEW node \in InnerNode, NEW S, NEW W, Keeps(node, S, W)
  PROVE  /\ Ascending(node.keys) /\ ToSet(node.keys) \subseteq S
         /\ \A i \in DOMAIN node.pages :
               W[node.pages[i]] = {k \in S : FindIndex(node.keys, k) = i - 1}
BY InnerFields DEF Keeps, Keys

(* A node takes a new page to the right of the one it was split off.       *)
LEMMA ChildKept ==
  ASSUME NEW node, NEW n \in Nat, NEW pages, InnerWith(node, n, pages),
         NEW S \in SUBSET Int, NEW W, Keeps(node, S, W), NEW k \in Key, NEW q \in Nat,
         NEW c \in ToSet(node.pages), NEW R, Parted(W, R, c, q, k),
         \A r \in ToSet(node.pages) : r # c => R[r] = W[r]
  PROVE  Keeps(WithChild(node, k, q), S, R)
<1>1. PICK keys, ps, N : keys = node.keys /\ ps = node.pages /\ N = n
  OBVIOUS
<1>2. /\ node \in InnerNode /\ keys \in Seq(Key) /\ Len(keys) = n
      /\ ps \in Seq(Nat) /\ Len(ps) = n + 1
  BY <1>1, InnerFields DEF InnerWith
<1>3. /\ Ascending(keys) /\ ToSet(keys) \subseteq S
      /\ \A i \in 1 .. n + 1 : W[ps[i]] = {x \in S : FindIndex(keys, x) = i - 1}
  <2>1. /\ Ascending(keys) /\ ToSet(keys) \subseteq S
        /\ \A i \in DOMAIN ps : W[ps[i]] = {x \in S : FindIndex(keys, x) = i - 1}
    BY <1>1, <1>2, InnerKeeps
  <2>2. DOMAIN ps = 1 .. n + 1
    BY <1>2
  <2> QED  BY <2>1, <2>2
<1>4. keys \in Seq(Int) /\ k \in Int
  BY <1>2, KeysAreNumbers
<1>5. PICK s \in 1 .. n + 1 : c = ps[s]
  BY <1>1, <1>2, SetOf
<1>6. W[c] = {x \in S : FindIndex(keys, x) = s - 1}
  BY <1>3, <1>5
<1>7. k \in S /\ FindIndex(keys, k) = s - 1
  BY <1>6 DEF Parted
<1>8. PICK y \in S : y < k /\ FindIndex(keys, y) = s - 1
  BY <1>6 DEF Parted
<1>9. k \notin ToSet(keys)
  <2> SUFFICES ASSUME k \in ToSet(keys) PROVE FALSE
    OBVIOUS
  <2>1. PICK j \in 1 .. Len(keys) : k = keys[j]
    BY <1>4, SetOf
  <2>2. FindIndex(keys, k) >= j
    BY <1>3, <1>4, <2>1, FindIndexCounts
  <2>3. y >= keys[j]
    BY <1>3, <1>4, <1>7, <1>8, <2>2, FindIndexCounts
  <2> QED  BY <1>4, <1>8, <2>1, <2>3
<1>10. PICK ks, qs : ks = InsertAt(keys, s, k) /\ qs = InsertAt(ps, s + 1, q)
  OBVIOUS
<1>11. ks = InsertAt(keys, FindIndex(keys, k) + 1, k)
  BY <1>7, <1>10
<1>12. Ascending(ks) /\ ToSet(ks) \subseteq S
  BY <1>3, <1>4, <1>7, <1>9, <1>11, AscendingPlaced
<1>13. ks \in Seq(Key)
  BY <1>2, <1>10, Inserted
<1>14. /\ qs \in Seq(Nat) /\ Len(qs) = n + 2
       /\ SpreadBy(qs, ps, s + 1, q)
  <2>1. PICK t : t = s + 1
    OBVIOUS
  <2>2. t \in 1 .. Len(ps) + 1 /\ ps \in Seq(Nat) /\ qs = InsertAt(ps, t, q)
    BY <1>2, <1>10, <2>1
  <2>3. /\ qs \in Seq(Nat) /\ Len(qs) = Len(ps) + 1
        /\ SpreadBy(qs, ps, t, q)
    BY <2>2, Inserted
  <2> QED  BY <1>2, <2>1, <2>3
<1>15. \A i \in 1 .. n + 2 : qs[i] = IF i < s + 1 THEN ps[i] ELSE IF i = s + 1 THEN q ELSE ps[i - 1]
  BY <1>2, <1>14 DEF SpreadBy
<1>16. PICK F, G : F = [x \in S |-> FindIndex(keys, x)] /\ G = [x \in S |-> FindIndex(ks, x)]
  OBVIOUS
<1>17. \A x \in S : /\ F[x] \in 0 .. n /\ x \in Int
                    /\ x < k => G[x] = F[x] /\ F[x] <= s - 1
                    /\ x >= k => G[x] = F[x] + 1 /\ F[x] >= s - 1
  <2> SUFFICES ASSUME NEW x \in S
               PROVE  /\ F[x] \in 0 .. n /\ x \in Int
                      /\ x < k => G[x] = F[x] /\ F[x] <= s - 1
                      /\ x >= k => G[x] = F[x] + 1 /\ F[x] >= s - 1
    OBVIOUS
  <2>1. F[x] \in 0 .. n
    BY <1>2, <1>4, <1>16, SomewhereInIt
  <2>2. x \in Int /\ F[x] = FindIndex(keys, x) /\ G[x] = FindIndex(ks, x)
    BY <1>16
  <2>3. /\ x < k => /\ FindIndex(ks, x) = FindIndex(keys, x)
                    /\ FindIndex(keys, x) <= FindIndex(keys, k)
        /\ x >= k => /\ FindIndex(ks, x) = FindIndex(keys, x) + 1
                     /\ FindIndex(keys, x) >= FindIndex(keys, k)
    BY <1>4, <1>11, <2>2, FindIndexPlaced
  <2> QED  BY <1>7, <2>1, <2>2, <2>3
<1>18. \A i \in 1 .. n + 1 : W[ps[i]] = {x \in S : F[x] = i - 1}
  BY <1>3, <1>16
<1>19. \A i \in 1 .. n + 1 : i # s => ps[i] # c
  <2> SUFFICES ASSUME NEW i \in 1 .. n + 1, i # s, ps[i] = c PROVE FALSE
    OBVIOUS
  <2>1. F[y] = s - 1 /\ F[y] = i - 1
    BY <1>6, <1>8, <1>16, <1>18
  <2> QED  BY <1>8, <2>1
<1>20. \A i \in 1 .. n + 1 : i # s => R[ps[i]] = {x \in S : F[x] = i - 1}
  <2>1. \A i \in 1 .. n + 1 : ps[i] \in ToSet(node.pages)
    BY <1>1, <1>2, SetOf
  <2> QED  BY <1>18, <1>19, <2>1
<1>21. /\ R[c] = {x \in S : F[x] = s - 1 /\ x < k}
       /\ R[q] = {x \in S : F[x] = s - 1 /\ x >= k}
  BY <1>5, <1>18 DEF Parted
<1>22. ASSUME NEW i \in 1 .. n + 2
       PROVE  R[qs[i]] = {x \in S : G[x] = i - 1}
  <2>1. CASE i < s
    <3>1. qs[i] = ps[i] /\ i \in 1 .. n + 1 /\ i # s
      BY <1>15, <2>1
    <3>2. R[qs[i]] = {x \in S : F[x] = i - 1}
      BY <1>20, <3>1
    <3>3. \A x \in S : F[x] = i - 1 <=> G[x] = i - 1
      BY <1>4, <1>17, <2>1
    <3> QED  BY <3>2, <3>3
  <2>2. CASE i = s
    <3>1. qs[i] = c
      BY <1>5, <1>15, <2>2
    <3>2. \A x \in S : F[x] = s - 1 /\ x < k <=> G[x] = i - 1
      BY <1>4, <1>17, <2>2
    <3> QED  BY <1>21, <3>1, <3>2
  <2>3. CASE i = s + 1
    <3>1. qs[i] = q
      BY <1>15, <2>3
    <3>2. \A x \in S : F[x] = s - 1 /\ x >= k <=> G[x] = i - 1
      BY <1>4, <1>17, <2>3
    <3> QED  BY <1>21, <3>1, <3>2
  <2>4. CASE i > s + 1
    <3>1. qs[i] = ps[i - 1] /\ i - 1 \in 1 .. n + 1 /\ i - 1 # s
      BY <1>15, <2>4
    <3>2. R[qs[i]] = {x \in S : F[x] = (i - 1) - 1}
      BY <1>20, <3>1
    <3>3. ASSUME NEW x \in S PROVE F[x] = (i - 1) - 1 <=> G[x] = i - 1
      <4>1. /\ F[x] \in 0 .. n /\ x \in Int
            /\ x < k => G[x] = F[x] /\ F[x] <= s - 1
            /\ x >= k => G[x] = F[x] + 1 /\ F[x] >= s - 1
        BY <1>17
      <4>2. k \in Int
        BY <1>4
      <4>3. CASE x < k
        BY <2>4, <4>1, <4>3
      <4>4. CASE x >= k
        BY <2>4, <4>1, <4>4
      <4> QED  BY <4>1, <4>2, <4>3, <4>4
    <3> QED  BY <3>2, <3>3
  <2> QED  BY <2>1, <2>2, <2>3, <2>4
<1>23. \A i \in DOMAIN qs : R[qs[i]] = {x \in S : FindIndex(ks, x) = i - 1}
  <2>1. DOMAIN qs = 1 .. n + 2
    BY <1>14
  <2>2. \A x \in S : G[x] = FindIndex(ks, x)
    BY <1>16
  <2> QED  BY <1>22, <2>1, <2>2
<1>24. WithChild(node, k, q) = NonLeaf(ks, qs, node.level)
  <2>1. (s - 1) + 1 = s /\ (s - 1) + 2 = s + 1
    OBVIOUS
  <2> QED  BY <1>1, <1>7, <1>10, <2>1 DEF WithChild
<1>25. PICK level : level = node.level
  OBVIOUS
<1>26. Keeps(NonLeaf(ks, qs, level), S, R)
  BY <1>12, <1>23, InnerKeys
<1> QED  BY <1>24, <1>25, <1>26

(* The keys for which a search comes to each page: R gives those that the  *)
(* node in the page has to do with, and W those that the page above sends  *)
(* there.  They are different while a page was split and the page above    *)
(* does not know it yet.                                                   *)
Ranged(ns, h, R, W) ==
    /\ R \in [1 .. Len(ns) -> SUBSET Int] /\ W \in [1 .. Len(ns) -> SUBSET Int]
    /\ \A p, q \in 1 .. Len(ns) : p # q /\ h[p] = h[q] => R[p] \cap R[q] = {}
    /\ \A p \in 1 .. Len(ns) : Keeps(ns[p], R[p], W)

(* Page c was split by key k, and page n has those from k on. *)
HalfDone(R, W, c, n, k) ==
    /\ n # c /\ Parted(W, R, c, n, k)
    /\ \A r \in DOMAIN R : r # c => W[r] = R[r]

(* The children of a node are among n pages. *)
Below(node, n) == ~node.leaf => ToSet(node.pages) \subseteq 1 .. n

LEMMA KeepsSame ==
  ASSUME NEW node, NEW S, NEW W, Keeps(node, S, W), NEW n, Below(node, n),
         NEW U, \A r \in 1 .. n : U[r] = W[r]
  PROVE  Keeps(node, S, U)
<1>1. ~node.leaf => \A i \in DOMAIN node.pages : U[node.pages[i]] = W[node.pages[i]]
  BY DEF Below, ToSet
<1> QED  BY <1>1 DEF Keeps

(* Of the keys in S those below k, and those from k on. *)
Less(S, k) == {x \in S : x < k}
From(S, k) == {x \in S : x >= k}

(* All is told about the pages but p, which a and b take the place of.     *)
AllBut(ns, h, U, p, a, b, k) ==
    /\ Len(ns) \in Nat /\ DOMAIN ns = 1 .. Len(ns) /\ p \in 1 .. Len(ns)
    /\ U \in [1 .. Len(ns) -> SUBSET Int]
    /\ \A q, r \in 1 .. Len(ns) : q # r /\ h[q] = h[r] => U[q] \cap U[r] = {}
    /\ \A q \in 1 .. Len(ns) : q # p => Keeps(ns[q], U[q], U) /\ Below(ns[q], Len(ns))
    /\ k \in U[p] /\ \E x \in U[p] : x < k
    /\ Keeps(a, Less(U[p], k), U) /\ Below(a, Len(ns))
    /\ Keeps(b, From(U[p], k), U) /\ Below(b, Len(ns))

(* Page p was split by key k and what was told of the pages is still true. *)
Halved(ms, g, U, p, n, k) ==
    \E R, W : /\ Ranged(ms, g, R, W) /\ HalfDone(R, W, p, n, k)
              /\ \A q \in DOMAIN U : W[q] = U[q]

LEMMA HalvesRanged ==
  ASSUME NEW ns, NEW h, NEW U, NEW p, NEW a, NEW b, NEW k, AllBut(ns, h, U, p, a, b, k),
         NEW g, \A q \in 1 .. Len(ns) : g[q] = h[q], g[Len(ns) + 1] = h[p],
         NEW ms, ms = Append([ns EXCEPT ![p] = a], b)
  PROVE  Halved(ms, g, U, p, Len(ns) + 1, k)
<1>1. PICK n, N : n = Len(ns) /\ N = n + 1
  OBVIOUS
<1>2. /\ n \in Nat /\ p \in 1 .. n /\ DOMAIN ns = 1 .. n
      /\ U \in [1 .. n -> SUBSET Int]
      /\ \A q, r \in 1 .. n : q # r /\ h[q] = h[r] => U[q] \cap U[r] = {}
      /\ \A q \in 1 .. n : q # p => Keeps(ns[q], U[q], U) /\ Below(ns[q], n)
      /\ k \in U[p] /\ k \in Int /\ \E x \in U[p] : x < k
      /\ Keeps(a, {x \in U[p] : x < k}, U) /\ Below(a, n)
      /\ Keeps(b, {x \in U[p] : x >= k}, U) /\ Below(b, n)
  BY <1>1 DEF AllBut, Less, From
<1>3. /\ Len(ms) = N /\ ms[p] = a /\ ms[N] = b
      /\ \A q \in 1 .. n : q # p => ms[q] = ns[q]
  BY <1>1, <1>2
<1>4. PICK l, r : l = {x \in U[p] : x < k} /\ r = {x \in U[p] : x >= k}
  OBVIOUS
<1>5. /\ l \subseteq U[p] /\ r \subseteq U[p] /\ l \cap r = {} /\ k \in r /\ l # {}
      /\ l \in SUBSET Int /\ r \in SUBSET Int
  BY <1>2, <1>4
<1>6. PICK R, W :
         /\ R = [q \in 1 .. N |-> IF q = p THEN l ELSE IF q = N THEN r ELSE U[q]]
         /\ W = [q \in 1 .. N |-> IF q = N THEN r ELSE U[q]]
  OBVIOUS
<1>7. /\ R[p] = l /\ R[N] = r /\ W[p] = U[p] /\ W[N] = r
      /\ \A q \in 1 .. n : q # p => R[q] = U[q]
      /\ \A q \in 1 .. n : W[q] = U[q]
      /\ R \in [1 .. N -> SUBSET Int] /\ W \in [1 .. N -> SUBSET Int]
      /\ p # N /\ p \in 1 .. N /\ N \in 1 .. N
      /\ \A q \in 1 .. N : q # N => q \in 1 .. n
  BY <1>1, <1>2, <1>5, <1>6
<1>8. HalfDone(R, W, p, N, k)
  BY <1>4, <1>5, <1>7 DEF HalfDone, Parted
<1>9. ASSUME NEW q \in 1 .. N PROVE Keeps(ms[q], R[q], W)
  <2>1. CASE q = p
    <3>1. Keeps(a, l, U) /\ Below(a, n)
      BY <1>2, <1>4
    <3>2. Keeps(a, l, W)
      BY <1>7, <3>1, KeepsSame
    <3> QED  BY <1>3, <1>7, <2>1, <3>2
  <2>2. CASE q = N
    <3>1. Keeps(b, r, U) /\ Below(b, n)
      BY <1>2, <1>4
    <3>2. Keeps(b, r, W)
      BY <1>7, <3>1, KeepsSame
    <3> QED  BY <1>3, <1>7, <2>2, <3>2
  <2>3. CASE q # p /\ q # N
    <3>1. q \in 1 .. n /\ ms[q] = ns[q] /\ R[q] = U[q]
      BY <1>3, <1>7, <2>3
    <3>2. Keeps(ns[q], U[q], U) /\ Below(ns[q], n)
      BY <1>2, <2>3, <3>1
    <3>3. Keeps(ns[q], U[q], W)
      BY <1>7, <3>2, KeepsSame
    <3> QED  BY <3>1, <3>3
  <2> QED  BY <2>1, <2>2, <2>3
<1>10. /\ g[N] = h[p] /\ g[p] = h[p] /\ \A q \in 1 .. n : g[q] = h[q]
  BY <1>1, <1>2
<1>11. ASSUME NEW q \in 1 .. N, NEW s \in 1 .. N, q # s, g[q] = g[s] PROVE R[q] \cap R[s] = {}
  <2>1. CASE q = p /\ s = N
    BY <1>5, <1>7, <2>1
  <2>2. CASE q = N /\ s = p
    BY <1>5, <1>7, <2>2
  <2>3. CASE q \in {p, N} /\ s \notin {p, N}
    <3>1. s \in 1 .. n /\ R[s] = U[s] /\ h[p] = h[s] /\ R[q] \subseteq U[p] /\ s # p
      BY <1>5, <1>7, <1>10, <1>11, <2>3
    <3> QED  BY <1>2, <3>1
  <2>4. CASE s \in {p, N} /\ q \notin {p, N}
    <3>1. q \in 1 .. n /\ R[q] = U[q] /\ h[p] = h[q] /\ R[s] \subseteq U[p] /\ q # p
      BY <1>5, <1>7, <1>10, <1>11, <2>4
    <3> QED  BY <1>2, <3>1
  <2>5. CASE s \notin {p, N} /\ q \notin {p, N}
    <3>1. q \in 1 .. n /\ s \in 1 .. n /\ R[q] = U[q] /\ R[s] = U[s] /\ h[q] = h[s]
      BY <1>7, <1>10, <1>11, <2>5
    <3> QED  BY <1>2, <1>11, <3>1
  <2> QED  BY <1>11, <2>1, <2>2, <2>3, <2>4, <2>5
<1>12. Ranged(ms, g, R, W)
  BY <1>3, <1>7, <1>9, <1>11 DEF Ranged
<1>13. \A q \in DOMAIN U : W[q] = U[q]
  BY <1>2, <1>7
<1> QED  BY <1>1, <1>8, <1>12, <1>13 DEF Halved

-----------------------------------------------------------------------------
(* The keys of a leaf. *)

EntryKeys(entries) == [i \in DOMAIN entries |-> entries[i][1]]

LEMMA EntryKeysAre ==
  ASSUME NEW entries \in Seq(Entry)
  PROVE  /\ EntryKeys(entries) \in Seq(Int) /\ Len(EntryKeys(entries)) = Len(entries)
         /\ \A i \in 1 .. Len(entries) : EntryKeys(entries)[i] = entries[i][1]
         /\ \A e \in ToSet(entries) : e[1] \in ToSet(EntryKeys(entries))
         /\ \A k \in ToSet(EntryKeys(entries)) : \E e \in ToSet(entries) : k = e[1]
<1>1. PICK n, keys : n = Len(entries) /\ keys = EntryKeys(entries)
  OBVIOUS
<1>2. n \in Nat /\ keys = [i \in 1 .. n |-> entries[i][1]] /\ \A i \in 1 .. n : entries[i] \in Entry
  BY <1>1 DEF EntryKeys
<1>3. \A i \in 1 .. n : entries[i][1] \in Int
  BY <1>2, EntryAssumption
<1>4. keys \in Seq(Int) /\ Len(keys) = n
  BY <1>2, <1>3
<1>5. ASSUME NEW e \in ToSet(entries) PROVE e[1] \in ToSet(keys)
  <2>1. PICK i \in 1 .. n : e = entries[i]
    BY <1>1, SetOf
  <2>2. e[1] = keys[i]
    BY <1>2, <2>1
  <2> QED  BY <1>4, <2>2, SetOf
<1>6. ASSUME NEW k \in ToSet(keys) PROVE \E e \in ToSet(entries) : k = e[1]
  <2>1. PICK i \in 1 .. n : k = keys[i]
    BY <1>4, SetOf
  <2>2. k = entries[i][1] /\ entries[i] \in ToSet(entries)
    BY <1>1, <1>2, <2>1, SetOf
  <2> QED  BY <2>2
<1> QED  BY <1>1, <1>2, <1>4, <1>5, <1>6

LEMMA KeysPlaced ==
  ASSUME NEW entries \in Seq(Entry), NEW e \in Entry
  PROVE  EntryKeys(WithEntry(entries, e)) =
            InsertAt(EntryKeys(entries), FindIndex(EntryKeys(entries), e[1]) + 1, e[1])
<1>1. PICK keys, n : keys = EntryKeys(entries) /\ n = Len(entries)
  OBVIOUS
<1>2. keys \in Seq(Int) /\ Len(keys) = n /\ \A i \in 1 .. n : keys[i] = entries[i][1]
  BY <1>1, EntryKeysAre
<1>3. PICK i : i = FindIndex(keys, e[1]) + 1
  OBVIOUS
<1>4. e[1] \in Int
  BY EntryAssumption
<1>5. i \in 1 .. n + 1
  <2>1. FindIndex(keys, e[1]) \in 0 .. Len(keys)
    BY <1>2, <1>4, SomewhereInIt
  <2> QED  BY <1>2, <1>3, <2>1
<1>6. PICK new, ks : new = InsertAt(entries, i, e) /\ ks = InsertAt(keys, i, e[1])
  OBVIOUS
<1>7. WithEntry(entries, e) = new
  BY <1>1, <1>3, <1>6 DEF WithEntry, EntryKeys
<1>8. new \in Seq(Entry) /\ Len(new) = n + 1 /\ SpreadBy(new, entries, i, e)
  BY <1>1, <1>5, <1>6, Inserted
<1>9. ks \in Seq(Int) /\ Len(ks) = n + 1 /\ SpreadBy(ks, keys, i, e[1])
  BY <1>2, <1>4, <1>5, <1>6, Inserted
<1>10. PICK ls : ls = EntryKeys(new)
  OBVIOUS
<1>11. ls \in Seq(Int) /\ Len(ls) = n + 1 /\ \A j \in 1 .. n + 1 : ls[j] = new[j][1]
  <2>1. /\ EntryKeys(new) \in Seq(Int) /\ Len(EntryKeys(new)) = Len(new)
        /\ \A j \in 1 .. Len(new) : EntryKeys(new)[j] = new[j][1]
    BY <1>8, EntryKeysAre
  <2> QED  BY <1>8, <1>10, <2>1
<1>12. ASSUME NEW j \in 1 .. n + 1 PROVE ls[j] = ks[j]
  <2>1. new[j] = IF j < i THEN entries[j] ELSE IF j = i THEN e ELSE entries[j - 1]
    BY <1>1, <1>8 DEF SpreadBy
  <2>2. ks[j] = IF j < i THEN keys[j] ELSE IF j = i THEN e[1] ELSE keys[j - 1]
    BY <1>2, <1>9 DEF SpreadBy
  <2>3. (j < i => j \in 1 .. n) /\ (j > i => j - 1 \in 1 .. n)
    <3>1. n \in Nat
      BY <1>1
    <3> QED  BY <1>5, <3>1
  <2>5. ls[j] = new[j][1]
    BY <1>11
  <2> QED  BY <1>2, <1>5, <2>1, <2>2, <2>3, <2>5
<1>13. ls = ks
  BY <1>9, <1>11, <1>12
<1> QED  BY <1>1, <1>3, <1>6, <1>7, <1>10, <1>13

LEMMA EntryAscends ==
  ASSUME NEW entries \in Seq(Entry), Ascending(EntryKeys(entries)),
         NEW e \in Entry, e[1] \notin ToSet(EntryKeys(entries))
  PROVE  /\ Ascending(EntryKeys(WithEntry(entries, e)))
         /\ ToSet(EntryKeys(WithEntry(entries, e))) = ToSet(EntryKeys(entries)) \cup {e[1]}
<1>1. EntryKeys(entries) \in Seq(Int) /\ e[1] \in Int
  BY EntryKeysAre, EntryAssumption
<1>2. PICK keys, k, new : keys = EntryKeys(entries) /\ k = e[1] /\ new = EntryKeys(WithEntry(entries, e))
  OBVIOUS
<1>3. new = InsertAt(keys, FindIndex(keys, k) + 1, k)
  BY <1>2, KeysPlaced
<1>4. Ascending(new) /\ new \in Seq(Int) /\ ToSet(new) = ToSet(keys) \cup {k}
  BY <1>1, <1>2, <1>3, AscendingPlaced
<1> QED  BY <1>2, <1>4

(* The leaves l and r have the keys in order, those of l below k.          *)
InOrderAt(l, r, keys, k) ==
    /\ Ascending(EntryKeys(l)) /\ Ascending(EntryKeys(r))
    /\ ToSet(EntryKeys(l)) \cup ToSet(EntryKeys(r)) = keys
    /\ \A x \in ToSet(EntryKeys(l)) : x < k
    /\ \A x \in ToSet(EntryKeys(r)) : x >= k
    /\ k \in keys

LEMMA PartKeys ==
  ASSUME NEW entries \in Seq(Entry), NEW m \in 0 .. Len(entries)
  PROVE  /\ EntryKeys(SubSeq(entries, 1, m)) = SubSeq(EntryKeys(entries), 1, m)
         /\ EntryKeys(SubSeq(entries, m + 1, Len(entries)))
               = SubSeq(EntryKeys(entries), m + 1, Len(entries))
<1>1. PICK keys, n, l, r : /\ keys = EntryKeys(entries) /\ n = Len(entries)
                           /\ l = SubSeq(entries, 1, m) /\ r = SubSeq(entries, m + 1, n)
  OBVIOUS
<1>2. keys \in Seq(Int) /\ Len(keys) = n /\ \A i \in 1 .. n : keys[i] = entries[i][1]
  BY <1>1, EntryKeysAre
<1>3. /\ l \in Seq(Entry) /\ Len(l) = m /\ r \in Seq(Entry) /\ Len(r) = n - m
      /\ \A j \in 1 .. m : l[j] = entries[j]
      /\ \A j \in 1 .. n - m : r[j] = entries[m + j]
      /\ m \in 0 .. n /\ n \in Nat
  BY <1>1, Halves
<1>4. PICK kl, kr : kl = SubSeq(keys, 1, m) /\ kr = SubSeq(keys, m + 1, n)
  OBVIOUS
<1>5. /\ kl \in Seq(Int) /\ Len(kl) = m /\ kr \in Seq(Int) /\ Len(kr) = n - m
      /\ \A j \in 1 .. m : kl[j] = keys[j]
      /\ \A j \in 1 .. n - m : kr[j] = keys[m + j]
  BY <1>2, <1>3, <1>4, Halves
<1>6. /\ EntryKeys(l) \in Seq(Int) /\ Len(EntryKeys(l)) = m
      /\ \A i \in 1 .. m : EntryKeys(l)[i] = l[i][1]
  BY <1>3, EntryKeysAre
<1>7. /\ EntryKeys(r) \in Seq(Int) /\ Len(EntryKeys(r)) = n - m
      /\ \A i \in 1 .. n - m : EntryKeys(r)[i] = r[i][1]
  BY <1>3, EntryKeysAre
<1>8. EntryKeys(l) = kl
  <2>1. ASSUME NEW i \in 1 .. m PROVE EntryKeys(l)[i] = kl[i]
    <3>1. i \in 1 .. n
      BY <1>3
    <3>2. l[i] = entries[i] /\ kl[i] = keys[i]
      BY <1>3, <1>5
    <3> QED  BY <1>2, <1>6, <3>1, <3>2
  <2> QED  BY <1>3, <1>5, <1>6, <2>1
<1>9. EntryKeys(r) = kr
  <2>1. PICK o \in Nat : o = n - m
    BY <1>3
  <2>2. ASSUME NEW i \in 1 .. o PROVE EntryKeys(r)[i] = kr[i]
    <3>1. m + i \in 1 .. n
      BY <1>3, <2>1
    <3>2. r[i] = entries[m + i] /\ kr[i] = keys[m + i] /\ EntryKeys(r)[i] = r[i][1]
      BY <1>3, <1>5, <1>7, <2>1
    <3> QED  BY <1>2, <3>1, <3>2
  <2> QED  BY <1>5, <1>7, <2>1, <2>2
<1> QED  BY <1>1, <1>4, <1>8, <1>9

(* The keys of the two leaves a full one becomes are in order, and the key *)
(* that moves up is the first on the right.                                *)
LEMMA LeafSplitOrder ==
  ASSUME NEW entries \in Seq(Entry), Len(entries) = LeafSize, Ascending(EntryKeys(entries)),
         NEW e \in Entry, e[1] \notin ToSet(EntryKeys(entries)),
         NEW l, NEW r, SplitLeaf(entries, e) = <<l, r>>
  PROVE  /\ InOrderAt(l, r, ToSet(EntryKeys(entries)) \cup {e[1]}, r[1][1])
         /\ Len(l) >= 2 /\ l \in Seq(Entry)
<1>1. PICK half, n, k, keys : /\ half = LeafSize \div 2 /\ n = LeafSize /\ k = e[1]
                              /\ keys = EntryKeys(entries)
  OBVIOUS
<1>2. half \in 2 .. n - 2 /\ n \in Nat /\ half \in 0 .. n
  BY <1>1, LeafHalf, SizeAssumption
<1>3. /\ keys \in Seq(Int) /\ Len(keys) = n /\ k \in Int /\ Ascending(keys) /\ k \notin ToSet(keys)
      /\ \A i \in 1 .. n : keys[i] = entries[i][1]
  BY <1>1, EntryKeysAre, EntryAssumption
<1>4. PICK left, right : left = SubSeq(entries, 1, half) /\ right = SubSeq(entries, half + 1, n)
  OBVIOUS
<1>5. /\ left \in Seq(Entry) /\ Len(left) = half
      /\ right \in Seq(Entry) /\ Len(right) = n - half
      /\ \A j \in 1 .. n - half : right[j] = entries[half + j]
  BY <1>1, <1>2, <1>4, Halves
<1>6. PICK kl, kr : kl = SubSeq(keys, 1, half) /\ kr = SubSeq(keys, half + 1, n)
  OBVIOUS
<1>7. EntryKeys(left) = kl /\ EntryKeys(right) = kr
  BY <1>1, <1>2, <1>4, <1>6, PartKeys
<1>8. Ascending(kl) /\ Ascending(kr) /\ kl \in Seq(Int) /\ kr \in Seq(Int)
  BY <1>2, <1>3, <1>6, AscendingParts
<1>9. /\ Len(kl) = half /\ Len(kr) = n - half
      /\ \A j \in 1 .. half : kl[j] = keys[j]
      /\ \A j \in 1 .. n - half : kr[j] = keys[half + j]
  BY <1>2, <1>3, <1>6, Halves
<1>10. ToSet(kl) \cup ToSet(kr) = ToSet(keys)
  BY <1>2, <1>3, <1>6, HalvesSet
<1>11. PICK m, up : m = half + 1 /\ up = keys[m]
  OBVIOUS
<1>12. m \in 1 .. n /\ up \in Int /\ m - half = 1 /\ 1 \in 1 .. n - half
  BY <1>2, <1>3, <1>11
<1>13. up = kr[1] /\ up \in ToSet(keys) /\ kr[1] \in ToSet(kr)
  <2>1. half + 1 = m /\ n - half \in Nat
    BY <1>2, <1>11
  <2> QED  BY <1>3, <1>8, <1>9, <1>11, <1>12, <2>1, SetOf
<1>14. \A i \in 1 .. n : (i < m => keys[i] < up) /\ (i >= m => keys[i] >= up)
  <2> SUFFICES ASSUME NEW i \in 1 .. n PROVE (i < m => keys[i] < up) /\ (i >= m => keys[i] >= up)
    OBVIOUS
  <2>1. (i < m => keys[i] < keys[m]) /\ (m < i => keys[m] < keys[i])
    BY <1>3, <1>12 DEF Ascending
  <2>2. keys[i] \in Int
    BY <1>3
  <2> QED  BY <1>11, <1>12, <2>1, <2>2
<1>15. \A x \in ToSet(kl) : x < up
  <2> SUFFICES ASSUME NEW x \in ToSet(kl) PROVE x < up
    OBVIOUS
  <2>1. PICK j \in 1 .. half : x = kl[j]
    BY <1>8, <1>9, SetOf
  <2>2. j \in 1 .. n /\ j < m
    BY <1>2, <1>11
  <2> QED  BY <1>9, <1>14, <2>1, <2>2
<1>16. \A x \in ToSet(kr) : x >= up
  <2> SUFFICES ASSUME NEW x \in ToSet(kr) PROVE x >= up
    OBVIOUS
  <2>1. PICK j \in 1 .. n - half : x = kr[j]
    BY <1>8, <1>9, SetOf
  <2>2. half + j \in 1 .. n /\ half + j >= m
    BY <1>2, <1>11
  <2> QED  BY <1>9, <1>14, <2>1, <2>2
<1>17. PICK f : f = FindIndex(keys, k)
  OBVIOUS
<1>18. f \in 0 .. n
  BY <1>3, <1>17, SomewhereInIt
<1>19. f >= m <=> k >= up
  BY <1>3, <1>11, <1>12, <1>17, FindIndexCounts
<1>20. k # up
  BY <1>3, <1>13
<1>21. k \notin ToSet(kl) /\ k \notin ToSet(kr)
  BY <1>3, <1>10
<1>22. <<l, r>> = IF f <= half THEN <<WithEntry(left, e), right>> ELSE <<left, WithEntry(right, e)>>
  BY <1>1, <1>4, <1>17 DEF SplitLeaf, EntryKeys
<1>23. CASE f <= half
  <2>1. l = WithEntry(left, e) /\ r = right
    BY <1>22, <1>23
  <2>2. l \in Seq(Entry) /\ Len(l) >= 2
    BY <1>2, <1>5, <2>1, EntryPlaced
  <2>3. k < up
    BY <1>2, <1>3, <1>11, <1>12, <1>18, <1>19, <1>23
  <2>4. Ascending(EntryKeys(l)) /\ ToSet(EntryKeys(l)) = ToSet(kl) \cup {k}
    BY <1>1, <1>5, <1>7, <1>8, <1>21, <2>1, EntryAscends
  <2>5. r[1][1] = up
    <3>1. half + 1 = m
      BY <1>11
    <3> QED  BY <1>3, <1>5, <1>11, <1>12, <2>1, <3>1
  <2>6. ToSet(EntryKeys(l)) \cup ToSet(EntryKeys(r)) = ToSet(keys) \cup {k}
    BY <1>7, <1>10, <2>1, <2>4
  <2>7. InOrderAt(l, r, ToSet(keys) \cup {k}, up)
    BY <1>7, <1>8, <1>13, <1>15, <1>16, <2>1, <2>3, <2>4, <2>6 DEF InOrderAt
  <2> QED  BY <1>1, <2>2, <2>5, <2>7
<1>24. CASE ~(f <= half)
  <2>1. l = left /\ r = WithEntry(right, e)
    BY <1>22, <1>24
  <2>2. l \in Seq(Entry) /\ Len(l) >= 2
    BY <1>2, <1>5, <2>1
  <2>3. k > up
    BY <1>2, <1>3, <1>11, <1>12, <1>18, <1>19, <1>20, <1>24
  <2>4. Ascending(EntryKeys(r)) /\ ToSet(EntryKeys(r)) = ToSet(kr) \cup {k}
    BY <1>1, <1>5, <1>7, <1>8, <1>21, <2>1, EntryAscends
  <2>5. r[1][1] = up
    <3>1. FindIndex(kr, k) >= 1
      <4>1. k >= kr[1] /\ 1 \in 1 .. Len(kr)
        BY <1>3, <1>9, <1>12, <1>13, <2>3
      <4> QED  BY <1>3, <1>8, <4>1, FindIndexCounts
    <3>2. FindIndex(kr, k) \in 0 .. Len(kr)
      BY <1>3, <1>8, SomewhereInIt
    <3>3. PICK i : i = FindIndex(kr, k) + 1
      OBVIOUS
    <3>4. i \in 1 .. Len(right) + 1 /\ i > 1
      BY <1>2, <1>5, <1>9, <3>1, <3>2, <3>3
    <3>5. r = InsertAt(right, i, e)
      BY <1>1, <1>7, <2>1, <3>3 DEF WithEntry, EntryKeys
    <3>6. SpreadBy(r, right, i, e)
      BY <1>5, <3>4, <3>5, Inserted
    <3>7. r[1] = right[1]
      BY <1>5, <1>12, <3>4, <3>6 DEF SpreadBy
    <3>8. half + 1 = m
      BY <1>11
    <3> QED  BY <1>3, <1>5, <1>11, <1>12, <3>7, <3>8
  <2>6. ToSet(EntryKeys(l)) \cup ToSet(EntryKeys(r)) = ToSet(keys) \cup {k}
    BY <1>7, <1>10, <2>1, <2>4
  <2>8. k >= up
    BY <1>3, <1>12, <2>3
  <2>7. InOrderAt(l, r, ToSet(keys) \cup {k}, up)
    BY <1>7, <1>8, <1>13, <1>15, <1>16, <2>1, <2>8, <2>4, <2>6 DEF InOrderAt
  <2> QED  BY <1>1, <2>2, <2>5, <2>7
<1> QED  BY <1>23, <1>24

-----------------------------------------------------------------------------
(* The keys of a non-leaf node that is split. *)

LEMMA PagesParted ==
  ASSUME NEW ps \in Seq(Nat), NEW N \in Nat, Len(ps) = N + 1, NEW K \in 0 .. N + 1
  PROVE  LET l == SubSeq(ps, 1, K)
             r == SubSeq(ps, K + 1, N + 1) IN
         /\ l \in Seq(Nat) /\ Len(l) = K /\ \A j \in 1 .. K : l[j] = ps[j]
         /\ r \in Seq(Nat) /\ Len(r) = N + 1 - K /\ \A j \in 1 .. N + 1 - K : r[j] = ps[K + j]
<1>1. PICK S, M : S = Nat /\ M = Len(ps)
  OBVIOUS
<1>2. ps \in Seq(S) /\ K \in 0 .. Len(ps) /\ M = N + 1
  BY <1>1
<1>3. PICK l, r : l = SubSeq(ps, 1, K) /\ r = SubSeq(ps, K + 1, Len(ps))
  OBVIOUS
<1>4. /\ l \in Seq(S) /\ Len(l) = K /\ \A j \in 1 .. K : l[j] = ps[j]
      /\ r \in Seq(S) /\ Len(r) = Len(ps) - K
      /\ \A j \in 1 .. Len(ps) - K : r[j] = ps[K + j]
  BY <1>2, <1>3, Halves
<1> QED  BY <1>1, <1>2, <1>3, <1>4

(* Keys and pages of a non-leaf node for the keys in S. *)
Over(keys, ps, N, S, W) ==
    /\ keys \in Seq(Int) /\ ps \in Seq(Nat) /\ N \in Nat /\ Len(keys) = N /\ Len(ps) = N + 1
    /\ Ascending(keys) /\ S \in SUBSET Int /\ ToSet(keys) \subseteq S
    /\ \A i \in 1 .. N + 1 : W[ps[i]] = {x \in S : FindIndex(keys, x) = i - 1}

(* The nodes left and right of the key that moves up. *)
LEMMA PartsKept ==
  ASSUME NEW keys, NEW ps, NEW N, NEW S, NEW W, Over(keys, ps, N, S, W),
         NEW K \in 1 .. N, NEW level, NEW up, up = keys[K]
  PROVE  /\ Keeps(NonLeaf(SubSeq(keys, 1, K - 1), SubSeq(ps, 1, K), level), Less(S, up), W)
         /\ Keeps(NonLeaf(SubSeq(keys, K + 1, N), SubSeq(ps, K + 1, N + 1), level), From(S, up), W)
<1>0. /\ keys \in Seq(Int) /\ ps \in Seq(Nat) /\ N \in Nat /\ Len(keys) = N /\ Len(ps) = N + 1
      /\ Ascending(keys) /\ S \in SUBSET Int /\ ToSet(keys) \subseteq S
      /\ \A i \in 1 .. N + 1 : W[ps[i]] = {x \in S : FindIndex(keys, x) = i - 1}
  BY DEF Over
<1> USE <1>0
<1>1. PICK J \in 0 .. N : J = K - 1
  OBVIOUS
<1>2. up \in Int /\ K = J + 1 /\ K \in 0 .. N /\ K \in 0 .. N + 1 /\ J < K
  BY <1>1
<1>3. PICK kl, kr, pl, pr, U, V : /\ kl = SubSeq(keys, 1, J) /\ kr = SubSeq(keys, K + 1, N)
                                  /\ pl = SubSeq(ps, 1, K) /\ pr = SubSeq(ps, K + 1, N + 1)
                                  /\ U = {x \in S : x < up} /\ V = {x \in S : x >= up}
  OBVIOUS
<1>4. Ascending(kl) /\ kl \in Seq(Int)
  BY <1>3, AscendingParts
<1>5. Ascending(kr) /\ kr \in Seq(Int)
  BY <1>2, <1>3, AscendingParts
<1>6. /\ Len(kl) = J /\ \A j \in 1 .. J : kl[j] = keys[j]
      /\ Len(kr) = N - K /\ \A j \in 1 .. N - K : kr[j] = keys[K + j]
  BY <1>2, <1>3, Halves
<1>7. /\ pl \in Seq(Nat) /\ Len(pl) = K /\ \A j \in 1 .. K : pl[j] = ps[j]
      /\ pr \in Seq(Nat) /\ Len(pr) = N + 1 - K /\ \A j \in 1 .. N + 1 - K : pr[j] = ps[K + j]
  <2>1. K \in 0 .. N + 1
    BY <1>2
  <2>2. LET l == SubSeq(ps, 1, K)
            r == SubSeq(ps, K + 1, N + 1) IN
        /\ l \in Seq(Nat) /\ Len(l) = K /\ \A j \in 1 .. K : l[j] = ps[j]
        /\ r \in Seq(Nat) /\ Len(r) = N + 1 - K /\ \A j \in 1 .. N + 1 - K : r[j] = ps[K + j]
    BY <2>1, PagesParted
  <2> QED  BY <1>3, <2>2
<1>8. \A j \in 1 .. N : keys[j] \in S /\ (j < K => keys[j] < up) /\ (j > K => keys[j] >= up)
  <2> SUFFICES ASSUME NEW j \in 1 .. N
               PROVE  keys[j] \in S /\ (j < K => keys[j] < up) /\ (j > K => keys[j] >= up)
    OBVIOUS
  <2>1. keys[j] \in ToSet(keys)
    BY SetOf
  <2>2. (j < K => keys[j] < keys[K]) /\ (K < j => keys[K] < keys[j])
    <3>1. j \in DOMAIN keys /\ K \in DOMAIN keys
      OBVIOUS
    <3> QED  BY <3>1 DEF Ascending
  <2>3. keys[j] \in Int
    OBVIOUS
  <2> QED  BY <1>2, <2>1, <2>2, <2>3
<1>9. ToSet(kl) \subseteq U
  <2> SUFFICES ASSUME NEW x \in ToSet(kl) PROVE x \in U
    OBVIOUS
  <2>1. PICK j \in 1 .. J : x = kl[j]
    BY <1>4, <1>6, SetOf
  <2>2. j \in 1 .. N /\ j < K
    BY <1>2
  <2> QED  BY <1>3, <1>6, <1>8, <2>1, <2>2
<1>10. ToSet(kr) \subseteq V
  <2> SUFFICES ASSUME NEW x \in ToSet(kr) PROVE x \in V
    OBVIOUS
  <2>1. PICK j \in 1 .. N - K : x = kr[j]
    BY <1>5, <1>6, SetOf
  <2>2. K + j \in 1 .. N /\ K + j > K
    BY <1>2
  <2> QED  BY <1>3, <1>6, <1>8, <2>1, <2>2
<1>11. \A x \in S : /\ x \in Int /\ FindIndex(keys, x) \in 0 .. N
                    /\ FindIndex(keys, x) >= K <=> x >= up
  <2> SUFFICES ASSUME NEW x \in S
               PROVE  /\ x \in Int /\ FindIndex(keys, x) \in 0 .. N
                      /\ FindIndex(keys, x) >= K <=> x >= up
    OBVIOUS
  <2>1. FindIndex(keys, x) \in 0 .. N
    BY SomewhereInIt
  <2>2. FindIndex(keys, x) >= K <=> x >= up
    BY FindIndexCounts
  <2> QED  BY <2>1, <2>2
<1>12. ASSUME NEW i \in 1 .. K
       PROVE  W[pl[i]] = {x \in U : FindIndex(kl, x) = i - 1}
  <2>1. W[pl[i]] = {x \in S : FindIndex(keys, x) = i - 1}
    <3>1. i \in 1 .. N + 1 /\ pl[i] = ps[i]
      BY <1>7
    <3> QED  BY <3>1
  <2>2. ASSUME NEW x \in S, FindIndex(keys, x) = i - 1 PROVE x \in U /\ FindIndex(kl, x) = i - 1
    <3>1. FindIndex(kl, x) = IF FindIndex(keys, x) <= J THEN FindIndex(keys, x) ELSE J
      BY <1>3, FindIndexLeft
    <3>2. ~(FindIndex(keys, x) >= K) /\ FindIndex(keys, x) <= J
      BY <1>2, <2>2
    <3>3. x < up
      BY <1>2, <1>11, <3>2
    <3> QED  BY <1>3, <2>2, <3>1, <3>2, <3>3
  <2>3. ASSUME NEW x \in U, FindIndex(kl, x) = i - 1 PROVE FindIndex(keys, x) = i - 1
    <3>1. x \in S /\ x < up
      BY <1>3
    <3>2. FindIndex(kl, x) = IF FindIndex(keys, x) <= J THEN FindIndex(keys, x) ELSE J
      BY <1>3, <3>1, FindIndexLeft
    <3>3. ~(FindIndex(keys, x) >= K) /\ FindIndex(keys, x) \in 0 .. N
      BY <1>2, <1>11, <3>1
    <3>4. FindIndex(keys, x) <= J
      BY <1>2, <3>3
    <3> QED  BY <2>3, <3>2, <3>4
  <2>4. U \subseteq S
    BY <1>3
  <2> QED  BY <2>1, <2>2, <2>3, <2>4
<1>13. ASSUME NEW i \in 1 .. N + 1 - K
       PROVE  W[pr[i]] = {x \in V : FindIndex(kr, x) = i - 1}
  <2>1. W[pr[i]] = {x \in S : FindIndex(keys, x) = (K + i) - 1}
    <3>1. K + i \in 1 .. N + 1 /\ pr[i] = ps[K + i]
      BY <1>7
    <3> QED  BY <3>1
  <2>5. ASSUME NEW x \in S, FindIndex(keys, x) >= K
        PROVE  FindIndex(kr, x) = FindIndex(keys, x) - K
    <3>1. K \in 0 .. Len(keys) /\ x \in Int
      BY <1>2
    <3> QED  BY <1>3, <2>5, <3>1, FindIndexRight
  <2>2. ASSUME NEW x \in S, FindIndex(keys, x) = (K + i) - 1
        PROVE  x \in V /\ FindIndex(kr, x) = i - 1
    <3>1. FindIndex(keys, x) >= K
      BY <2>2
    <3>2. x >= up
      BY <1>11, <3>1
    <3>3. FindIndex(kr, x) = ((K + i) - 1) - K
      BY <2>2, <2>5, <3>1
    <3> QED  BY <1>3, <3>2, <3>3
  <2>3. ASSUME NEW x \in V, FindIndex(kr, x) = i - 1 PROVE FindIndex(keys, x) = (K + i) - 1
    <3>1. x \in S /\ x >= up
      BY <1>3
    <3>2. FindIndex(keys, x) >= K /\ FindIndex(keys, x) \in 0 .. N
      BY <1>11, <3>1
    <3>3. FindIndex(kr, x) = FindIndex(keys, x) - K
      BY <2>5, <3>1, <3>2
    <3>4. PICK a, b : a = FindIndex(keys, x) /\ b = FindIndex(kr, x)
      OBVIOUS
    <3>5. a \in 0 .. N /\ b = a - K /\ b = i - 1
      BY <2>3, <3>2, <3>3, <3>4
    <3>6. a = (K + i) - 1
      BY <3>5
    <3> QED  BY <3>4, <3>6
  <2>4. V \subseteq S
    BY <1>3
  <2> QED  BY <2>1, <2>2, <2>3, <2>4
<1>14. DOMAIN pl = 1 .. K /\ DOMAIN pr = 1 .. N + 1 - K
  BY <1>7
<1>15. Keeps(NonLeaf(kl, pl, level), U, W)
  BY <1>4, <1>9, <1>12, <1>14, InnerKeys
<1>16. Keeps(NonLeaf(kr, pr, level), V, W)
  BY <1>5, <1>10, <1>13, <1>14, InnerKeys
<1> QED  BY <1>1, <1>3, <1>15, <1>16 DEF Less, From

(* The number of keys that are passed by the one that moves up when a      *)
(* non-leaf node is split and the new key goes right.                      *)
Kept == NonLeafSize - (NonLeafSize - 1) \div 2

LEMMA KeptIs == Kept \in 2 .. NonLeafSize /\ Kept = NonLeafSize \div 2 + 1
BY NonLeafHalf, SizeAssumption DEF Kept

(* The nodes l and r have what S has of keys, those of l below k.          *)
SplitAt(l, r, S, W, k) ==
    /\ k \in S /\ \E x \in S : x < k
    /\ Keeps(l, Less(S, k), W) /\ Keeps(r, From(S, k), W)

(* A full non-leaf node is split in order if the new key is not below the  *)
(* one that moves up.                                                      *)
LEMMA NonLeafSplitOrder ==
  ASSUME NEW node, NEW pages, InnerWith(node, NonLeafSize, pages),
         NEW S \in SUBSET Int, NEW W, Keeps(node, S, W), NEW k \in Key, NEW q \in Nat,
         NEW c \in ToSet(node.pages), NEW R, Parted(W, R, c, q, k),
         \A r \in ToSet(node.pages) : r # c => R[r] = W[r],
         FindIndex(node.keys, k) >= Kept
  PROVE  LET split == SplitNonLeaf(node, k, q) IN
         SplitAt(split.left, split.right, S, R, split.up)
<1>1. PICK keys, ps, N, K, level : /\ keys = node.keys /\ ps = node.pages /\ N = NonLeafSize
                                   /\ K = Kept /\ level = node.level
  OBVIOUS
<1>2. /\ node \in InnerNode /\ keys \in Seq(Key) /\ Len(keys) = N
      /\ ps \in Seq(Nat) /\ Len(ps) = N + 1 /\ N \in Nat /\ K \in 2 .. N /\ level \in {0, 1}
  BY <1>1, InnerFields, KeptIs, SizeAssumption DEF InnerWith
<1>3. /\ Ascending(keys) /\ ToSet(keys) \subseteq S
      /\ \A i \in 1 .. N + 1 : W[ps[i]] = {x \in S : FindIndex(keys, x) = i - 1}
  <2>1. /\ Ascending(keys) /\ ToSet(keys) \subseteq S
        /\ \A i \in DOMAIN ps : W[ps[i]] = {x \in S : FindIndex(keys, x) = i - 1}
    BY <1>1, <1>2, InnerKeeps
  <2>2. DOMAIN ps = 1 .. N + 1
    BY <1>2
  <2> QED  BY <2>1, <2>2
<1>4. keys \in Seq(Int) /\ k \in Int
  BY <1>2, KeysAreInts, KeysAreNumbers
<1>5. PICK up : up = keys[K]
  OBVIOUS
<1>6. PICK l, r, U, V :
         /\ l = NonLeaf(SubSeq(keys, 1, K - 1), SubSeq(ps, 1, K), level)
         /\ r = NonLeaf(SubSeq(keys, K + 1, N), SubSeq(ps, K + 1, N + 1), level)
         /\ U = Less(S, up) /\ V = From(S, up)
  OBVIOUS
<1>7. Keeps(l, U, W) /\ Keeps(r, V, W)
  <2>1. K \in 1 .. N
    BY <1>2
  <2>2. Over(keys, ps, N, S, W)
    BY <1>2, <1>3, <1>4 DEF Over
  <2>3. /\ Keeps(NonLeaf(SubSeq(keys, 1, K - 1), SubSeq(ps, 1, K), level), Less(S, up), W)
        /\ Keeps(NonLeaf(SubSeq(keys, K + 1, N), SubSeq(ps, K + 1, N + 1), level),
                 From(S, up), W)
    BY <1>5, <2>1, <2>2, PartsKept
  <2> QED  BY <1>6, <2>3
<1>8. up \in S /\ \E x \in S : x < up
  <2>1. 1 \in 1 .. N /\ K \in 1 .. N /\ 1 < K
    BY <1>2
  <2>2. keys[1] < keys[K]
    BY <1>2, <1>3, <2>1 DEF Ascending
  <2>3. keys[1] \in S /\ keys[K] \in S
    BY <1>2, <1>3, <2>1, SetOf
  <2> QED  BY <1>5, <2>2, <2>3
<1>9. /\ SplitNonLeaf(node, k, q).left = l /\ SplitNonLeaf(node, k, q).right = WithChild(r, k, q)
      /\ SplitNonLeaf(node, k, q).up = up
  <2>1. PICK f : f = FindIndex(keys, k)
    OBVIOUS
  <2>2. f >= K /\ f \in 0 .. N
    BY <1>1, <1>2, <1>4, <2>1, SomewhereInIt
  <2>3. ~(f < NonLeafSize \div 2)
    BY <1>1, <1>2, <2>2, KeptIs, NonLeafHalf
  <2> QED  BY <1>1, <1>5, <1>6, <2>1, <2>3 DEF SplitNonLeaf, Kept
<1>10. PICK s \in 1 .. N + 1 : c = ps[s]
  BY <1>1, <1>2, SetOf
<1>11. W[c] = {x \in S : FindIndex(keys, x) = s - 1}
  BY <1>3, <1>10
<1>12. k \in S /\ FindIndex(keys, k) = s - 1 /\ k \in W[c]
  BY <1>11 DEF Parted
<1>13. s > K
  BY <1>1, <1>2, <1>12
<1>14. \A i \in 1 .. N + 1 : ps[i] = c => i = s
  BY <1>3, <1>10, <1>11, <1>12
<1>15. Keeps(l, U, R)
  <2>1. PICK pl : pl = SubSeq(ps, 1, K)
    OBVIOUS
  <2>2. pl \in Seq(Nat) /\ Len(pl) = K /\ \A j \in 1 .. K : pl[j] = ps[j]
    <3>1. K \in 0 .. N + 1
      BY <1>2
    <3>2. LET a == SubSeq(ps, 1, K) IN
          a \in Seq(Nat) /\ Len(a) = K /\ \A j \in 1 .. K : a[j] = ps[j]
      BY <1>2, <3>1, PagesParted
    <3> QED  BY <2>1, <3>2
  <2>3. ASSUME NEW i \in 1 .. K PROVE R[pl[i]] = W[pl[i]]
    <3>1. i \in 1 .. N + 1 /\ i # s
      BY <1>2, <1>13
    <3>2. ps[i] # c /\ ps[i] \in ToSet(node.pages)
      BY <1>1, <1>2, <1>14, <3>1, SetOf
    <3> QED  BY <2>2, <3>2
  <2>4. DOMAIN pl = 1 .. K
    BY <2>2
  <2>5. ~l.leaf /\ l.pages = pl
    BY <1>6, <2>1 DEF NonLeaf
  <2> QED  BY <1>7, <2>3, <2>4, <2>5 DEF Keeps
<1>16. Keeps(WithChild(r, k, q), V, R)
  <2>1. PICK kr, pr : kr = SubSeq(keys, K + 1, N) /\ pr = SubSeq(ps, K + 1, N + 1)
    OBVIOUS
  <2>2. /\ pr \in Seq(Nat) /\ Len(pr) = N + 1 - K
        /\ \A j \in 1 .. N + 1 - K : pr[j] = ps[K + j]
    <3>1. K \in 0 .. N + 1
      BY <1>2
    <3>2. LET a == SubSeq(ps, K + 1, N + 1) IN
          /\ a \in Seq(Nat) /\ Len(a) = N + 1 - K
          /\ \A j \in 1 .. N + 1 - K : a[j] = ps[K + j]
      BY <1>2, <3>1, PagesParted
    <3> QED  BY <2>1, <3>2
  <2>3. kr \in Seq(Key) /\ Len(kr) = N - K
    <3>1. K \in 0 .. Len(keys)
      BY <1>2
    <3> QED  BY <1>2, <2>1, <3>1, Halves
  <2>4. PICK n \in Nat : n = N - K
    BY <1>2
  <2>5. \A j \in 1 .. n + 1 : K + j \in 1 .. N + 1
    BY <1>2, <2>4
  <2>6. \A p \in ToSet(pr) : p \in ToSet(node.pages)
    <3> SUFFICES ASSUME NEW p \in ToSet(pr) PROVE p \in ToSet(node.pages)
      OBVIOUS
    <3>1. PICK j \in 1 .. N + 1 - K : p = pr[j]
      BY <2>2, SetOf
    <3>2. K + j \in 1 .. N + 1
      BY <1>2
    <3>3. p = ps[K + j]
      BY <2>2, <3>1
    <3> QED  BY <1>1, <1>2, <3>2, <3>3, SetOf
  <2>7. c \in ToSet(pr)
    <3>1. PICK j : j = s - K
      OBVIOUS
    <3>2. j \in 1 .. N + 1 - K /\ K + j = s
      BY <1>2, <1>13, <3>1
    <3>3. c = pr[j]
      BY <1>10, <2>2, <3>2
    <3> QED  BY <2>2, <3>2, <3>3, SetOf
  <2>8. Len(pr) = n + 1 /\ Len(kr) = n
    BY <1>2, <2>2, <2>3, <2>4
  <2>9. InnerWith(r, n, ToSet(pr)) /\ r.pages = pr
    <3>1. InnerWith(NonLeaf(kr, pr, level), n, ToSet(pr))
      BY <1>2, <2>2, <2>3, <2>8, InnerIs
    <3> QED  BY <1>6, <2>1, <3>1 DEF NonLeaf
  <2>10. V \in SUBSET Int
    BY <1>6 DEF From
  <2>11. \A p \in ToSet(r.pages) : p # c => R[p] = W[p]
    BY <2>6, <2>9
  <2>12. c \in ToSet(r.pages)
    BY <2>7, <2>9
  <2> QED  BY <1>7, <2>9, <2>10, <2>11, <2>12, ChildKept
<1> QED  BY <1>6, <1>8, <1>9, <1>15, <1>16 DEF SplitAt

-----------------------------------------------------------------------------
(* A search comes to the pages that have to do with its key. *)

LEMMA LastOf ==
  ASSUME NEW S, NEW x \in S, NEW s \in Seq(S)
  PROVE  /\ <<x>> \o s \in Seq(S) /\ <<x>> \o s # <<>>
         /\ s = <<>> => Last(<<x>> \o s) = x
         /\ s # <<>> => Last(<<x>> \o s) = Last(s)
<1>1. PICK t : t = <<x>> \o s
  OBVIOUS
<1>2. /\ t \in Seq(S) /\ Len(t) = Len(s) + 1 /\ t[1] = x
      /\ \A i \in 1 .. Len(s) : t[i + 1] = s[i]
  BY <1>1
<1>3. t # <<>>
  BY <1>2
<1>4. s = <<>> => Last(t) = x
  BY <1>2 DEF Last
<1>5. s # <<>> => Last(t) = Last(s)
  BY <1>2 DEF Last
<1> QED  BY <1>1, <1>2, <1>3, <1>4, <1>5

(* The turn that k takes leads to the child that W gives it.               *)
LEMMA TurnKeeps ==
  ASSUME NEW node, NEW n \in Nat, NodeFits(node, n), ~node.leaf,
         NEW S, NEW W, Keeps(node, S, W), NEW k \in S
  PROVE  k \in W[node.pages[FindIndex(node.keys, k) + 1]]
<1>1. PICK m \in 1 .. NonLeafSize : InnerWith(node, m, 1 .. n)
  BY InnerFits
<1>2. PICK keys, ps : keys = node.keys /\ ps = node.pages
  OBVIOUS
<1>3. /\ keys \in Seq(Key) /\ Len(keys) = m /\ ps \in Seq(Nat) /\ Len(ps) = m + 1 /\ m \in Nat
  <2>1. node \in InnerNode /\ Len(keys) = m /\ Len(ps) = m + 1
    BY <1>1, <1>2 DEF InnerWith
  <2>2. keys \in Seq(Key) /\ ps \in Seq(Nat)
    BY <1>2, <2>1, InnerFields
  <2>3. m \in Nat
    BY SizeAssumption
  <2> QED  BY <2>1, <2>2, <2>3
<1>4. \A i \in 1 .. m + 1 : W[ps[i]] = {x \in S : FindIndex(keys, x) = i - 1}
  BY <1>2, <1>3 DEF Keeps
<1>5. FindIndex(keys, k) \in 0 .. m
  BY <1>3, FindIndexIs
<1>6. PICK f, i : f = FindIndex(keys, k) /\ i = f + 1
  OBVIOUS
<1>7. f \in 0 .. m
  BY <1>5, <1>6
<1>8. i \in 1 .. m + 1 /\ f = i - 1
  BY <1>3, <1>6, <1>7
<1> QED  BY <1>2, <1>4, <1>6, <1>8

(* When no page is half done, k comes to a leaf that has to do with it.    *)
LEMMA WayRanges ==
  ASSUME NEW h, Stands(nodes, h), NEW R, Ranged(nodes, h, R, R), R[rootPageNum] = Int, NEW k \in Int
  PROVE  k \in R[LeafFor(k)]
<1> DEFINE P == 1 .. Len(nodes)
<1>1. /\ h \in [P -> Nat] /\ Len(nodes) \in Nat /\ rootPageNum \in P
      /\ \A p \in P : NodeFits(nodes[p], Len(nodes))
      /\ \A p \in P : nodes[p].leaf <=> h[p] = 0
      /\ \A p \in P : ~nodes[p].leaf => (nodes[p].level = 1 <=> h[p] = 1)
  BY Standing DEF Stands
<1>2. \A p \in P : ~nodes[p].leaf => Child(p, k) \in P /\ h[p] = h[Child(p, k)] + 1
  BY TurnLeads DEF Child
<1>3. \A p \in P : ~nodes[p].leaf /\ k \in R[p] => k \in R[Child(p, k)]
  <2> SUFFICES ASSUME NEW p \in P, ~nodes[p].leaf, k \in R[p] PROVE k \in R[Child(p, k)]
    OBVIOUS
  <2>1. Keeps(nodes[p], R[p], R) /\ NodeFits(nodes[p], Len(nodes))
    BY <1>1 DEF Ranged
  <2>2. k \in R[nodes[p].pages[FindIndex(nodes[p].keys, k) + 1]]
    BY <1>1, <2>1, TurnKeeps
  <2> QED  BY <2>2 DEF Child
<1>4. PICK f : /\ Way(k) = <<rootPageNum>> \o IF nodeOccupancy = 0 THEN <<>> ELSE f[rootPageNum]
               /\ \A p \in P : Descends(f, k, p)
  BY WayUnfolds
<1>5. \A p \in P : ~nodes[p].leaf =>
         f[p] = <<Child(p, k)>> \o IF nodes[p].level = 1 THEN <<>> ELSE f[Child(p, k)]
  BY <1>4 DEF Descends
<1> HIDE DEF P
<1> DEFINE Leads(p) == f[p] \in Seq(P) /\ f[p] # <<>> /\ k \in R[Last(f[p])]
           Good(p) == ~nodes[p].leaf /\ k \in R[p] => Leads(p)
<1>6. \A p \in P : Good(p)
  <2> DEFINE Bad == {h[p] : p \in {q \in P : ~Good(q)}}
  <2> SUFFICES ASSUME Bad # {} PROVE FALSE
    OBVIOUS
  <2>1. PICK m \in Bad : \A n \in Bad : m <= n
    <3>1. Bad \in SUBSET Nat
      BY <1>1
    <3> HIDE DEF Bad
    <3> QED  BY <3>1, LeastNumber
  <2>2. PICK p \in P : h[p] = m /\ ~Good(p)
    BY <2>1
  <2>3. ~nodes[p].leaf /\ k \in R[p] /\ ~Leads(p)
    BY <2>2
  <2>4. PICK c \in P : c = Child(p, k) /\ h[p] = h[c] + 1 /\ h[c] \in Nat /\ k \in R[c]
    BY <1>1, <1>2, <1>3, <2>3
  <2>5. f[p] = <<c>> \o IF nodes[p].level = 1 THEN <<>> ELSE f[c]
    BY <1>5, <2>3, <2>4
  <2>6. CASE nodes[p].level = 1
    <3>1. f[p] = <<c>>
      BY <2>5, <2>6
    <3>2. f[p] \in Seq(P) /\ f[p] # <<>> /\ Last(f[p]) = c
      BY <3>1 DEF Last
    <3> QED  BY <2>3, <2>4, <3>2
  <2>7. CASE nodes[p].level # 1
    <3>1. ~nodes[c].leaf
      BY <1>1, <2>3, <2>4, <2>7
    <3>2. h[c] \notin Bad
      <4> HIDE DEF Bad
      <4>1. h[c] \in Bad => h[p] <= h[c]
        BY <2>1, <2>2
      <4> QED  BY <2>4, <4>1
    <3>3. Good(c)
      BY <3>2
    <3>4. Leads(c)
      BY <2>4, <3>1, <3>3
    <3>5. f[p] = <<c>> \o f[c]
      BY <2>5, <2>7
    <3>6. f[p] \in Seq(P) /\ f[p] # <<>> /\ Last(f[p]) = Last(f[c])
      BY <3>4, <3>5, LastOf
    <3> QED  BY <2>3, <3>4, <3>6
  <2> QED  BY <2>6, <2>7
<1>7. k \in R[rootPageNum]
  OBVIOUS
<1>8. CASE nodeOccupancy = 0
  <2>1. Way(k) = <<rootPageNum>>
    BY <1>4, <1>8
  <2>2. Last(Way(k)) = rootPageNum
    BY <2>1 DEF Last
  <2> QED  BY <1>7, <2>2 DEF LeafFor
<1>9. CASE nodeOccupancy # 0
  <2>1. ~nodes[rootPageNum].leaf
    BY <1>1, <1>9 DEF Stands, P
  <2>2. Leads(rootPageNum)
    BY <1>1, <1>6, <1>7, <2>1 DEF P
  <2>3. Way(k) = <<rootPageNum>> \o f[rootPageNum]
    BY <1>4, <1>9
  <2>4. Last(Way(k)) = Last(f[rootPageNum])
    <3>1. PICK w, q : w = f[rootPageNum] /\ q = rootPageNum
      OBVIOUS
    <3>2. w \in Seq(P) /\ w # <<>> /\ q \in P
      BY <1>1, <2>2, <3>1 DEF P
    <3>3. Last(<<q>> \o w) = Last(w)
      BY <3>2, LastOf
    <3> QED  BY <2>3, <3>1, <3>3
  <2> QED  BY <2>2, <2>4 DEF LeafFor
<1> QED  BY <1>8, <1>9

(* The page above the one that was split is found by any key of that one.  *)
LEMMA ParentFound ==
  ASSUME NEW ns, NEW h, Stands(ns, h), NEW R, NEW W, Ranged(ns, h, R, W), W[rootPageNum] = Int,
         NEW c \in 1 .. Len(ns), c # rootPageNum, h[c] < h[rootPageNum],
         NEW n, NEW key, HalfDone(R, W, c, n, key), ProbeKey(ns[c]) \in R[c]
  PROVE  /\ ParentIn(ns, c) # NoPage
         /\ c \in ToSet(ns[ParentIn(ns, c)].pages)
<1> DEFINE P == 1 .. Len(ns)
<1>1. /\ h \in [P -> Nat] /\ Len(ns) \in Nat /\ rootPageNum \in P
      /\ \A p \in P : NodeFits(ns[p], Len(ns))
      /\ \A p \in P : ns[p].leaf <=> h[p] = 0
  BY Standing DEF Stands
<1>2. PICK k : k = ProbeKey(ns[c])
  OBVIOUS
<1>3. /\ R \in [P -> SUBSET Int] /\ W \in [P -> SUBSET Int]
      /\ \A p, q \in P : p # q /\ h[p] = h[q] => R[p] \cap R[q] = {}
      /\ \A p \in P : Keeps(ns[p], R[p], W)
      /\ \A p \in P : p # c => W[p] = R[p]
  BY DEF Ranged, HalfDone
<1>4. k \in R[c] /\ k \in Int
  BY <1>2, <1>3
<1>5. PICK f : /\ ParentIn(ns, c) = f[rootPageNum]
               /\ \A p \in P : SeeksParent(f, ns, c, p)
  BY ParentUnfolds
<1>6. ASSUME NEW p \in P, ~ns[p].leaf
      PROVE  /\ Turn(ns, p, k) \in P /\ h[p] = h[Turn(ns, p, k)] + 1
             /\ f[p] = IF Turn(ns, p, k) = c THEN p ELSE f[Turn(ns, p, k)]
             /\ Turn(ns, p, k) \in ToSet(ns[p].pages)
             /\ k \in R[p] => k \in W[Turn(ns, p, k)]
  <2>1. Turn(ns, p, k) \in P /\ h[p] = h[Turn(ns, p, k)] + 1
    BY <1>6, TurnLeads DEF Turn
  <2>2. f[p] = IF Turn(ns, p, k) = c THEN p ELSE f[Turn(ns, p, k)]
    BY <1>2, <1>5, <1>6 DEF SeeksParent
  <2>3. Turn(ns, p, k) \in ToSet(ns[p].pages)
    BY <1>1, <1>6, TurnIs DEF Turn
  <2>4. k \in R[p] => k \in W[Turn(ns, p, k)]
    <3> SUFFICES ASSUME k \in R[p] PROVE k \in W[Turn(ns, p, k)]
      OBVIOUS
    <3>1. Keeps(ns[p], R[p], W) /\ NodeFits(ns[p], Len(ns))
      BY <1>1, <1>3
    <3> QED  BY <1>1, <1>6, <3>1, TurnKeeps DEF Turn
  <2> QED  BY <2>1, <2>2, <2>3, <2>4
<1> HIDE DEF P
<1> DEFINE Found(p) == f[p] \in P /\ c \in ToSet(ns[f[p]].pages)
           Good(p) == h[p] > h[c] /\ k \in R[p] => Found(p)
<1>7. \A p \in P : Good(p)
  <2> DEFINE Bad == {h[p] : p \in {q \in P : ~Good(q)}}
  <2> SUFFICES ASSUME Bad # {} PROVE FALSE
    OBVIOUS
  <2>1. PICK m \in Bad : \A i \in Bad : m <= i
    <3>1. Bad \in SUBSET Nat
      BY <1>1
    <3> HIDE DEF Bad
    <3> QED  BY <3>1, LeastNumber
  <2>2. PICK p \in P : h[p] = m /\ ~Good(p)
    BY <2>1
  <2>3. h[p] > h[c] /\ k \in R[p] /\ ~Found(p) /\ h[c] \in Nat /\ h[p] \in Nat
    BY <1>1, <2>2 DEF P
  <2>4. ~ns[p].leaf
    BY <1>1, <2>3
  <2>5. PICK t \in P : /\ t = Turn(ns, p, k) /\ h[p] = h[t] + 1
                       /\ f[p] = (IF t = c THEN p ELSE f[t])
                       /\ t \in ToSet(ns[p].pages) /\ k \in W[t]
    BY <1>6, <2>3, <2>4
  <2>6. t # c
    BY <2>3, <2>5
  <2>7. k \in R[t] /\ h[t] \in Nat
    BY <1>1, <1>3, <2>5, <2>6
  <2>8. h[t] # h[c]
    BY <1>3, <1>4, <2>6, <2>7 DEF P
  <2>9. h[t] > h[c]
    BY <2>3, <2>5, <2>7, <2>8
  <2>10. h[t] \notin Bad
    <3> HIDE DEF Bad
    <3>1. h[t] \in Bad => h[p] <= h[t]
      BY <2>1, <2>2
    <3> QED  BY <2>5, <2>7, <3>1
  <2>11. Good(t)
    BY <2>10
  <2>12. Found(t)
    BY <2>7, <2>9, <2>11
  <2> QED  BY <2>3, <2>5, <2>6, <2>12
<1>8. k \in R[rootPageNum]
  BY <1>1, <1>3, <1>4
<1>9. h[rootPageNum] > h[c]
  BY <1>1 DEF P
<1>10. Found(rootPageNum)
  BY <1>1, <1>7, <1>8, <1>9
<1> QED  BY <1>5, <1>10 DEF P, NoPage

-----------------------------------------------------------------------------
(* The leaves have the keys in the order in which they are chained. *)

AlongChain(ns, R, d) ==
    /\ Chained(ns, d)
    /\ \A p, q \in Leaves(ns) : d[p] > d[q] => \A x \in R[p], y \in R[q] : x < y

Lined(ns, R) == \E d : AlongChain(ns, R, d)

LEMMA LinedSame ==
  ASSUME NEW ns, NEW ms, SameLeaves(ns, ms), Len(ns) \in Nat, Len(ms) \in Nat,
         NEW R, Lined(ns, R), NEW Q, \A p \in Leaves(ns) : Q[p] = R[p]
  PROVE  Lined(ms, Q)
<1>1. PICK d : AlongChain(ns, R, d)
  BY DEF Lined
<1>2. Chained(ns, d)
  BY <1>1 DEF AlongChain
<1>3. PICK g : Chained(ms, g) /\ \A p \in Leaves(ns) : g[p] = d[p]
  BY <1>2, ChainedSame
<1>4. Leaves(ms) = Leaves(ns)
  BY DEF SameLeaves
<1>5. AlongChain(ms, Q, g)
  BY <1>1, <1>3, <1>4 DEF AlongChain
<1> QED  BY <1>5 DEF Lined

LEMMA LinedTakes ==
  ASSUME NEW ns, DOMAIN ns = 1 .. Len(ns), Len(ns) \in Nat, NEW R, Lined(ns, R),
         NEW p \in Leaves(ns), NEW a, a.leaf, a.right = ns[p].right,
         NEW ms, ms = [ns EXCEPT ![p] = a]
  PROVE  Lined(ms, R)
<1>1. PICK d : AlongChain(ns, R, d)
  BY DEF Lined
<1>2. p \in 1 .. Len(ns) /\ Leaves(ns) \subseteq 1 .. Len(ns)
  BY DEF Leaves
<1>3. Len(ms) = Len(ns) /\ ms[p] = a /\ \A q \in 1 .. Len(ns) : q # p => ms[q] = ns[q]
  BY <1>2
<1>4. Leaves(ms) = Leaves(ns)
  BY <1>2, <1>3 DEF Leaves
<1>5. \A q \in Leaves(ns) : ms[q].right = ns[q].right
  BY <1>2, <1>3
<1>6. Chained(ms, d)
  <2>1. Chained(ns, d)
    BY <1>1 DEF AlongChain
  <2>2. \A q \in Leaves(ns) : IF ms[q].right = NoPage THEN d[q] = 0
                             ELSE ms[q].right \in Leaves(ns) /\ d[q] = d[ms[q].right] + 1
    BY <1>5, <2>1 DEF Chained
  <2> QED  BY <1>3, <1>4, <2>1, <2>2 DEF Chained
<1>7. AlongChain(ms, R, d)
  BY <1>1, <1>4, <1>6 DEF AlongChain
<1> QED  BY <1>7 DEF Lined

LEMMA PutBehind ==
  ASSUME NEW S, NEW ns \in Seq(S), NEW p \in Leaves(ns), NEW a, NEW b, a.leaf, b.leaf,
         a.right = Len(ns) + 1, b.right = ns[p].right,
         NEW ms, ms = Append([ns EXCEPT ![p] = a], b)
  PROVE  Behind(ns, p, Len(ns) + 1, ms)
<1>1. PICK n : n = Len(ns) + 1
  OBVIOUS
<1>2. p \in 1 .. Len(ns) /\ Leaves(ns) \subseteq 1 .. Len(ns) /\ Len(ns) \in Nat
  BY DEF Leaves
<1>3. /\ Len(ms) = n /\ ms[p] = a /\ ms[n] = b
      /\ \A q \in 1 .. Len(ns) : q # p => ms[q] = ns[q]
  BY <1>1, <1>2
<1>4. /\ n \in 1 .. n /\ n \notin 1 .. Len(ns)
      /\ \A q \in 1 .. n : q \in 1 .. Len(ns) \/ q = n
      /\ \A q \in 1 .. Len(ns) : q \in 1 .. n
  BY <1>1, <1>2
<1>5. Leaves(ms) = Leaves(ns) \cup {n}
  <2>1. \A q \in 1 .. Len(ns) : ms[q].leaf <=> ns[q].leaf
    BY <1>2, <1>3 DEF Leaves
  <2> QED  BY <1>2, <1>3, <1>4, <2>1 DEF Leaves
<1>6. ms[p].right = n /\ ms[n].right = ns[p].right
  BY <1>1, <1>3
<1>7. \A q \in Leaves(ns) : q # p => ms[q].right = ns[q].right
  BY <1>2, <1>3
<1> QED  BY <1>1, <1>2, <1>3, <1>5, <1>6, <1>7 DEF Behind

(* A leaf was split, and n has the greater of its keys.                    *)
LEMMA LinedSplit ==
  ASSUME NEW ns, NEW R, Lined(ns, R), NEW p, NEW n, NEW ms, Behind(ns, p, n, ms),
         R \in [1 .. Len(ns) -> SUBSET Int],
         NEW Q, NEW k \in Int, \A q \in Leaves(ns) : q # p => Q[q] = R[q],
         Q[p] = {x \in R[p] : x < k}, Q[n] = {x \in R[p] : x >= k}
  PROVE  Lined(ms, Q)
<1>1. PICK d : AlongChain(ns, R, d)
  BY DEF Lined
<1>2. PICK g : Chained(ms, g) /\ Shifted(ns, d, p, n, g)
  BY <1>1, ChainedBehind DEF AlongChain
<1>3. /\ Leaves(ms) = Leaves(ns) \cup {n} /\ p \in Leaves(ns) /\ n \notin Leaves(ns)
      /\ \A q \in Leaves(ns) : d[q] \in Nat /\ R[q] \in SUBSET Int
      /\ \A q, r \in Leaves(ns) : d[q] = d[r] => q = r
      /\ g[n] = d[p]
      /\ \A q \in Leaves(ns) : g[q] = IF d[q] >= d[p] THEN d[q] + 1 ELSE d[q]
  <2>1. Leaves(ms) = Leaves(ns) \cup {n} /\ p \in Leaves(ns) /\ n = Len(ns) + 1 /\ Len(ns) \in Nat
    BY DEF Behind
  <2>2. n \notin Leaves(ns) /\ Leaves(ns) \subseteq 1 .. Len(ns)
    BY <2>1 DEF Leaves
  <2>3. \A q \in Leaves(ns) : d[q] \in Nat /\ R[q] \in SUBSET Int
    BY <1>1, <2>2 DEF AlongChain, Chained
  <2> QED  BY <1>1, <1>2, <2>1, <2>2, <2>3 DEF AlongChain, Chained, Shifted
<1>4. \A a, b \in Leaves(ns) : d[a] > d[b] => \A x \in R[a], y \in R[b] : x < y
  BY <1>1 DEF AlongChain
<1>5. Q[n] \subseteq R[p] /\ \A q \in Leaves(ns) : Q[q] \subseteq R[q]
  OBVIOUS
<1>6. ASSUME NEW a \in Leaves(ms), NEW b \in Leaves(ms), g[a] > g[b]
      PROVE  \A x \in Q[a], y \in Q[b] : x < y
  <2>1. (a \in Leaves(ns) \/ a = n) /\ (b \in Leaves(ns) \/ b = n)
    BY <1>3
  <2>2. CASE a \in Leaves(ns) /\ b \in Leaves(ns)
    <3>1. PICK i, j, m : i = d[a] /\ j = d[b] /\ m = d[p]
      OBVIOUS
    <3>2. /\ i \in Nat /\ j \in Nat /\ m \in Nat
          /\ g[a] = (IF i >= m THEN i + 1 ELSE i) /\ g[b] = (IF j >= m THEN j + 1 ELSE j)
      BY <1>3, <2>2, <3>1
    <3>3. i > j
      BY <1>6, <3>2
    <3> QED  BY <1>4, <1>5, <2>2, <3>1, <3>3
  <2>3. CASE a = n /\ b \in Leaves(ns)
    <3>1. d[p] > d[b]
      <4>1. PICK i, j : i = d[p] /\ j = d[b]
        OBVIOUS
      <4>2. i \in Nat /\ j \in Nat /\ i > (IF j >= i THEN j + 1 ELSE j)
        BY <1>3, <1>6, <2>3, <4>1
      <4> QED  BY <4>1, <4>2
    <3> QED  BY <1>3, <1>4, <1>5, <2>3, <3>1
  <2>4. CASE a = p /\ b = n
    <3>1. \A x \in Q[p], y \in Q[n] : x < y
      BY <1>3
    <3> QED  BY <2>4, <3>1
  <2>5. CASE a \in Leaves(ns) /\ a # p /\ b = n
    <3>1. d[a] > d[p]
      <4>1. PICK i, j : i = d[a] /\ j = d[p]
        OBVIOUS
      <4>2. i \in Nat /\ j \in Nat /\ (IF i >= j THEN i + 1 ELSE i) > j /\ i # j
        BY <1>3, <1>6, <2>5, <4>1
      <4> QED  BY <4>1, <4>2
    <3> QED  BY <1>3, <1>4, <1>5, <2>5, <3>1
  <2>6. CASE a = n /\ b = n
    <3>1. g[n] \in Nat
      BY <1>3
    <3> QED  BY <1>6, <2>6, <3>1
  <2> QED  BY <2>1, <2>2, <2>3, <2>4, <2>5, <2>6
<1>7. AlongChain(ms, Q, g)
  BY <1>2, <1>6 DEF AlongChain
<1> QED  BY <1>7 DEF Lined

-----------------------------------------------------------------------------
(* The invariant: every page has the keys that a search brings there. *)

(* What is left to do once a page was split: page c, the keys of which are *)
(* those around that of the entry.                                         *)
Pending(R, W) ==
    IF call.at \in {"parent", "newRoot"}
    THEN \E c \in 1 .. Len(nodes) :
            /\ HalfDone(R, W, c, call.prevId, call.currKey)
            /\ call.entry[1] \in W[c]
            /\ call.at = "parent" => c \in ToSet(nodes[call.currId].pages)
            /\ call.at = "newRoot" => c = rootPageNum
    ELSE W = R

InPlace(h) ==
    \E R, W : /\ Ranged(nodes, h, R, W) /\ W[rootPageNum] = Int /\ Pending(R, W)
              /\ Lined(nodes, R)

Orderly == call.at # "lost" /\ \E h : TreeOK(h) /\ InPlace(h)

(* No two records have one key.                                            *)
KeysDiffer == \A e, f \in Entry : e[1] = f[1] => e = f

(* A page takes the place of another one and has to do with the same keys. *)
LEMMA RangedWith ==
  ASSUME NEW ns, Len(ns) \in Nat, DOMAIN ns = 1 .. Len(ns), NEW h, NEW p \in 1 .. Len(ns), NEW U,
         U \in [1 .. Len(ns) -> SUBSET Int],
         \A q, r \in 1 .. Len(ns) : q # r /\ h[q] = h[r] => U[q] \cap U[r] = {},
         \A q \in 1 .. Len(ns) : q # p => Keeps(ns[q], U[q], U),
         NEW a, Keeps(a, U[p], U), NEW ms, ms = [ns EXCEPT ![p] = a]
  PROVE  Ranged(ms, h, U, U)
<1>1. Len(ms) = Len(ns) /\ \A q \in 1 .. Len(ns) : ms[q] = IF q = p THEN a ELSE ns[q]
  OBVIOUS
<1> QED  BY <1>1 DEF Ranged

(* A node that does not know the page that was split has nothing to learn. *)
LEMMA NotConcerned ==
  ASSUME NEW node, NEW S, NEW W, Keeps(node, S, W), NEW n, Below(node, n), NEW R, NEW c,
         \A r \in 1 .. n : r # c => W[r] = R[r], ~node.leaf => c \notin ToSet(node.pages)
  PROVE  Keeps(node, S, R)
<1>1. ~node.leaf => \A i \in DOMAIN node.pages : R[node.pages[i]] = W[node.pages[i]]
  BY DEF Below, ToSet
<1> QED  BY <1>1 DEF Keeps

(* A page to which keys are sent is the child of one page only.            *)
LEMMA OneParent ==
  ASSUME NEW ns, NEW h, Stands(ns, h), NEW R, NEW W, Ranged(ns, h, R, W),
         NEW p \in 1 .. Len(ns), ~ns[p].leaf, NEW q \in 1 .. Len(ns), ~ns[q].leaf, p # q,
         NEW c, W[c] # {}, c \in ToSet(ns[p].pages), c \in ToSet(ns[q].pages)
  PROVE  FALSE
<1>1. /\ h[p] = h[c] + 1 /\ h[q] = h[c] + 1
  BY Standing
<1>2. R[p] \cap R[q] = {}
  BY <1>1 DEF Ranged
<1>3. W[c] \subseteq R[p]
  BY DEF Ranged, Keeps, ToSet
<1>4. W[c] \subseteq R[q]
  BY DEF Ranged, Keeps, ToSet
<1> QED  BY <1>2, <1>3, <1>4

LEMMA ChildrenBelow ==
  ASSUME NEW ns, NEW h, Stands(ns, h), NEW q \in 1 .. Len(ns)
  PROVE  Below(ns[q], Len(ns))
BY Standing DEF Below

(* All but the page above know of the split.                               *)
LEMMA OthersSettled ==
  ASSUME NEW ns, NEW h, Stands(ns, h), NEW R, NEW W, Ranged(ns, h, R, W),
         NEW c, NEW n, NEW k, HalfDone(R, W, c, n, k),
         NEW p \in 1 .. Len(ns), ~ns[p].leaf, c \in ToSet(ns[p].pages)
  PROVE  \A q \in 1 .. Len(ns) : q # p => Keeps(ns[q], R[q], R)
<1> SUFFICES ASSUME NEW q \in 1 .. Len(ns), q # p PROVE Keeps(ns[q], R[q], R)
  OBVIOUS
<1>1. Keeps(ns[q], R[q], W) /\ \A r \in 1 .. Len(ns) : r # c => W[r] = R[r]
  BY DEF Ranged, HalfDone
<1>2. Below(ns[q], Len(ns))
  BY ChildrenBelow
<1>3. W[c] # {}
  BY DEF HalfDone, Parted
<1>4. ~ns[q].leaf => c \notin ToSet(ns[q].pages)
  BY <1>3, OneParent
<1>5. PICK node, S, N : node = ns[q] /\ S = R[q] /\ N = Len(ns)
  OBVIOUS
<1>6. /\ Keeps(node, S, W) /\ Below(node, N) /\ \A r \in 1 .. N : r # c => W[r] = R[r]
      /\ ~node.leaf => c \notin ToSet(node.pages)
  BY <1>1, <1>2, <1>4, <1>5
<1>7. Keeps(node, S, R)
  BY <1>6, NotConcerned
<1> QED  BY <1>5, <1>7

LEMMA ProbeIn ==
  ASSUME NEW node, NEW S, NEW W, Keeps(node, S, W),
         node.leaf => node.entries \in Seq(Entry) /\ Len(node.entries) >= 2,
         ~node.leaf => node.keys \in Seq(Key) /\ Len(node.keys) >= 1
  PROVE  ProbeKey(node) \in S
<1>1. ToSet(Keys(node)) \subseteq S
  BY DEF Keeps
<1>2. CASE node.leaf
  <2>1. PICK entries, keys : entries = node.entries /\ keys = EntryKeys(entries)
    OBVIOUS
  <2>2. Keys(node) = keys
    BY <1>2, <2>1 DEF Keys, EntryKeys
  <2>3. keys \in Seq(Int) /\ Len(keys) >= 2
    BY <1>2, <2>1, EntryKeysAre
  <2>4. keys[2] \in ToSet(keys)
    BY <2>3, SetOf
  <2> QED  BY <1>1, <1>2, <2>2, <2>4 DEF ProbeKey
<1>3. CASE ~node.leaf
  <2>1. PICK keys : keys = node.keys
    OBVIOUS
  <2>2. keys[1] \in ToSet(keys)
    BY <1>3, <2>1, SetOf
  <2> QED  BY <1>1, <1>3, <2>1, <2>2 DEF ProbeKey, Keys
<1> QED  BY <1>2, <1>3

(* A page was split in order: the page above it is found.                  *)
Splits(ns, g, R, W, c, n, k) ==
    /\ Stands(ns, g) /\ Ranged(ns, g, R, W) /\ W[rootPageNum] = Int
    /\ c \in 1 .. Len(ns) /\ HalfDone(R, W, c, n, k) /\ ProbeKey(ns[c]) \in R[c]

LEMMA SplitGoesUp ==
  ASSUME NEW ns, NEW g, NEW R, NEW W, NEW c, NEW n, NEW k, Splits(ns, g, R, W, c, n, k),
         NEW depth \in Nat, g[c] + depth = g[rootPageNum], c = rootPageNum <=> depth = 0,
         NEW e, e[1] \in W[c],
         GoUp(ns, c, k, n, depth, e), ns = nodes', rootPageNum' = rootPageNum
  PROVE  call'.at # "lost" /\ Pending(R, W)'
<1>1. /\ Stands(ns, g) /\ Ranged(ns, g, R, W) /\ W[rootPageNum] = Int
      /\ c \in 1 .. Len(ns) /\ HalfDone(R, W, c, n, k) /\ ProbeKey(ns[c]) \in R[c]
  BY DEF Splits
<1>2. rootPageNum \in 1 .. Len(ns) /\ g \in [1 .. Len(ns) -> Nat]
  BY <1>1, Standing DEF Stands
<1>3. PICK parent : parent = ParentIn(ns, c)
  OBVIOUS
<1>4. CASE c = rootPageNum
  <2>1. parent = c /\ parent # NoPage
    BY <1>2, <1>3, <1>4 DEF ParentIn, NoPage
  <2>2. call' = [at |-> "newRoot", currId |-> parent, currKey |-> k, prevId |-> n,
                 currDepth |-> depth - 1, entry |-> e]
    BY <1>3, <1>4, <2>1 DEF GoUp
  <2> QED  BY <1>1, <1>4, <2>2 DEF Pending
<1>5. CASE c # rootPageNum
  <2>1. g[c] < g[rootPageNum]
    BY <1>1, <1>2, <1>5
  <2>2. parent # NoPage /\ c \in ToSet(ns[parent].pages)
    BY <1>1, <1>3, <1>5, <2>1, ParentFound
  <2>3. call' = [at |-> "parent", currId |-> parent, currKey |-> k, prevId |-> n,
                 currDepth |-> depth - 1, entry |-> e]
    BY <1>3, <1>5, <2>2 DEF GoUp
  <2> QED  BY <1>1, <2>2, <2>3 DEF Pending
<1> QED  BY <1>4, <1>5

(* A leaf has keys to do with when its entries do. *)
LEMMA LeafKeeps ==
  ASSUME NEW entries \in Seq(Entry), NEW right, NEW S, NEW W
  PROVE  Keeps(Leaf(entries, right), S, W) <=>
            Ascending(EntryKeys(entries)) /\ ToSet(EntryKeys(entries)) \subseteq S
<1>1. Keys(Leaf(entries, right)) = EntryKeys(entries) /\ Leaf(entries, right).leaf
  BY DEF Keys, Leaf, EntryKeys
<1> QED  BY <1>1 DEF Keeps

LEMMA LeafNodeIs ==
  ASSUME NEW node \in LeafNode
  PROVE  node = Leaf(node.entries, node.right) /\ node.leaf = TRUE
BY DEF LeafNode, Leaf

(* The heights of the same pages are the same. *)
LEMMA SameHeights ==
  ASSUME NEW h, NEW g, NEW P, h \in [P -> Nat], g \in [P -> Nat], Grown(h, g)
  PROVE  g = h
BY DEF Grown

(* A leaf that has the keys of S, and not that of entry e. *)
HasPlace(node, S, e) ==
    /\ node \in LeafNode
    /\ node.entries \in Seq(Entry) /\ Len(node.entries) <= LeafSize /\ node.right \in Nat
    /\ Ascending(EntryKeys(node.entries)) /\ ToSet(EntryKeys(node.entries)) \subseteq S
    /\ e[1] \in S /\ e[1] \notin ToSet(EntryKeys(node.entries))

(* What insertEntry finds: a leaf whose keys it keeps, and no such key.    *)
LEMMA LeafFound ==
  ASSUME KeysDiffer, ChainOK, NEW h, Stands(nodes, h), NEW R, Ranged(nodes, h, R, R),
         R[rootPageNum] = Int, NEW e \in Entry, e \notin tried, tried \subseteq Entry,
         NEW p, p = LeafFor(e[1])
  PROVE  p \in 1 .. Len(nodes) /\ h[p] = 0 /\ HasPlace(nodes[p], R[p], e)
<1>0. PICK node : node = nodes[p]
  OBVIOUS
<1> USE <1>0
<1>1. p \in 1 .. Len(nodes) /\ h[p] = 0 /\ node.leaf /\ NodeFits(node, Len(nodes))
  BY LeafForIs, Standing
<1>2. /\ node \in LeafNode /\ node.entries \in Seq(Entry) /\ Len(node.entries) <= LeafSize
      /\ node.right \in Nat
  BY <1>1, LeafFits
<1>3. Keeps(node, R[p], R)
  BY <1>1 DEF Ranged
<1>4. PICK entries, right, S : entries = node.entries /\ right = node.right /\ S = R[p]
  OBVIOUS
<1>5. Keeps(Leaf(entries, right), S, R) /\ entries \in Seq(Entry)
  BY <1>2, <1>3, <1>4, LeafNodeIs
<1>6. Ascending(EntryKeys(entries)) /\ ToSet(EntryKeys(entries)) \subseteq S
  BY <1>5, LeafKeeps
<1>7. e[1] \in R[p]
  BY EntryAssumption, WayRanges
<1>8. e[1] \notin ToSet(EntryKeys(entries))
  <2> SUFFICES ASSUME e[1] \in ToSet(EntryKeys(entries)) PROVE FALSE
    OBVIOUS
  <2>1. PICK f \in ToSet(entries) : e[1] = f[1]
    BY <1>5, EntryKeysAre
  <2>2. p \in Leaves(nodes) /\ ToSet(entries) = EntriesIn(nodes, p)
    BY <1>1, <1>4 DEF Leaves, EntriesIn
  <2>3. f \in tried
    BY <2>1, <2>2 DEF ChainOK, Apart
  <2> QED  BY <2>1, <2>3 DEF KeysDiffer
<1> QED  BY <1>1, <1>2, <1>4, <1>6, <1>7, <1>8 DEF HasPlace

LEMMA AtRestIs == AtRest.at = "idle"
BY DEF AtRest

LEMMA InsertKeepsPlace ==
  ASSUME KeysDiffer, IInv, ChainOK, NEW h, TreeOK(h), InPlace(h),
         NEW e \in Entry, InsertEntry(e), NEW g, Grown(h, g), TreeOK(g)'
  PROVE  call'.at # "lost" /\ InPlace(g)'
<1>1. /\ Stands(nodes, h) /\ OneTop(h) /\ call.at = "idle"
      /\ rootPageNum' = rootPageNum /\ nodeOccupancy' = nodeOccupancy
      /\ e \notin tried /\ tried \subseteq Entry
  BY DEF TreeOK, InsertEntry, Idle, Inserts, IInv, CountsOK
<1>2. PICK R : Ranged(nodes, h, R, R) /\ R[rootPageNum] = Int /\ Lined(nodes, R)
  BY <1>1 DEF InPlace, Pending
<1>3. PICK ns : ns = nodes' /\ Stands(ns, g)
  BY <1>1 DEF TreeOK, Stands
<1>4. PICK p, leaf : p = LeafFor(e[1]) /\ leaf = nodes[p]
  OBVIOUS
<1>5. /\ p \in 1 .. Len(nodes) /\ h[p] = 0 /\ leaf \in LeafNode
      /\ leaf.entries \in Seq(Entry) /\ Len(leaf.entries) <= LeafSize /\ leaf.right \in Nat
      /\ Ascending(EntryKeys(leaf.entries)) /\ ToSet(EntryKeys(leaf.entries)) \subseteq R[p]
      /\ e[1] \in R[p] /\ e[1] \notin ToSet(EntryKeys(leaf.entries))
  <2>1. p \in 1 .. Len(nodes) /\ h[p] = 0 /\ HasPlace(nodes[p], R[p], e)
    BY <1>1, <1>2, <1>4, LeafFound
  <2> QED  BY <1>4, <2>1 DEF HasPlace
<1>6. /\ Len(nodes) \in Nat /\ DOMAIN nodes = 1 .. Len(nodes) /\ h \in [1 .. Len(nodes) -> Nat]
      /\ rootPageNum \in 1 .. Len(nodes)
      /\ g \in [1 .. Len(ns) -> Nat]
      /\ \A q \in 1 .. Len(ns) : ns[q].leaf <=> g[q] = 0
      /\ nodes \in Seq(LeafNode \cup InnerNode)
  BY <1>1, <1>3, Standing DEF Stands, Shaped
<1>7. /\ R \in [1 .. Len(nodes) -> SUBSET Int]
      /\ \A q, r \in 1 .. Len(nodes) : q # r /\ h[q] = h[r] => R[q] \cap R[r] = {}
      /\ \A q \in 1 .. Len(nodes) : Keeps(nodes[q], R[q], R)
  BY <1>2 DEF Ranged
<1>8. CASE nodes' = nodes /\ call' = AtRest
  <2>1. g = h
    BY <1>3, <1>6, <1>8, SameHeights
  <2>2. Pending(R, R)'
    BY <1>8, AtRestIs DEF Pending
  <2>3. Lined(nodes', R)
    BY <1>2, <1>8
  <2> QED  BY <1>1, <1>2, <1>8, <2>1, <2>2, <2>3, AtRestIs DEF InPlace
<1>9. CASE /\ nodes' = [nodes EXCEPT ![p].entries = WithEntry(leaf.entries, e)]
           /\ call' = AtRest
  <2>1. PICK entries : entries = WithEntry(leaf.entries, e)
    OBVIOUS
  <2>2. /\ entries \in Seq(Entry) /\ Ascending(EntryKeys(entries))
        /\ ToSet(EntryKeys(entries)) \subseteq R[p]
    <3>1. PICK old : old = leaf.entries
      OBVIOUS
    <3>2. /\ old \in Seq(Entry) /\ Ascending(EntryKeys(old)) /\ e[1] \notin ToSet(EntryKeys(old))
          /\ entries = WithEntry(old, e)
      BY <1>5, <2>1, <3>1
    <3>3. /\ entries \in Seq(Entry) /\ Ascending(EntryKeys(entries))
          /\ ToSet(EntryKeys(entries)) = ToSet(EntryKeys(old)) \cup {e[1]}
      BY <3>2, EntryPlaced, EntryAscends
    <3> QED  BY <1>5, <3>1, <3>3
  <2>3. PICK a : a = Leaf(entries, leaf.right)
    OBVIOUS
  <2>4. ns = [nodes EXCEPT ![p] = a]
    <3>1. Shaped(nodes) /\ nodes[p].leaf
      BY <1>1, <1>4, <1>5, LeafNodeIs DEF Stands
    <3>2. [nodes EXCEPT ![p].entries = entries] = [nodes EXCEPT ![p] = Leaf(entries, nodes[p].right)]
      BY <1>5, <2>2, <3>1, LeafExcept
    <3> QED  BY <1>3, <1>4, <1>9, <2>1, <2>3, <3>2
  <2>5. Keeps(a, R[p], R)
    BY <2>2, <2>3, LeafKeeps
  <2>6. Len(ns) = Len(nodes)
    BY <1>6, <2>4
  <2>7. g = h
    BY <1>6, <2>6, SameHeights
  <2>8. Ranged(ns, h, R, R)
    BY <1>5, <1>6, <1>7, <2>4, <2>5, RangedWith
  <2>9. Pending(R, R)'
    BY <1>9, AtRestIs DEF Pending
  <2>10. Lined(ns, R)
    <3>1. PICK ms : ms = nodes
      OBVIOUS
    <3>2. a.leaf /\ a.right = leaf.right
      BY <2>3 DEF Leaf
    <3>3. p \in Leaves(ms) /\ a.right = ms[p].right
      BY <1>4, <1>5, <3>1, <3>2, LeafNodeIs DEF Leaves
    <3> QED  BY <1>2, <1>6, <2>4, <3>1, <3>2, <3>3, LinedTakes
  <2> QED  BY <1>1, <1>2, <1>3, <1>9, <2>7, <2>8, <2>9, <2>10, AtRestIs DEF InPlace
<1>10. CASE LET halves == SplitLeaf(leaf.entries, e)
                split == Append([nodes EXCEPT ![p] = Leaf(halves[1], NewPage)],
                                Leaf(halves[2], leaf.right))
            IN /\ ~Fits(leaf)
               /\ nodes' = split
               /\ GoUp(split, p, halves[2][1][1], NewPage, Len(Way(e[1])) - 1, e)
  <2>1. Len(leaf.entries) = LeafSize
    BY <1>5, <1>10, SizeAssumption DEF Fits
  <2>2. PICK n, l, r, entries : /\ n = Len(nodes) + 1 /\ SplitLeaf(leaf.entries, e) = <<l, r>>
                                /\ entries = leaf.entries
    BY DEF SplitLeaf
  <2>3. /\ l \in Seq(Entry) /\ r \in Seq(Entry) /\ Len(l) \in 1 .. LeafSize
    BY <1>5, <2>1, <2>2, LeafSplitInTwo
  <2>4. PICK a, b, up : /\ a = Leaf(l, n) /\ b = Leaf(r, leaf.right) /\ up = r[1][1]
    OBVIOUS
  <2>5. /\ ns = Append([nodes EXCEPT ![p] = a], b)
        /\ GoUp(ns, p, up, n, Len(Way(e[1])) - 1, e)
    BY <1>3, <1>10, <2>2, <2>4 DEF NewPage
  <2>6. /\ InOrderAt(l, r, ToSet(EntryKeys(entries)) \cup {e[1]}, up)
        /\ Len(l) >= 2
    BY <1>5, <2>1, <2>2, <2>4, LeafSplitOrder
  <2>7. /\ Ascending(EntryKeys(l)) /\ Ascending(EntryKeys(r))
        /\ ToSet(EntryKeys(l)) \subseteq Less(R[p], up)
        /\ ToSet(EntryKeys(r)) \subseteq From(R[p], up)
        /\ up \in R[p]
    BY <1>5, <2>2, <2>6 DEF InOrderAt, Less, From
  <2>8. Keeps(a, Less(R[p], up), R) /\ Keeps(b, From(R[p], up), R)
    BY <2>3, <2>4, <2>7, LeafKeeps
  <2>9. a.leaf /\ b.leaf /\ a.entries = l
    BY <2>4 DEF Leaf
  <2>10. \E x \in R[p] : x < up
    <3>1. EntryKeys(l) \in Seq(Int) /\ Len(EntryKeys(l)) = Len(l)
      BY <2>3, EntryKeysAre
    <3>2. PICK ks : ks = EntryKeys(l)
      OBVIOUS
    <3>3. ks[1] \in ToSet(ks)
      BY <2>6, <3>1, <3>2, SetOf
    <3> QED  BY <2>7, <3>2, <3>3 DEF Less
  <2>11. AllBut(nodes, h, R, p, a, b, up)
    <3>1. \A q \in 1 .. Len(nodes) : Below(nodes[q], Len(nodes))
      BY <1>1, ChildrenBelow
    <3>2. Below(a, Len(nodes)) /\ Below(b, Len(nodes))
      BY <2>9 DEF Below
    <3> QED  BY <1>5, <1>6, <1>7, <2>7, <2>8, <2>10, <3>1, <3>2 DEF AllBut
  <2>12. Len(ns) = n /\ ns[p] = a /\ ns[n] = b
    BY <1>5, <1>6, <2>2, <2>5
  <2>13. g[n] = h[p] /\ \A q \in 1 .. Len(nodes) : g[q] = h[q]
    <3>1. n \in 1 .. Len(ns)
      BY <1>6, <2>2, <2>12
    <3> QED  BY <1>5, <1>6, <2>9, <2>12, <3>1 DEF Grown
  <2>14. PICK Q, W : /\ Ranged(ns, g, Q, W) /\ HalfDone(Q, W, p, n, up)
                     /\ \A q \in 1 .. Len(nodes) : W[q] = R[q]
    <3>1. g[Len(nodes) + 1] = h[p] /\ n = Len(nodes) + 1
      BY <2>2, <2>13
    <3>2. PICK ms : ms = nodes
      OBVIOUS
    <3>3. /\ AllBut(ms, h, R, p, a, b, up) /\ \A q \in 1 .. Len(ms) : g[q] = h[q]
          /\ g[Len(ms) + 1] = h[p] /\ ns = Append([ms EXCEPT ![p] = a], b)
      BY <2>5, <2>11, <2>13, <3>1, <3>2
    <3>4. Halved(ns, g, R, p, Len(ms) + 1, up)
      BY <3>3, HalvesRanged
    <3> QED  BY <1>7, <3>1, <3>2, <3>4 DEF Halved
  <2>15. ProbeKey(ns[p]) \in Q[p]
    <3>1. Keeps(a, Q[p], W)
      BY <1>5, <2>2, <2>12, <2>14, <1>6 DEF Ranged
    <3> QED  BY <2>3, <2>6, <2>9, <2>12, <3>1, ProbeIn
  <2>16. Splits(ns, g, Q, W, p, n, up)
    <3>1. p \in 1 .. Len(ns)
      BY <1>5, <1>6, <2>2, <2>12
    <3> QED  BY <1>2, <1>3, <1>6, <2>14, <2>15, <3>1 DEF Splits
  <2>17. PICK depth : depth = Len(Way(e[1])) - 1
    OBVIOUS
  <2>18. depth = h[rootPageNum]
    BY <1>1, <2>17, LeafForIs
  <2>19. depth \in Nat /\ g[p] + depth = g[rootPageNum]
    BY <1>5, <1>6, <2>13, <2>18
  <2>20. p = rootPageNum <=> depth = 0
    BY <1>1, <1>5, <1>6, <2>18 DEF OneTop
  <2>21. call'.at # "lost" /\ Pending(Q, W)'
    <3>1. e[1] \in W[p]
      BY <1>5, <2>14
    <3> QED  BY <1>1, <1>3, <2>5, <2>16, <2>17, <2>19, <2>20, <3>1, SplitGoesUp
  <2>22. Ranged(nodes', g, Q, W) /\ W[rootPageNum'] = Int
    BY <1>1, <1>2, <1>3, <1>6, <2>14
  <2>23. Lined(ns, Q)
    <3>1. PICK ms : ms = nodes
      OBVIOUS
    <3>2. a.leaf /\ b.leaf /\ a.right = Len(ms) + 1 /\ b.right = leaf.right
      BY <2>2, <2>4, <3>1 DEF Leaf
    <3>3. p \in Leaves(ms) /\ b.right = ms[p].right
      BY <1>4, <1>5, <3>1, <3>2, LeafNodeIs DEF Leaves
    <3>4. Behind(ms, p, Len(ms) + 1, ns)
      BY <1>6, <2>5, <3>1, <3>2, <3>3, PutBehind
    <3>5. Behind(ms, p, n, ns) /\ Lined(ms, R) /\ R \in [1 .. Len(ms) -> SUBSET Int]
      BY <1>2, <1>7, <2>2, <3>1, <3>4
    <3>6. up \in Int
      BY <1>5, <1>7, <2>7
    <3>7. \A q \in Leaves(ms) : q # p => Q[q] = R[q]
      <4>1. \A q \in DOMAIN Q : q # p => W[q] = Q[q]
        BY <2>14 DEF HalfDone
      <4>2. \A q \in Leaves(ms) : q \in 1 .. Len(nodes) /\ q \in DOMAIN Q
        <5>1. DOMAIN Q = 1 .. n
          BY <2>12, <2>14 DEF Ranged
        <5> QED  BY <1>6, <2>2, <3>1, <5>1 DEF Leaves
      <4> QED  BY <2>14, <4>1, <4>2
    <3>8. Q[p] = {x \in R[p] : x < up} /\ Q[n] = {x \in R[p] : x >= up}
      BY <1>5, <2>14 DEF HalfDone, Parted
    <3> QED  BY <3>5, <3>6, <3>7, <3>8, LinedSplit
  <2>24. Lined(nodes', Q)
    BY <1>3, <2>23
  <2> QED  BY <2>21, <2>22, <2>24 DEF InPlace
<1> QED  BY <1>4, <1>8, <1>9, <1>10 DEF InsertEntry, Ended

(* A full non-leaf node is entered at or right of the key that moves up.   *)
SplitsRight ==
    call.at = "parent" /\ Len(nodes[call.currId].keys) = NonLeafSize =>
        FindIndex(nodes[call.currId].keys, call.currKey) >= Kept

(* A node at height n that all takes to be a node over keys of its own.    *)
InnerFull(node, n) == node.keys \in Seq(Key) /\ Len(node.keys) >= 1 /\ ~node.leaf /\ Below(node, n)

LEMMA InnerIsFull ==
  ASSUME NEW node, NEW n \in Nat, NEW m \in 1 .. NonLeafSize, InnerWith(node, m, 1 .. n)
  PROVE  InnerFull(node, n)
<1>1. node.keys \in Seq(Key) /\ ~node.leaf
  BY InnerFields DEF InnerWith
<1> QED  BY <1>1, SizeAssumption DEF InnerWith, InnerFull, Below

LEMMA EnterKeepsPlace ==
  ASSUME IInv, NEW h, TreeOK(h), InPlace(h), SplitsRight,
         EnterIntoParent, outcome'.res # "BufferExceeded",
         NEW g, Grown(h, g), TreeOK(g)'
  PROVE  call'.at # "lost" /\ InPlace(g)'
<1>1. /\ Stands(nodes, h) /\ OneTop(h) /\ CallOK(h) /\ call.at = "parent"
      /\ rootPageNum' = rootPageNum /\ nodeOccupancy' = nodeOccupancy + 1
      /\ nodeOccupancy \in Nat
  BY DEF TreeOK, EnterIntoParent, IInv, CountsOK
<1>2. PICK p, q, key, node, depth, e :
         /\ p = call.currId /\ q = call.prevId /\ key = call.currKey /\ node = nodes[p]
         /\ depth = call.currDepth /\ e = call.entry
  OBVIOUS
<1>3. PICK R, W : /\ Ranged(nodes, h, R, W) /\ W[rootPageNum] = Int /\ Pending(R, W)
                  /\ Lined(nodes, R)
  BY DEF InPlace
<1>4. PICK c \in 1 .. Len(nodes) : /\ HalfDone(R, W, c, q, key) /\ c \in ToSet(node.pages)
                                  /\ e[1] \in W[c]
  BY <1>1, <1>2, <1>3 DEF Pending
<1>5. /\ p \in 1 .. Len(nodes) /\ q \in 1 .. Len(nodes) /\ key \in Key /\ depth \in Nat
      /\ h[p] = h[q] + 1 /\ h[p] + depth = h[rootPageNum]
  BY <1>1, <1>2 DEF CallOK
<1>6. /\ Len(nodes) \in Nat /\ DOMAIN nodes = 1 .. Len(nodes) /\ h \in [1 .. Len(nodes) -> Nat]
      /\ rootPageNum \in 1 .. Len(nodes)
      /\ \A r \in 1 .. Len(nodes) : h[r] <= h[rootPageNum]
      /\ nodes \in Seq(LeafNode \cup InnerNode)
      /\ \A r \in 1 .. Len(nodes) : nodes[r].leaf <=> h[r] = 0
      /\ NodeFits(node, Len(nodes))
      /\ ~node.leaf => \A r \in ToSet(node.pages) : r \in 1 .. Len(nodes) /\ h[p] = h[r] + 1
  <2>1. /\ DOMAIN nodes = 1 .. Len(nodes) /\ Len(nodes) \in Nat /\ h \in [1 .. Len(nodes) -> Nat]
        /\ \A r \in 1 .. Len(nodes) : NodeFits(nodes[r], Len(nodes))
        /\ \A r \in 1 .. Len(nodes) : nodes[r].leaf <=> h[r] = 0
        /\ \A r \in 1 .. Len(nodes) : ~nodes[r].leaf =>
              \A s \in ToSet(nodes[r].pages) : s \in 1 .. Len(nodes) /\ h[r] = h[s] + 1
    BY <1>1, Standing
  <2>2. /\ rootPageNum \in 1 .. Len(nodes)
        /\ \A r \in 1 .. Len(nodes) : h[r] <= h[rootPageNum]
        /\ nodes \in Seq(LeafNode \cup InnerNode)
    BY <1>1 DEF Stands, Shaped
  <2> QED  BY <1>2, <1>5, <2>1, <2>2
<1>7. h[p] \in Nat /\ h[q] \in Nat /\ h[p] # 0 /\ ~node.leaf /\ q \in Nat
  <2>1. h[p] \in Nat /\ h[q] \in Nat /\ q \in Nat
    BY <1>5, <1>6
  <2>2. h[p] # 0
    BY <1>5, <2>1
  <2> QED  BY <1>2, <1>5, <1>6, <2>1, <2>2
<1>8. h[p] = h[c] + 1 /\ c # rootPageNum
  <2>1. h[p] = h[c] + 1 /\ h[c] \in Nat
    BY <1>4, <1>6, <1>7
  <2>2. h[c] < h[rootPageNum]
    BY <1>5, <1>6, <1>7, <2>1
  <2> QED  BY <1>6, <2>1, <2>2
<1>9. R[rootPageNum] = Int
  <2>1. \A r \in DOMAIN R : r # c => W[r] = R[r]
    BY <1>4 DEF HalfDone
  <2>2. rootPageNum \in DOMAIN R
    BY <1>3, <1>6 DEF Ranged
  <2> QED  BY <1>3, <1>8, <2>1, <2>2
<1>10. /\ R \in [1 .. Len(nodes) -> SUBSET Int]
       /\ \A r, s \in 1 .. Len(nodes) : r # s /\ h[r] = h[s] => R[r] \cap R[s] = {}
       /\ Keeps(node, R[p], W)
       /\ Parted(W, R, c, q, key)
       /\ \A r \in 1 .. Len(nodes) : r # c => R[r] = W[r]
  BY <1>2, <1>3, <1>4, <1>5 DEF Ranged, HalfDone
<1>11. \A r \in 1 .. Len(nodes) : r # p => Keeps(nodes[r], R[r], R)
  BY <1>1, <1>2, <1>3, <1>4, <1>5, <1>7, OthersSettled
<1>12. PICK m \in 1 .. NonLeafSize : InnerWith(node, m, 1 .. Len(nodes))
  BY <1>6, <1>7, InnerFits
<1>13. /\ m \in Nat /\ Len(node.keys) = m /\ ToSet(node.pages) \subseteq 1 .. Len(nodes)
       /\ InnerWith(node, m, ToSet(node.pages))
  <2>1. m \in Nat
    BY SizeAssumption
  <2> QED  BY <1>12, <2>1 DEF InnerWith
<1>14. PICK ns : ns = nodes' /\ Stands(ns, g)
  <2>1. nodeOccupancy' # 0 /\ nodeOccupancy # 0
    <3>1. h[rootPageNum] # 0
      BY <1>5, <1>6, <1>7
    <3> QED  BY <1>1, <3>1 DEF Stands
  <2>2. Stands(nodes, g)'
    BY DEF TreeOK
  <2> QED  BY <1>1, <2>1, <2>2 DEF Stands
<1>15. /\ g \in [1 .. Len(ns) -> Nat] /\ DOMAIN ns = 1 .. Len(ns)
       /\ \A r \in 1 .. Len(ns) : NodeFits(ns[r], Len(ns))
       /\ \A r \in 1 .. Len(ns) : ns[r].leaf <=> g[r] = 0
       /\ \A r \in 1 .. Len(ns) : ~ns[r].leaf =>
             \A s \in ToSet(ns[r].pages) : s \in 1 .. Len(ns) /\ g[r] = g[s] + 1
  BY <1>14, Standing
<1>16. CASE nodes' = [nodes EXCEPT ![p] = WithChild(node, key, q)] /\ call' = AtRest
  <2>1. PICK a, S : a = WithChild(node, key, q) /\ S = R[p]
    OBVIOUS
  <2>2. Keeps(a, S, R)
    <3>1. S \in SUBSET Int /\ Keeps(node, S, W) /\ \A r \in ToSet(node.pages) : r # c => R[r] = W[r]
      BY <1>5, <1>10, <1>13, <2>1
    <3>2. Keeps(WithChild(node, key, q), S, R)
      BY <1>4, <1>5, <1>7, <1>10, <1>13, <3>1, ChildKept
    <3> QED  BY <2>1, <3>2
  <2>3. ns = [nodes EXCEPT ![p] = a]
    BY <1>14, <1>16, <2>1
  <2>4. Len(ns) = Len(nodes)
    BY <1>6, <2>3
  <2>5. g = h
    BY <1>6, <1>15, <2>4, SameHeights
  <2>6. Ranged(ns, h, R, R)
    BY <1>5, <1>6, <1>10, <1>11, <2>1, <2>2, <2>3, RangedWith
  <2>7. Pending(R, R)'
    BY <1>16, AtRestIs DEF Pending
  <2>8. Lined(nodes', R)
    <3>1. ~a.leaf
      BY <2>1, InnerNotLeaf
    <3>2. PICK ms : ms = nodes
      OBVIOUS
    <3>3. ms \in Seq(LeafNode \cup InnerNode) /\ p \in 1 .. Len(ms) /\ ~ms[p].leaf
      BY <1>2, <1>5, <1>6, <1>7, <3>2
    <3>4. SameLeaves(ms, [ms EXCEPT ![p] = a]) /\ Len([ms EXCEPT ![p] = a]) \in Nat
      BY <3>1, <3>3, LeavesStay
    <3>5. SameLeaves(ms, ns) /\ Len(ns) \in Nat /\ Len(ms) \in Nat /\ Lined(ms, R)
      BY <1>3, <1>6, <2>3, <3>2, <3>4
    <3>6. Lined(ns, R)
      BY <3>5, LinedSame
    <3> QED  BY <1>14, <3>6
  <2> QED  BY <1>1, <1>9, <1>14, <1>16, <2>5, <2>6, <2>7, <2>8, AtRestIs DEF InPlace
<1>17. CASE LET halves == SplitNonLeaf(node, key, q)
                split == Append([nodes EXCEPT ![p] = halves.left], halves.right)
            IN /\ Len(node.keys) = NonLeafSize
               /\ nodes' = split
               /\ GoUp(split, p, halves.up, NewPage, depth, e)
  <2>1. PICK n, a, b, up : /\ n = Len(nodes) + 1
                           /\ a = SplitNonLeaf(node, key, q).left
                           /\ b = SplitNonLeaf(node, key, q).right
                           /\ up = SplitNonLeaf(node, key, q).up
    OBVIOUS
  <2>2. /\ ns = Append([nodes EXCEPT ![p] = a], b)
        /\ GoUp(ns, p, up, n, depth, e)
    BY <1>14, <1>17, <2>1 DEF NewPage
  <2>3. SplitAt(a, b, R[p], R, up)
    <3>1. FindIndex(node.keys, key) >= Kept
      BY <1>1, <1>2, <1>17 DEF SplitsRight
    <3>2. PICK S, pages : S = R[p] /\ pages = ToSet(node.pages)
      OBVIOUS
    <3>3. /\ S \in SUBSET Int /\ Keeps(node, S, W)
          /\ \A r \in ToSet(node.pages) : r # c => R[r] = W[r]
          /\ InnerWith(node, NonLeafSize, pages)
      BY <1>5, <1>10, <1>13, <1>17, <3>2
    <3>4. LET split == SplitNonLeaf(node, key, q) IN
          SplitAt(split.left, split.right, S, R, split.up)
      BY <1>4, <1>5, <1>7, <1>10, <3>1, <3>3, NonLeafSplitOrder
    <3> QED  BY <2>1, <3>2, <3>4
  <2>4. InnerFull(a, Len(nodes)) /\ InnerFull(b, Len(nodes))
    <3>1. PICK pages : pages = 1 .. Len(nodes)
      OBVIOUS
    <3>2. InnerWith(node, NonLeafSize, pages) /\ pages \cup {q} = 1 .. Len(nodes)
      BY <1>5, <1>12, <1>13, <1>17, <3>1
    <3>3. /\ \E i \in 1 .. NonLeafSize : InnerWith(a, i, pages \cup {q})
          /\ \E i \in 1 .. NonLeafSize : InnerWith(b, i, pages \cup {q})
      BY <1>5, <1>7, <2>1, <3>2, NonLeafSplitInTwo
    <3>4. PICK i \in 1 .. NonLeafSize : InnerWith(a, i, 1 .. Len(nodes))
      BY <3>2, <3>3
    <3>5. PICK j \in 1 .. NonLeafSize : InnerWith(b, j, 1 .. Len(nodes))
      BY <3>2, <3>3
    <3> QED  BY <1>6, <3>4, <3>5, InnerIsFull
  <2>5. AllBut(nodes, h, R, p, a, b, up)
    <3>1. \A r \in 1 .. Len(nodes) : Below(nodes[r], Len(nodes))
      BY <1>1, ChildrenBelow
    <3> QED  BY <1>5, <1>6, <1>10, <1>11, <2>3, <2>4, <3>1 DEF AllBut, SplitAt, InnerFull
  <2>6. Len(ns) = n /\ ns[p] = a /\ ns[n] = b /\ n \in 1 .. n /\ p \in 1 .. n
    <3>1. n \in Nat /\ p \in 1 .. n /\ n \in 1 .. n
      BY <1>5, <1>6, <2>1
    <3> QED  BY <1>5, <1>6, <2>1, <2>2, <3>1
  <2>7. \A r \in 1 .. Len(nodes) : g[r] = h[r]
    BY <1>6 DEF Grown
  <2>8. g[n] = h[p]
    <3>1. PICK i \in 1 .. NonLeafSize : InnerWith(b, i, 1 .. n)
      <4>1. NodeFits(b, n) /\ ~b.leaf
        BY <1>15, <2>4, <2>6 DEF InnerFull
      <4> QED  BY <4>1, InnerFits
    <3>2. PICK r : r = b.pages[1]
      OBVIOUS
    <3>3. r \in ToSet(b.pages)
      <4>1. PICK ps : ps = b.pages
        OBVIOUS
      <4>2. ps \in Seq(Nat) /\ Len(ps) = i + 1 /\ i \in 1 .. NonLeafSize
        BY <3>1, <4>1, InnerFields DEF InnerWith
      <4>3. 1 \in 1 .. Len(ps)
        BY <4>2, SizeAssumption
      <4> QED  BY <3>2, <4>1, <4>2, <4>3, SetOf
    <3>4. PICK s : s = a.pages[1]
      OBVIOUS
    <3>5. r \in 1 .. Len(nodes) /\ g[n] = g[r] + 1
      BY <1>15, <2>4, <2>6, <3>3 DEF InnerFull, Below
    <3>6. r \in ToSet(node.pages) \cup {q}
      <4>1. PICK pages : pages = ToSet(node.pages)
        OBVIOUS
      <4>2. InnerWith(node, NonLeafSize, pages)
        BY <1>13, <1>17, <4>1
      <4>3. \E j \in 1 .. NonLeafSize : InnerWith(b, j, pages \cup {q})
        BY <1>5, <1>7, <2>1, <4>2, NonLeafSplitInTwo
      <4> QED  BY <3>3, <4>1, <4>3 DEF InnerWith
    <3>7. h[p] = h[r] + 1
      BY <1>5, <1>6, <1>7, <3>6
    <3> QED  BY <2>7, <3>5, <3>7
  <2>9. PICK Q, V : /\ Ranged(ns, g, Q, V) /\ HalfDone(Q, V, p, n, up)
                    /\ \A r \in 1 .. Len(nodes) : V[r] = R[r]
    <3>1. PICK ms : ms = nodes
      OBVIOUS
    <3>2. /\ AllBut(ms, h, R, p, a, b, up) /\ \A r \in 1 .. Len(ms) : g[r] = h[r]
          /\ g[Len(ms) + 1] = h[p] /\ ns = Append([ms EXCEPT ![p] = a], b)
      BY <2>1, <2>2, <2>5, <2>7, <2>8, <3>1
    <3>3. Halved(ns, g, R, p, Len(ms) + 1, up)
      BY <3>2, HalvesRanged
    <3> QED  BY <1>10, <2>1, <3>1, <3>3 DEF Halved
  <2>10. ProbeKey(ns[p]) \in Q[p]
    <3>1. Keeps(a, Q[p], V)
      BY <2>6, <2>9 DEF Ranged
    <3> QED  BY <2>4, <2>6, <3>1, ProbeIn DEF InnerFull
  <2>11. Splits(ns, g, Q, V, p, n, up)
    BY <1>6, <1>9, <1>14, <2>6, <2>9, <2>10 DEF Splits
  <2>12. g[p] + depth = g[rootPageNum]
    BY <1>5, <1>6, <2>7
  <2>13. p = rootPageNum <=> depth = 0
    <3>1. h[p] \in Nat /\ h[rootPageNum] \in Nat
      BY <1>6, <1>7
    <3>2. h[p] = h[rootPageNum] => p = rootPageNum
      BY <1>1, <1>5 DEF OneTop
    <3> QED  BY <1>5, <3>1, <3>2
  <2>14. call'.at # "lost" /\ Pending(Q, V)'
    <3>1. W[c] \subseteq R[p]
      BY <1>4, <1>7, <1>10 DEF Keeps, ToSet
    <3>2. e[1] \in V[p]
      BY <1>4, <1>5, <2>9, <3>1
    <3> QED  BY <1>1, <1>5, <1>14, <2>2, <2>11, <2>12, <2>13, <3>2, SplitGoesUp
  <2>15. Ranged(nodes', g, Q, V) /\ V[rootPageNum'] = Int
    BY <1>1, <1>6, <1>9, <1>14, <2>9
  <2>16. Lined(nodes', Q)
    <3>1. ~a.leaf /\ ~b.leaf
      BY <2>4 DEF InnerFull
    <3>2. PICK ms : ms = nodes
      OBVIOUS
    <3>3. ms \in Seq(LeafNode \cup InnerNode) /\ p \in 1 .. Len(ms) /\ ~ms[p].leaf
      BY <1>2, <1>5, <1>6, <1>7, <3>2
    <3>4. /\ SameLeaves(ms, Append([ms EXCEPT ![p] = a], b))
          /\ Len(Append([ms EXCEPT ![p] = a], b)) \in Nat
      BY <3>1, <3>3, LeavesStay
    <3>5. SameLeaves(ms, ns) /\ Len(ns) \in Nat /\ Len(ms) \in Nat /\ Lined(ms, R)
      BY <1>3, <1>6, <2>2, <3>2, <3>4
    <3>6. \A r \in Leaves(ms) : Q[r] = R[r]
      <4>1. \A r \in DOMAIN Q : r # p => V[r] = Q[r]
        BY <2>9 DEF HalfDone
      <4>2. \A r \in Leaves(ms) : r \in 1 .. Len(nodes) /\ r # p
        BY <3>2, <3>3 DEF Leaves
      <4>3. \A r \in 1 .. Len(nodes) : r \in DOMAIN Q
        <5>1. DOMAIN Q = 1 .. n
          BY <2>6, <2>9 DEF Ranged
        <5> QED  BY <1>6, <2>1, <5>1
      <4> QED  BY <2>9, <4>1, <4>2, <4>3
    <3>7. Lined(ns, Q)
      BY <3>5, <3>6, LinedSame
    <3> QED  BY <1>14, <3>7
  <2> QED  BY <2>14, <2>15, <2>16 DEF InPlace
<1> QED
  <2>1. \/ nodes' = [nodes EXCEPT ![p] = WithChild(node, key, q)] /\ call' = AtRest
        \/ LET halves == SplitNonLeaf(node, key, q)
               split == Append([nodes EXCEPT ![p] = halves.left], halves.right)
           IN /\ Len(node.keys) = NonLeafSize
              /\ nodes' = split
              /\ GoUp(split, p, halves.up, NewPage, depth, e)
    BY <1>2 DEF EnterIntoParent, Ended
  <2> QED  BY <1>16, <1>17, <2>1

(* With one key a node sends what is below it left and the rest right.     *)
LEMMA OneKey ==
  ASSUME NEW k \in Int, NEW x \in Int
  PROVE  FindIndex(<<k>>, x) = IF x < k THEN 0 ELSE 1
<1>1. PICK ks : ks = <<k>>
  OBVIOUS
<1>2. DOMAIN ks = 1 .. 1 /\ ks[1] = k
  BY <1>1
<1>3. CASE x < k
  <2>1. Stops(ks, 1, x, 0)
    BY <1>2, <1>3 DEF Stops
  <2>2. FindIndex(ks, x) = 0
    BY <1>2, <2>1, StopsAt
  <2> QED  BY <1>1, <1>3, <2>2
<1>4. CASE ~(x < k)
  <2>1. \A i \in 1 .. 1 : x >= ks[i]
    BY <1>2, <1>4
  <2>2. Stops(ks, 1, x, 1)
    BY <2>1 DEF Stops
  <2>3. FindIndex(ks, x) = 1
    BY <1>2, <2>2, StopsAt
  <2> QED  BY <1>1, <1>4, <2>3
<1> QED  BY <1>3, <1>4

LEMMA OneKeyKeeps ==
  ASSUME NEW k \in Int, NEW a, NEW b, NEW level, NEW U,
         U[a] = {x \in Int : x < k}, U[b] = {x \in Int : x >= k}
  PROVE  Keeps(NonLeaf(<<k>>, <<a, b>>, level), Int, U)
<1>1. PICK ks, ps : ks = <<k>> /\ ps = <<a, b>>
  OBVIOUS
<1>2. /\ ks \in Seq(Int) /\ DOMAIN ks = 1 .. 1 /\ ks[1] = k
      /\ DOMAIN ps = 1 .. 2 /\ ps[1] = a /\ ps[2] = b
  BY <1>1
<1>3. Ascending(ks) /\ ToSet(ks) \subseteq Int
  BY <1>2 DEF Ascending, ToSet
<1>4. ASSUME NEW x \in Int PROVE FindIndex(ks, x) = IF x < k THEN 0 ELSE 1
  BY <1>1, OneKey
<1>5. {x \in Int : FindIndex(ks, x) = 0} = U[a] /\ {x \in Int : FindIndex(ks, x) = 1} = U[b]
  <2>1. \A x \in Int : (FindIndex(ks, x) = 0 <=> x < k) /\ (FindIndex(ks, x) = 1 <=> x >= k)
    BY <1>4
  <2> QED  BY <2>1
<1>6. ASSUME NEW i \in DOMAIN ps PROVE U[ps[i]] = {x \in Int : FindIndex(ks, x) = i - 1}
  <2>1. i = 1 \/ i = 2
    BY <1>2
  <2>2. CASE i = 1
    BY <1>2, <1>5, <2>2
  <2>3. CASE i = 2
    BY <1>2, <1>5, <2>3
  <2> QED  BY <2>1, <2>2, <2>3
<1>7. Keeps(NonLeaf(ks, ps, level), Int, U)
  BY <1>3, <1>6, InnerKeys
<1> QED  BY <1>1, <1>7

LEMMA NewRootKeepsPlace ==
  ASSUME IInv, NEW h, TreeOK(h), InPlace(h), MakeNewRoot, NEW g, Grown(h, g), TreeOK(g)'
  PROVE  call'.at # "lost" /\ InPlace(g)'
<1>1. /\ Stands(nodes, h) /\ OneTop(h) /\ CallOK(h) /\ call.at = "newRoot" /\ call' = AtRest
      /\ Stands(nodes, g)' /\ OneTop(g)'
  BY DEF TreeOK, MakeNewRoot, Ended
<1>2. PICK N, n, c, q, k, level :
         /\ N = Len(nodes) /\ n = N + 1
         /\ c = call.currId /\ q = call.prevId /\ k = call.currKey /\ level = RootLevel
  OBVIOUS
<1>3. PICK node : /\ node = NonLeaf(<<k>>, <<c, q>>, level)
                  /\ nodes' = Append(nodes, node) /\ rootPageNum' = n
  BY <1>2 DEF MakeNewRoot, NewPage
<1>4. c = rootPageNum /\ q \in 1 .. N /\ k \in Key /\ k \in Int
  BY <1>1, <1>2, KeysAreNumbers DEF CallOK
<1>5. /\ N \in Nat /\ DOMAIN nodes = 1 .. N /\ h \in [1 .. N -> Nat] /\ c \in 1 .. N
      /\ \A r \in 1 .. N : h[r] <= h[c]
      /\ nodes \in Seq(LeafNode \cup InnerNode)
      /\ \A r \in 1 .. N : ~nodes[r].leaf => \A s \in ToSet(nodes[r].pages) : h[r] = h[s] + 1
  <2>1. /\ DOMAIN nodes = 1 .. Len(nodes) /\ Len(nodes) \in Nat /\ h \in [1 .. Len(nodes) -> Nat]
        /\ \A r \in 1 .. Len(nodes) : ~nodes[r].leaf =>
              \A s \in ToSet(nodes[r].pages) : s \in 1 .. Len(nodes) /\ h[r] = h[s] + 1
    BY <1>1, Standing
  <2>2. /\ rootPageNum \in 1 .. Len(nodes)
        /\ \A r \in 1 .. Len(nodes) : h[r] <= h[rootPageNum]
        /\ nodes \in Seq(LeafNode \cup InnerNode)
    BY <1>1 DEF Stands, Shaped
  <2> QED  BY <1>2, <1>4, <2>1, <2>2
<1>6. PICK R, W : /\ Ranged(nodes, h, R, W) /\ W[c] = Int /\ HalfDone(R, W, c, q, k)
                  /\ Lined(nodes, R)
  BY <1>1, <1>2, <1>4 DEF InPlace, Pending
<1>7. /\ R \in [1 .. N -> SUBSET Int]
      /\ \A r, s \in 1 .. N : r # s /\ h[r] = h[s] => R[r] \cap R[s] = {}
      /\ \A r \in 1 .. N : Keeps(nodes[r], R[r], W)
      /\ R[c] = {x \in Int : x < k} /\ R[q] = {x \in Int : x >= k}
      /\ \A r \in 1 .. N : r # c => W[r] = R[r]
  BY <1>2, <1>6 DEF Ranged, HalfDone, Parted
<1>8. PICK U : U = [r \in 1 .. n |-> IF r = n THEN Int ELSE R[r]]
  OBVIOUS
<1>9. n \in Nat /\ n \notin 1 .. N /\ n \in 1 .. n /\ \A r \in 1 .. n : r \in 1 .. N \/ r = n
  BY <1>2, <1>5
<1>10. \A r \in 1 .. N : r \in 1 .. n /\ r # n /\ U[r] = R[r]
  <2>1. \A r \in 1 .. N : r \in 1 .. n /\ r # n
    BY <1>2, <1>5
  <2> QED  BY <1>8, <2>1
<1>11. U \in [1 .. n -> SUBSET Int] /\ U[n] = Int
  BY <1>7, <1>8, <1>9
<1>12. PICK ns : ns = nodes'
  OBVIOUS
<1>13. /\ Len(ns) = n /\ DOMAIN ns = 1 .. n /\ ns[n] = node /\ \A r \in 1 .. N : ns[r] = nodes[r]
  <2>1. ns = Append(nodes, node)
    BY <1>3, <1>12
  <2> QED  BY <1>2, <1>5, <1>9, <2>1
<1>14. /\ \A r \in 1 .. N : g[r] = h[r]
       /\ \A r \in 1 .. n : g[r] = g[n] => r = n
  <2>1. \A r \in 1 .. N : g[r] = h[r]
    BY <1>5 DEF Grown
  <2>2. \A r \in 1 .. Len(nodes') : g[r] = g[rootPageNum'] => r = rootPageNum'
    BY <1>1, AtRestIs DEF OneTop
  <2> QED  BY <1>3, <1>12, <1>13, <2>1, <2>2
<1>15. \A r, s \in 1 .. n : r # s /\ g[r] = g[s] => U[r] \cap U[s] = {}
  <2> SUFFICES ASSUME NEW r \in 1 .. n, NEW s \in 1 .. n, r # s, g[r] = g[s]
               PROVE  U[r] \cap U[s] = {}
    OBVIOUS
  <2>1. r # n /\ s # n
    BY <1>14
  <2>2. r \in 1 .. N /\ s \in 1 .. N
    BY <1>9, <2>1
  <2>3. h[r] = h[s]
    BY <1>14, <2>2
  <2> QED  BY <1>7, <1>10, <2>2, <2>3
<1>16. ASSUME NEW r \in 1 .. N PROVE Keeps(nodes[r], U[r], U)
  <2>1. PICK m, S : m = nodes[r] /\ S = R[r]
    OBVIOUS
  <2>2. Below(m, N)
    BY <1>1, <1>2, <2>1, ChildrenBelow
  <2>3. ~m.leaf => c \notin ToSet(m.pages)
    <3> SUFFICES ASSUME ~m.leaf, c \in ToSet(m.pages) PROVE FALSE
      OBVIOUS
    <3>1. h[r] = h[c] + 1 /\ h[r] <= h[c]
      BY <1>5, <2>1
    <3> QED  BY <1>5, <3>1
  <2>4. Keeps(m, S, W) /\ \A t \in 1 .. N : t # c => W[t] = R[t]
    BY <1>7, <2>1
  <2>5. Keeps(m, S, R)
    BY <2>2, <2>3, <2>4, NotConcerned
  <2>6. \A t \in 1 .. N : U[t] = R[t]
    BY <1>10
  <2>7. Keeps(m, S, U)
    BY <2>2, <2>5, <2>6, KeepsSame
  <2> QED  BY <1>10, <2>1, <2>7
<1>17. Keeps(node, Int, U)
  <2>1. U[c] = {x \in Int : x < k} /\ U[q] = {x \in Int : x >= k}
    BY <1>4, <1>5, <1>7, <1>10
  <2>2. Keeps(NonLeaf(<<k>>, <<c, q>>, level), Int, U)
    BY <1>4, <2>1, OneKeyKeeps
  <2> QED  BY <1>3, <2>2
<1>18. \A r \in 1 .. n : Keeps(ns[r], U[r], U)
  <2> SUFFICES ASSUME NEW r \in 1 .. n PROVE Keeps(ns[r], U[r], U)
    OBVIOUS
  <2>1. CASE r = n
    BY <1>11, <1>13, <1>17, <2>1
  <2>2. CASE r \in 1 .. N
    BY <1>13, <1>16, <2>2
  <2> QED  BY <1>9, <2>1, <2>2
<1>19. Ranged(ns, g, U, U)
  BY <1>11, <1>13, <1>15, <1>18 DEF Ranged
<1>20. Pending(U, U)'
  BY <1>1, AtRestIs DEF Pending
<1>21. Lined(nodes', U)
  <2>1. ~node.leaf
    BY <1>3 DEF NonLeaf
  <2>2. PICK ms : ms = nodes
    OBVIOUS
  <2>3. SameLeaves(ms, Append(ms, node)) /\ Len(Append(ms, node)) \in Nat
    BY <1>5, <2>1, <2>2, LeavesStayNew
  <2>4. SameLeaves(ms, ns) /\ Len(ns) \in Nat /\ Len(ms) \in Nat /\ Lined(ms, R)
    BY <1>2, <1>3, <1>5, <1>6, <1>12, <2>2, <2>3
  <2>5. \A r \in Leaves(ms) : U[r] = R[r]
    BY <1>2, <1>10, <2>2 DEF Leaves
  <2>6. Lined(ns, U)
    BY <2>4, <2>5, LinedSame
  <2> QED  BY <1>12, <2>6
<1> QED  BY <1>1, <1>3, <1>11, <1>12, <1>19, <1>20, <1>21, AtRestIs DEF InPlace

-----------------------------------------------------------------------------
(* The other steps leave the tree and what is known of it alone. *)

LEMMA PlaceStays ==
  ASSUME NEW h, TreeOK(h), InPlace(h), call.at \notin {"parent", "newRoot"},
         call'.at \in {"idle", "seek", "dead"},
         UNCHANGED <<nodes, rootPageNum, nodeOccupancy>>
  PROVE  TreeOK(h)' /\ InPlace(h)'
<1>1. Stands(nodes, h)'
  BY DEF TreeOK, Stands
<1>2. OneTop(h)'
  BY DEF TreeOK, OneTop
<1>3. CallOK(h)'
  BY DEF CallOK
<1>4. PICK R : Ranged(nodes, h, R, R) /\ R[rootPageNum] = Int /\ Lined(nodes, R)
  BY DEF InPlace, Pending
<1>5. Pending(R, R)'
  BY DEF Pending
<1>6. Ranged(nodes', h, R, R) /\ R[rootPageNum'] = Int /\ Lined(nodes', R)
  BY <1>4
<1> QED  BY <1>1, <1>2, <1>3, <1>5, <1>6 DEF TreeOK, InPlace

LEMMA InitOrderly == Init => Orderly
<1> SUFFICES ASSUME Init PROVE Orderly
  OBVIOUS
<1>1. PICK h : TreeOK(h)
  BY InitIInv DEF IInv
<1>2. PICK R, none : R = [p \in 1 .. 1 |-> Int] /\ none = <<>>
  OBVIOUS
<1>3. /\ nodes = <<Leaf(none, NoPage)>> /\ rootPageNum = 1 /\ call.at = "idle"
      /\ none \in Seq(Entry) /\ Len(none) = 0
  BY <1>2, AtRestIs DEF Init
<1>4. Len(nodes) = 1 /\ nodes[1] = Leaf(none, NoPage)
  BY <1>3
<1>5. EntryKeys(none) \in Seq(Int) /\ Len(EntryKeys(none)) = 0
  BY <1>3, EntryKeysAre
<1>6. Ascending(EntryKeys(none)) /\ ToSet(EntryKeys(none)) \subseteq Int
  BY <1>5 DEF Ascending, ToSet
<1>7. Keeps(nodes[1], Int, R)
  BY <1>3, <1>4, <1>6, LeafKeeps
<1>8. R \in [1 .. 1 -> SUBSET Int] /\ R[1] = Int
  BY <1>2
<1>9. Ranged(nodes, h, R, R)
  <2>1. \A p, q \in 1 .. 1 : p = q /\ p = 1
    OBVIOUS
  <2>2. /\ R \in [1 .. Len(nodes) -> SUBSET Int]
        /\ \A p, q \in 1 .. Len(nodes) : p # q /\ h[p] = h[q] => R[p] \cap R[q] = {}
    BY <1>4, <1>8, <2>1
  <2>3. \A p \in 1 .. Len(nodes) : Keeps(nodes[p], R[p], R)
    BY <1>4, <1>7, <1>8, <2>1
  <2> QED  BY <2>2, <2>3 DEF Ranged
<1>10. Pending(R, R)
  BY <1>3 DEF Pending
<1>11. Lined(nodes, R)
  <2>1. PICK d : d = [p \in 1 .. 1 |-> 0]
    OBVIOUS
  <2>2. Leaves(nodes) = {1} /\ nodes[1].right = NoPage
    BY <1>4 DEF Leaves, Leaf
  <2>3. Chained(nodes, d)
    BY <1>4, <2>1, <2>2 DEF Chained
  <2>4. AlongChain(nodes, R, d)
    BY <2>1, <2>2, <2>3 DEF AlongChain
  <2> QED  BY <2>4 DEF Lined
<1> QED  BY <1>1, <1>3, <1>8, <1>9, <1>10, <1>11 DEF Orderly, InPlace

LEMMA NextKeepsOrder ==
  ASSUME KeysDiffer, IInv, ChainOK, SplitsRight, Orderly, outcome'.res # "BufferExceeded",
         [Next]_vars
  PROVE  Orderly'
<1>1. PICK h : TreeOK(h) /\ InPlace(h)
  BY DEF Orderly
<1>2. CountsOK /\ call.at # "lost"
  BY DEF IInv, Orderly
<1>3. CASE UNCHANGED vars
  BY <1>1, <1>2, <1>3 DEF Orderly, TreeOK, Stands, OneTop, CallOK, InPlace, Pending, vars, treeVars,
                          historyVars
<1>4. ASSUME NEW e \in Entry, InsertEntry(e) PROVE Orderly'
  <2>1. PICK g : Grown(h, g) /\ TreeOK(g)'
    BY <1>1, <1>2, <1>4, InsertKeepsTree
  <2>2. call'.at # "lost" /\ InPlace(g)'
    BY <1>1, <1>4, <2>1, InsertKeepsPlace
  <2> QED  BY <2>1, <2>2 DEF Orderly
<1>5. CASE EnterIntoParent
  <2>1. PICK g : Grown(h, g) /\ TreeOK(g)'
    BY <1>1, <1>2, <1>5, EnterKeepsTree
  <2>2. call'.at # "lost" /\ InPlace(g)'
    BY <1>1, <1>5, <2>1, EnterKeepsPlace
  <2> QED  BY <2>1, <2>2 DEF Orderly
<1>6. CASE MakeNewRoot
  <2>1. PICK g : Grown(h, g) /\ TreeOK(g)'
    BY <1>1, <1>2, <1>6, NewRootKeepsTree
  <2>2. call'.at # "lost" /\ InPlace(g)'
    BY <1>1, <1>6, <2>1, NewRootKeepsPlace
  <2> QED  BY <2>1, <2>2 DEF Orderly
<1>7. ASSUME /\ UNCHANGED <<nodes, rootPageNum, nodeOccupancy>> /\ call.at \notin {"parent", "newRoot"}
             /\ call'.at \in {"idle", "seek", "dead"}
             /\ tried' = tried
      PROVE  Orderly'
  <2>1. TreeOK(h)' /\ InPlace(h)'
    BY <1>1, <1>7, PlaceStays
  <2> QED  BY <1>7, <2>1 DEF Orderly
<1>8. ASSUME NEW a \in ScanArgs, StartScan(NewScan(a)) PROVE Orderly'
  <2>1. PICK s : s = NewScan(a)
    OBVIOUS
  <2> QED  BY <1>7, <1>8, <2>1, AtRestIs DEF StartScan, Ended, Idle
<1>9. CASE SeekFirst
  <2>1. call' = call \/ call' = AtRest
    BY <1>9 DEF SeekFirst, Ended
  <2> QED  BY <1>7, <1>9, <2>1, AtRestIs DEF SeekFirst, historyVars
<1>10. CASE ScanNext
  <2>1. call' = AtRest
    BY <1>10 DEF ScanNext, Ended, Yields
  <2> QED  BY <1>7, <1>10, <2>1, AtRestIs DEF ScanNext, Idle
<1>11. CASE EndScan
  BY <1>7, <1>11, AtRestIs DEF EndScan, Ended, Idle
<1>12. CASE Reopen
  BY <1>7, <1>12, AtRestIs DEF Reopen, Ended, Idle
<1> QED  BY <1>3, <1>4, <1>5, <1>6, <1>8, <1>9, <1>10, <1>11, <1>12 DEF Next

(* A stored entry is in the leaf that a search for its key comes to.       *)
LEMMA OrderlyFinds == ChainOK /\ Orderly => Searchable
<1> SUFFICES ASSUME ChainOK, Orderly, Idle, NEW e \in stored
             PROVE  e \in ToSet(nodes[LeafFor(e[1])].entries)
  BY DEF Searchable
<1>1. PICK h : Stands(nodes, h) /\ InPlace(h)
  BY DEF Orderly, TreeOK
<1>2. PICK R : Ranged(nodes, h, R, R) /\ R[rootPageNum] = Int
  BY <1>1 DEF InPlace, Pending, Idle
<1>3. PICK p \in Leaves(nodes) : e \in EntriesIn(nodes, p)
  BY DEF ChainOK, Has
<1>4. PICK node, entries : node = nodes[p] /\ entries = node.entries
  OBVIOUS
<1>5. p \in 1 .. Len(nodes) /\ node.leaf /\ h[p] = 0 /\ NodeFits(node, Len(nodes))
  BY <1>1, <1>3, <1>4, Standing DEF Leaves
<1>6. node \in LeafNode /\ entries \in Seq(Entry)
  BY <1>4, <1>5, LeafFits
<1>7. e \in ToSet(entries) /\ e \in Entry /\ e[1] \in Int
  <2>1. e \in ToSet(entries)
    BY <1>3, <1>4 DEF EntriesIn
  <2>2. e \in Entry
    BY <1>6, <2>1 DEF ToSet
  <2> QED  BY <2>1, <2>2, EntryAssumption
<1>8. e[1] \in R[p]
  <2>1. PICK right, S : right = node.right /\ S = R[p]
    OBVIOUS
  <2>2. Keeps(node, S, R)
    BY <1>2, <1>4, <1>5, <2>1 DEF Ranged
  <2>3. Keeps(Leaf(entries, right), S, R)
    BY <1>4, <1>6, <2>1, <2>2, LeafNodeIs
  <2>4. ToSet(EntryKeys(entries)) \subseteq S
    BY <1>6, <2>3, LeafKeeps
  <2>5. e[1] \in ToSet(EntryKeys(entries))
    BY <1>6, <1>7, EntryKeysAre
  <2> QED  BY <2>1, <2>4, <2>5
<1>9. PICK q : q = LeafFor(e[1])
  OBVIOUS
<1>10. q \in 1 .. Len(nodes) /\ h[q] = 0 /\ e[1] \in R[q]
  BY <1>1, <1>2, <1>7, <1>9, LeafForIs, WayRanges
<1>11. q = p
  BY <1>2, <1>5, <1>8, <1>10 DEF Ranged
<1> QED  BY <1>4, <1>7, <1>9, <1>11

(* With different keys and frames enough, as long as no full non-leaf node *)
(* is entered left of the key that moves up, every page has the keys that  *)
(* a search brings there and no insertEntry loses its way to a parent.     *)
THEOREM OrderInvariance ==
  ASSUME KeysDiffer, NumBufs >= CallerPins + 4
  PROVE  Spec /\ []SplitsRight => []Orderly
<1>1. Spec => []IInv
  BY Invariance
<1>2. Spec => []ChainOK
  BY ChainInvariance
<1>3. Spec => []NeverExceeded
  BY FramesSuffice
<1>4. Init => Orderly
  BY InitOrderly
<1>5. /\ IInv /\ ChainOK /\ NeverExceeded' /\ SplitsRight /\ Orderly /\ [Next]_vars
      => Orderly'
  BY NextKeepsOrder DEF NeverExceeded
<1> QED  BY <1>1, <1>2, <1>3, <1>4, <1>5, PTL DEF Spec

(* Under these conditions a search finds every entry that was stored: it   *)
(* is a non-leaf split by a key below the one that moves up, and nothing   *)
(* else, that leaves entries where findLeaf does not look.                 *)
THEOREM SearchFinds ==
  ASSUME KeysDiffer, NumBufs >= CallerPins + 4
  PROVE  Spec /\ []SplitsRight => []Searchable
<1>1. Spec /\ []SplitsRight => []Orderly
  BY OrderInvariance
<1>2. Spec => []ChainOK
  BY ChainInvariance
<1>3. ChainOK /\ Orderly => Searchable
  BY OrderlyFinds
<1> QED  BY <1>1, <1>2, <1>3, PTL

-----------------------------------------------------------------------------
(* Keys that are inserted in ascending order. *)

(* The keys of a non-leaf node are in T.                                   *)
KeysAmong(node, T) == ~node.leaf => ToSet(node.keys) \subseteq T

LEMMA ChildKeys ==
  ASSUME NEW node, node.keys \in Seq(Key), NEW T, ToSet(node.keys) \subseteq T,
         NEW k \in Key, k \in T, NEW q
  PROVE  KeysAmong(WithChild(node, k, q), T)
<1>1. PICK keys, i : keys = node.keys /\ i = FindIndex(keys, k) + 1
  OBVIOUS
<1>2. keys \in Seq(Key) /\ keys \in Seq(Int) /\ k \in Int
  BY <1>1, KeysAreInts, KeysAreNumbers
<1>3. i \in 1 .. Len(keys) + 1
  <2>1. PICK f, n : f = FindIndex(keys, k) /\ n = Len(keys)
    OBVIOUS
  <2>2. f \in 0 .. n /\ n \in Nat
    BY <1>2, <2>1, SomewhereInIt
  <2>3. f + 1 \in 1 .. n + 1
    BY <2>2
  <2> QED  BY <1>1, <2>1, <2>3
<1>4. ToSet(InsertAt(keys, i, k)) = ToSet(keys) \cup {k}
  BY <1>2, <1>3, InsertedSet
<1>5. WithChild(node, k, q).keys = InsertAt(keys, i, k)
  BY <1>1 DEF WithChild, NonLeaf
<1> QED  BY <1>1, <1>4, <1>5 DEF KeysAmong

LEMMA SplitKeys ==
  ASSUME NEW node, node.keys \in Seq(Key), Len(node.keys) = NonLeafSize, NEW T,
         ToSet(node.keys) \subseteq T, NEW k \in Key, k \in T, NEW q
  PROVE  LET split == SplitNonLeaf(node, k, q) IN
         KeysAmong(split.left, T) /\ KeysAmong(split.right, T) /\ split.up \in T
<1>1. PICK keys, N : keys = node.keys /\ N = NonLeafSize
  OBVIOUS
<1>2. keys \in Seq(Key) /\ Len(keys) = N /\ N \in Nat /\ N % 2 = 0 /\ N >= 2
  BY <1>1, SizeAssumption
<1>3. PICK left : left = (FindIndex(keys, k) < N \div 2)
  OBVIOUS
<1>4. PICK K : K = IF left THEN N - N \div 2 ELSE N - (N - 1) \div 2
  OBVIOUS
<1>5. K \in 1 .. N /\ (left => K < N)
  BY <1>2, <1>4
<1>6. ASSUME NEW i \in 1 .. N PROVE keys[i] \in T /\ keys[i] \in Key
  BY <1>1, <1>2, SetOf
<1>7. PICK l, r : l = SubSeq(keys, 1, K - 1) /\ r = SubSeq(keys, K + 1, N)
  OBVIOUS
<1>8. l \in Seq(Key) /\ ToSet(l) \subseteq T
  <2>1. K - 1 \in 0 .. Len(keys)
    BY <1>2, <1>5
  <2>2. PICK j : j = K - 1
    OBVIOUS
  <2>3. SubSeq(keys, 1, j) \in Seq(Key) /\ ToSet(SubSeq(keys, 1, j)) \subseteq ToSet(keys)
    BY <1>2, <2>1, <2>2, Halves, HalvesSet
  <2> QED  BY <1>1, <1>7, <2>2, <2>3
<1>9. r \in Seq(Key) /\ ToSet(r) \subseteq T
  <2>1. K \in 0 .. Len(keys)
    BY <1>2, <1>5
  <2>2. SubSeq(keys, K + 1, Len(keys)) \in Seq(Key)
    BY <1>2, <2>1, Halves
  <2>3. ToSet(SubSeq(keys, 1, K)) \cup ToSet(SubSeq(keys, K + 1, Len(keys))) = ToSet(keys)
    BY <1>2, <2>1, HalvesSet
  <2> QED  BY <1>1, <1>2, <1>7, <2>2, <2>3
<1>10. PICK a, b : /\ a = NonLeaf(l, SubSeq(node.pages, 1, K), node.level)
                   /\ b = NonLeaf(r, SubSeq(node.pages, K + 1, N + 1), node.level)
  OBVIOUS
<1>11. a.keys = l /\ b.keys = r
  BY <1>10 DEF NonLeaf
<1>12. KeysAmong(a, T) /\ KeysAmong(b, T)
  BY <1>8, <1>9, <1>11 DEF KeysAmong
<1>13. CASE left
  <2>1. PICK up : up = keys[K + 1]
    OBVIOUS
  <2>2. up \in T /\ up \in Key
    <3>1. K + 1 \in 1 .. N
      BY <1>2, <1>5, <1>13
    <3> QED  BY <1>6, <2>1, <3>1
  <2>3. SplitNonLeaf(node, k, q) = [left |-> WithChild(a, up, q), right |-> b, up |-> up]
    BY <1>1, <1>3, <1>4, <1>7, <1>10, <1>13, <2>1 DEF SplitNonLeaf
  <2>4. KeysAmong(WithChild(a, up, q), T)
    BY <1>8, <1>11, <2>2, ChildKeys
  <2> QED  BY <1>12, <2>2, <2>3, <2>4
<1>14. CASE ~left
  <2>1. PICK up : up = keys[K]
    OBVIOUS
  <2>2. up \in T
    BY <1>5, <1>6, <2>1
  <2>3. SplitNonLeaf(node, k, q) = [left |-> a, right |-> WithChild(b, k, q), up |-> up]
    BY <1>1, <1>3, <1>4, <1>7, <1>10, <1>14, <2>1 DEF SplitNonLeaf
  <2>4. KeysAmong(WithChild(b, k, q), T)
    BY <1>9, <1>11, ChildKeys
  <2> QED  BY <1>12, <2>2, <2>3, <2>4
<1> QED  BY <1>13, <1>14

(* The keys of the non-leaf nodes, and the one that is on its way up, are  *)
(* keys of entries that were inserted.                                     *)
TriedKeys == {f[1] : f \in tried}
KeysTried ==
    /\ \A p \in 1 .. Len(nodes) : KeysAmong(nodes[p], TriedKeys)
    /\ call.at \in {"parent", "newRoot"} => call.currKey \in TriedKeys

LEMMA KeysTriedBy ==
  ASSUME NEW T, T = TriedKeys', NEW ns, ns = nodes', \A p \in 1 .. Len(ns) : KeysAmong(ns[p], T),
         \/ call' = AtRest
         \/ \E c, k, n, depth, e : GoUp(ns, c, k, n, depth, e) /\ k \in T
  PROVE  KeysTried'
BY AtRestIs DEF KeysTried, GoUp

LEMMA InsertKeepsTried ==
  ASSUME IInv, ChainOK, KeysTried, NEW e \in Entry, InsertEntry(e)
  PROVE  KeysTried'
<1>1. PICK h : Stands(nodes, h)
  BY DEF IInv, TreeOK
<1>2. PICK p, leaf, N : p = LeafFor(e[1]) /\ leaf = nodes[p] /\ N = Len(nodes)
  OBVIOUS
<1>3. /\ p \in 1 .. N /\ leaf.leaf /\ NodeFits(leaf, N) /\ N \in Nat /\ DOMAIN nodes = 1 .. N
      /\ nodes \in Seq(LeafNode \cup InnerNode)
  BY <1>1, <1>2, LeafForIs, Standing DEF Stands, Shaped
<1>4. leaf \in LeafNode /\ leaf.entries \in Seq(Entry) /\ Len(leaf.entries) <= LeafSize
  BY <1>3, LeafFits
<1>5. PICK T : T = TriedKeys'
  OBVIOUS
<1>6. tried' = tried \cup {e} /\ \A f \in tried \cup {e} : f[1] \in T
  BY <1>5 DEF InsertEntry, TriedKeys
<1>7. \A q \in 1 .. N : KeysAmong(nodes[q], T)
  BY <1>2, <1>6 DEF KeysTried, KeysAmong, TriedKeys
<1>8. CASE nodes' = nodes /\ call' = AtRest
  <2>1. PICK ns : ns = nodes /\ ns = nodes'
    BY <1>8
  <2> QED  BY <1>2, <1>5, <1>7, <1>8, <2>1, KeysTriedBy
<1>9. CASE /\ nodes' = [nodes EXCEPT ![p].entries = WithEntry(leaf.entries, e)]
           /\ call' = AtRest
  <2>1. PICK entries, ns, a : /\ entries = WithEntry(leaf.entries, e) /\ ns = nodes'
                              /\ a = Leaf(entries, leaf.right)
    OBVIOUS
  <2>2. ns = [nodes EXCEPT ![p] = a]
    <3>1. entries \in Seq(Entry)
      BY <1>4, <2>1, EntryPlaced
    <3>2. Shaped(nodes) /\ nodes[p].leaf /\ p \in 1 .. Len(nodes)
      BY <1>1, <1>2, <1>3 DEF Stands
    <3>3. [nodes EXCEPT ![p].entries = entries] = [nodes EXCEPT ![p] = Leaf(entries, nodes[p].right)]
      BY <3>1, <3>2, LeafExcept
    <3> QED  BY <1>2, <1>9, <2>1, <3>3
  <2>3. Len(ns) = N /\ a.leaf /\ \A q \in 1 .. N : ns[q] = IF q = p THEN a ELSE nodes[q]
    BY <1>2, <1>3, <2>1, <2>2 DEF Leaf
  <2>4. ASSUME NEW q \in 1 .. N PROVE KeysAmong(ns[q], T)
    BY <1>7, <2>3 DEF KeysAmong
  <2> QED  BY <1>5, <1>9, <2>1, <2>3, <2>4, KeysTriedBy
<1>10. CASE LET halves == SplitLeaf(leaf.entries, e)
                split == Append([nodes EXCEPT ![p] = Leaf(halves[1], NewPage)],
                                Leaf(halves[2], leaf.right))
            IN /\ ~Fits(leaf)
               /\ nodes' = split
               /\ GoUp(split, p, halves[2][1][1], NewPage, Len(Way(e[1])) - 1, e)
  <2>1. Len(leaf.entries) = LeafSize
    BY <1>4, <1>10, SizeAssumption DEF Fits
  <2>2. PICK l, r : SplitLeaf(leaf.entries, e) = <<l, r>>
    BY DEF SplitLeaf
  <2> DEFINE n == N + 1
             depth == Len(Way(e[1])) - 1
             a == Leaf(l, n)
             b == Leaf(r, leaf.right)
             k == r[1][1]
  <2>3. PICK ns : /\ ns = nodes' /\ ns = Append([nodes EXCEPT ![p] = a], b)
                  /\ GoUp(ns, p, k, n, depth, e)
    <3>1. PICK ns : ns = nodes'
      OBVIOUS
    <3>2. NewPage = n
      BY <1>2 DEF NewPage
    <3> HIDE DEF n
    <3>3. PICK hs : hs = SplitLeaf(leaf.entries, e) /\ hs[1] = l /\ hs[2] = r
      BY <2>2
    <3>4. /\ ns = Append([nodes EXCEPT ![p] = Leaf(hs[1], NewPage)], Leaf(hs[2], leaf.right))
          /\ GoUp(ns, p, hs[2][1][1], NewPage, Len(Way(e[1])) - 1, e)
      BY <1>10, <3>1, <3>3
    <3> QED  BY <3>1, <3>2, <3>3, <3>4
  <2> HIDE DEF n, depth
  <2>4. k \in T
    <3>1. /\ r \in Seq(Entry) /\ Len(r) \in 1 .. LeafSize
          /\ ToSet(l) \cup ToSet(r) = ToSet(leaf.entries) \cup {e}
      BY <1>4, <2>1, <2>2, LeafSplitInTwo
    <3>2. PICK f : f = r[1]
      OBVIOUS
    <3>3. f \in ToSet(r)
      BY <3>1, <3>2, SetOf
    <3>4. p \in Leaves(nodes) /\ EntriesIn(nodes, p) = ToSet(leaf.entries)
      BY <1>2, <1>3 DEF Leaves, EntriesIn
    <3>5. f \in tried \cup {e}
      BY <3>1, <3>3, <3>4 DEF ChainOK, Apart
    <3> QED  BY <1>6, <2>2, <3>2, <3>5
  <2>5. /\ Len(ns) = N + 1 /\ ns[p] = a /\ ns[N + 1] = b
        /\ \A q \in 1 .. N : q # p => ns[q] = nodes[q]
    BY <1>2, <1>3, <2>3
  <2>6. a.leaf /\ b.leaf
    BY DEF Leaf
  <2>7. ASSUME NEW q \in 1 .. N + 1 PROVE KeysAmong(ns[q], T)
    <3>1. q \in 1 .. N \/ q = N + 1
      BY <1>3
    <3> QED  BY <1>7, <2>5, <2>6, <3>1 DEF KeysAmong
  <2> QED  BY <1>5, <2>3, <2>4, <2>5, <2>7, KeysTriedBy
<1> QED  BY <1>2, <1>8, <1>9, <1>10 DEF InsertEntry, Ended

LEMMA EnterKeepsTried ==
  ASSUME IInv, KeysTried, EnterIntoParent
  PROVE  KeysTried'
<1>1. PICK h : Stands(nodes, h) /\ CallOK(h)
  BY DEF IInv, TreeOK
<1>2. PICK p, q, k, node, N, T :
         /\ p = call.currId /\ q = call.prevId /\ k = call.currKey /\ node = nodes[p]
         /\ N = Len(nodes) /\ T = TriedKeys'
  OBVIOUS
<1>3. /\ p \in 1 .. N /\ q \in 1 .. N /\ k \in Key /\ h[p] = h[q] + 1
      /\ T = TriedKeys /\ k \in T
  BY <1>1, <1>2 DEF CallOK, EnterIntoParent, KeysTried, TriedKeys
<1>4. /\ N \in Nat /\ DOMAIN nodes = 1 .. N /\ h \in [1 .. N -> Nat]
      /\ NodeFits(node, N) /\ (node.leaf <=> h[p] = 0)
  BY <1>1, <1>2, <1>3, Standing
<1>5. nodes \in Seq(LeafNode \cup InnerNode)
  BY <1>1 DEF Stands, Shaped
<1>6. ~node.leaf
  <2>1. h[p] # 0
    BY <1>3, <1>4
  <2> QED  BY <1>4, <2>1
<1>7. node.keys \in Seq(Key) /\ ToSet(node.keys) \subseteq T
  <2>1. node \in InnerNode
    BY <1>4, <1>6, InnerFits DEF InnerWith
  <2>2. node.keys \in Seq(Key)
    BY <2>1, InnerFields
  <2> QED  BY <1>2, <1>3, <1>6, <2>2 DEF KeysTried, KeysAmong
<1>8. \A r \in 1 .. N : KeysAmong(nodes[r], T)
  BY <1>2, <1>3 DEF KeysTried
<1>9. CASE nodes' = nodes /\ call' = AtRest
  <2>1. PICK ns : ns = nodes /\ ns = nodes'
    BY <1>9
  <2> QED  BY <1>2, <1>8, <1>9, <2>1, KeysTriedBy
<1>10. CASE nodes' = [nodes EXCEPT ![p] = WithChild(node, k, q)] /\ call' = AtRest
  <2>1. PICK a, ns : a = WithChild(node, k, q) /\ ns = nodes'
    OBVIOUS
  <2>2. KeysAmong(a, T)
    BY <1>3, <1>7, <2>1, ChildKeys
  <2>3. Len(ns) = N /\ \A r \in 1 .. N : ns[r] = IF r = p THEN a ELSE nodes[r]
    BY <1>2, <1>4, <1>5, <1>10, <2>1
  <2>4. \A r \in 1 .. Len(ns) : KeysAmong(ns[r], T)
    BY <1>8, <2>2, <2>3
  <2> QED  BY <1>2, <1>10, <2>1, <2>4, KeysTriedBy
<1>11. CASE LET halves == SplitNonLeaf(node, k, q)
                split == Append([nodes EXCEPT ![p] = halves.left], halves.right)
            IN /\ Len(node.keys) = NonLeafSize
               /\ nodes' = split
               /\ GoUp(split, p, halves.up, NewPage, call.currDepth, call.entry)
  <2>1. PICK a, b, up, n, depth, e :
           /\ a = SplitNonLeaf(node, k, q).left /\ b = SplitNonLeaf(node, k, q).right
           /\ up = SplitNonLeaf(node, k, q).up
           /\ n = NewPage /\ depth = call.currDepth /\ e = call.entry
    OBVIOUS
  <2>2. PICK ns : /\ ns = nodes' /\ ns = Append([nodes EXCEPT ![p] = a], b)
                  /\ GoUp(ns, p, up, n, depth, e)
    BY <1>11, <2>1
  <2>3. KeysAmong(a, T) /\ KeysAmong(b, T) /\ up \in T
    BY <1>3, <1>7, <1>11, <2>1, SplitKeys
  <2>4. /\ Len(ns) = N + 1 /\ ns[N + 1] = b
        /\ \A r \in 1 .. N : ns[r] = IF r = p THEN a ELSE nodes[r]
    BY <1>2, <1>3, <1>4, <2>2
  <2>5. ASSUME NEW r \in 1 .. N + 1 PROVE KeysAmong(ns[r], T)
    <3>1. r \in 1 .. N \/ r = N + 1
      BY <1>4
    <3> QED  BY <1>8, <2>3, <2>4, <3>1
  <2> QED  BY <1>2, <2>2, <2>3, <2>4, <2>5, KeysTriedBy
<1> QED  BY <1>2, <1>9, <1>10, <1>11 DEF EnterIntoParent, Ended

LEMMA NewRootKeepsTried ==
  ASSUME IInv, KeysTried, MakeNewRoot
  PROVE  KeysTried'
<1>1. PICK h : Stands(nodes, h)
  BY DEF IInv, TreeOK
<1>2. PICK k, N, T, c, q, level :
         /\ k = call.currKey /\ N = Len(nodes) /\ T = TriedKeys' /\ c = call.currId
         /\ q = call.prevId /\ level = RootLevel
  OBVIOUS
<1>3. T = TriedKeys /\ k \in T /\ call' = AtRest
  BY <1>2 DEF MakeNewRoot, Ended, KeysTried, TriedKeys
<1>4. N \in Nat /\ nodes \in Seq(LeafNode \cup InnerNode)
  BY <1>1, <1>2, Standing DEF Stands, Shaped
<1>5. PICK ns, a : ns = nodes' /\ a = NonLeaf(<<k>>, <<c, q>>, level) /\ ns = Append(nodes, a)
  BY <1>2 DEF MakeNewRoot
<1>6. Len(ns) = N + 1 /\ ns[N + 1] = a /\ \A r \in 1 .. N : ns[r] = nodes[r]
  BY <1>2, <1>4, <1>5
<1>7. KeysAmong(a, T)
  <2>1. a.keys = <<k>>
    BY <1>5 DEF NonLeaf
  <2>2. ToSet(<<k>>) = {k}
    BY DEF ToSet
  <2> QED  BY <1>3, <2>1, <2>2 DEF KeysAmong
<1>8. ASSUME NEW r \in 1 .. N + 1 PROVE KeysAmong(ns[r], T)
  <2>1. r \in 1 .. N \/ r = N + 1
    BY <1>4
  <2> QED  BY <1>2, <1>3, <1>6, <1>7, <2>1 DEF KeysTried
<1> QED  BY <1>2, <1>3, <1>5, <1>6, <1>8, KeysTriedBy

(* Before asks for the entries in the order of their keys.                 *)
InsertedUpwards == \A e, f \in Entry : e[1] < f[1] => <<e, f>> \in Before

(* What was not inserted yet is above what was, and the entry that is      *)
(* being inserted is above them all.                                       *)
Upward ==
    /\ \A f \in tried, e \in Entry : <<e, f>> \in Before => e \in tried
    /\ call.at \in {"parent", "newRoot"} => \A f \in tried : f[1] <= call.entry[1]

LEMMA NextKeepsTried == IInv /\ ChainOK /\ KeysTried /\ [Next]_vars => KeysTried'
<1> SUFFICES ASSUME IInv, ChainOK, KeysTried, [Next]_vars PROVE KeysTried'
  OBVIOUS
<1>1. ASSUME /\ nodes' = nodes /\ tried' = tried
             /\ call' = call \/ call'.at \notin {"parent", "newRoot"}
      PROVE  KeysTried'
  BY <1>1 DEF KeysTried, TriedKeys
<1>2. CASE UNCHANGED vars
  BY <1>1, <1>2 DEF vars, treeVars, historyVars
<1>3. ASSUME NEW e \in Entry, InsertEntry(e) PROVE KeysTried'
  BY <1>3, InsertKeepsTried
<1>4. CASE EnterIntoParent
  BY <1>4, EnterKeepsTried
<1>5. CASE MakeNewRoot
  BY <1>5, NewRootKeepsTried
<1>6. ASSUME NEW a \in ScanArgs, StartScan(NewScan(a)) PROVE KeysTried'
  <2>1. PICK s : s = NewScan(a)
    OBVIOUS
  <2> QED  BY <1>1, <1>6, <2>1 DEF StartScan, Ended, AtRest
<1>7. CASE SeekFirst
  <2>1. call' = call \/ call' = AtRest
    BY <1>7 DEF SeekFirst, Ended
  <2> QED  BY <1>1, <1>7, <2>1, AtRestIs DEF SeekFirst, historyVars
<1>8. CASE ScanNext
  <2>1. call' = AtRest
    BY <1>8 DEF ScanNext, Ended, Yields
  <2> QED  BY <1>1, <1>8, <2>1, AtRestIs DEF ScanNext
<1>9. CASE EndScan
  BY <1>1, <1>9, AtRestIs DEF EndScan, Ended
<1>10. CASE Reopen
  BY <1>1, <1>10, AtRestIs DEF Reopen, Ended
<1> QED  BY <1>2, <1>3, <1>4, <1>5, <1>6, <1>7, <1>8, <1>9, <1>10 DEF Next

LEMMA NextKeepsUpward ==
  ASSUME InsertedUpwards
  PROVE  IInv /\ Upward /\ [Next]_vars => Upward'
<1> SUFFICES ASSUME IInv, Upward, [Next]_vars PROVE Upward'
  OBVIOUS
<1>1. ASSUME /\ tried' = tried
             /\ \/ call' = call
                \/ call'.at \notin {"parent", "newRoot"}
                \/ call.at \in {"parent", "newRoot"} /\ call'.entry = call.entry
      PROVE  Upward'
  BY <1>1 DEF Upward
<1>2. CASE UNCHANGED vars
  BY <1>1, <1>2 DEF vars, historyVars
<1>3. ASSUME NEW e \in Entry, InsertEntry(e) PROVE Upward'
  <2>1. /\ tried' = tried \cup {e} /\ e \notin tried /\ tried \subseteq Entry
        /\ \A f \in Entry : <<f, e>> \in Before => f \in tried
    BY <1>3 DEF InsertEntry, Inserts, IInv, CountsOK
  <2>2. call' = AtRest \/ \E ns, c, k, n, depth : GoUp(ns, c, k, n, depth, e)
    BY <1>3 DEF InsertEntry, Ended
  <2>3. \A f \in tried \cup {e} : f[1] <= e[1]
    <3> SUFFICES ASSUME NEW f \in tried \cup {e} PROVE f[1] <= e[1]
      OBVIOUS
    <3>1. f \in Entry /\ f[1] \in Int /\ e[1] \in Int
      BY <2>1, EntryAssumption
    <3>2. ~(e[1] < f[1])
      <4> SUFFICES ASSUME e[1] < f[1] PROVE FALSE
        OBVIOUS
      <4>1. f \in tried /\ <<e, f>> \in Before
        BY <3>1 DEF InsertedUpwards
      <4> QED  BY <2>1, <4>1 DEF Upward
    <3> QED  BY <3>1, <3>2
  <2>4. call'.at \in {"parent", "newRoot"} => call'.entry = e
    BY <2>2, AtRestIs DEF GoUp
  <2>5. \A f \in tried \cup {e}, d \in Entry : <<d, f>> \in Before => d \in tried \cup {e}
    BY <2>1 DEF Upward
  <2> QED  BY <2>1, <2>3, <2>4, <2>5 DEF Upward
<1>4. CASE EnterIntoParent
  <2>1. call' = AtRest \/ \E ns, c, k, n, depth : GoUp(ns, c, k, n, depth, call.entry)
    BY <1>4 DEF EnterIntoParent, Ended
  <2>2. call'.at \in {"parent", "newRoot"} => call'.entry = call.entry
    BY <2>1, AtRestIs DEF GoUp
  <2> QED  BY <1>1, <1>4, <2>2 DEF EnterIntoParent
<1>5. CASE MakeNewRoot
  BY <1>1, <1>5, AtRestIs DEF MakeNewRoot, Ended
<1>6. ASSUME NEW a \in ScanArgs, StartScan(NewScan(a)) PROVE Upward'
  <2>1. PICK s : s = NewScan(a)
    OBVIOUS
  <2> QED  BY <1>1, <1>6, <2>1 DEF StartScan, Ended, AtRest
<1>7. CASE SeekFirst
  <2>1. call' = call \/ call' = AtRest
    BY <1>7 DEF SeekFirst, Ended
  <2> QED  BY <1>1, <1>7, <2>1, AtRestIs DEF SeekFirst, historyVars
<1>8. CASE ScanNext
  <2>1. call' = AtRest
    BY <1>8 DEF ScanNext, Ended, Yields
  <2> QED  BY <1>1, <1>8, <2>1, AtRestIs DEF ScanNext
<1>9. CASE EndScan
  BY <1>1, <1>9, AtRestIs DEF EndScan, Ended
<1>10. CASE Reopen
  BY <1>1, <1>10, AtRestIs DEF Reopen, Ended
<1> QED  BY <1>2, <1>3, <1>4, <1>5, <1>6, <1>7, <1>8, <1>9, <1>10 DEF Next

(* The page that was split is the last child of its parent, so the new key *)
(* goes right of all keys there.                                           *)
LEMMA UpwardSplitsRight == IInv /\ Orderly /\ KeysTried /\ Upward => SplitsRight
<1> SUFFICES ASSUME IInv, Orderly, KeysTried, Upward, call.at = "parent",
                    Len(nodes[call.currId].keys) = NonLeafSize
             PROVE  FindIndex(nodes[call.currId].keys, call.currKey) >= Kept
  BY DEF SplitsRight
<1>1. PICK h : Stands(nodes, h) /\ CallOK(h) /\ InPlace(h)
  BY DEF Orderly, TreeOK
<1>2. PICK p, q, key, node, x, N :
         /\ p = call.currId /\ q = call.prevId /\ key = call.currKey /\ node = nodes[p]
         /\ x = call.entry[1] /\ N = NonLeafSize
  OBVIOUS
<1>3. PICK R, W : Ranged(nodes, h, R, W) /\ Pending(R, W)
  BY <1>1 DEF InPlace
<1>4. PICK c : HalfDone(R, W, c, q, key) /\ c \in ToSet(node.pages) /\ x \in W[c]
  BY <1>2, <1>3 DEF Pending
<1>5. /\ p \in 1 .. Len(nodes) /\ q \in 1 .. Len(nodes) /\ h[p] = h[q] + 1
      /\ call.entry \in Entry /\ x \in Int
  <2>1. /\ p \in 1 .. Len(nodes) /\ q \in 1 .. Len(nodes) /\ h[p] = h[q] + 1
        /\ call.entry \in tried
    BY <1>1, <1>2 DEF CallOK
  <2>2. call.entry \in Entry
    BY <2>1 DEF IInv, CountsOK
  <2> QED  BY <1>2, <2>1, <2>2, EntryAssumption
<1>6. ~node.leaf /\ NodeFits(node, Len(nodes))
  <2>1. h[q] \in Nat /\ h[p] # 0
    BY <1>1, <1>5, Standing
  <2> QED  BY <1>1, <1>2, <1>5, <2>1, Standing
<1>7. PICK keys, ps : keys = node.keys /\ ps = node.pages
  OBVIOUS
<1>8. /\ node \in InnerNode /\ keys \in Seq(Key) /\ keys \in Seq(Int) /\ Len(keys) = N
      /\ ps \in Seq(Nat) /\ Len(ps) = N + 1 /\ N \in Nat /\ N >= 2
  <2>1. PICK m \in 1 .. NonLeafSize : InnerWith(node, m, 1 .. Len(nodes))
    BY <1>6, InnerFits
  <2>2. node \in InnerNode /\ Len(keys) = N /\ Len(ps) = N + 1
    BY <1>2, <1>7, <2>1 DEF InnerWith
  <2>3. keys \in Seq(Key) /\ ps \in Seq(Nat)
    BY <1>7, <2>2, InnerFields
  <2> QED  BY <1>2, <2>2, <2>3, KeysAreInts, SizeAssumption
<1>9. \A i \in 1 .. N : keys[i] <= x
  <2> SUFFICES ASSUME NEW i \in 1 .. N PROVE keys[i] <= x
    OBVIOUS
  <2>1. keys[i] \in ToSet(keys)
    BY <1>8, SetOf
  <2>2. keys[i] \in TriedKeys
    BY <1>2, <1>5, <1>6, <1>7, <2>1 DEF KeysTried, KeysAmong
  <2> QED  BY <1>2, <2>2 DEF TriedKeys, Upward
<1>10. FindIndex(keys, x) = N
  <2>1. DOMAIN keys = 1 .. N /\ \A i \in 1 .. N : x >= keys[i]
    BY <1>5, <1>8, <1>9
  <2>2. Stops(keys, N, x, N)
    BY <1>8, <2>1 DEF Stops
  <2> QED  BY <1>8, <2>1, <2>2, StopsAt
<1>11. PICK i \in 1 .. N + 1 : c = ps[i]
  BY <1>4, <1>7, <1>8, SetOf
<1>12. W[c] = {y \in R[p] : FindIndex(keys, y) = i - 1}
  <2>1. Keeps(node, R[p], W)
    BY <1>2, <1>3, <1>5 DEF Ranged
  <2> QED  BY <1>6, <1>7, <1>8, <1>11, <2>1 DEF Keeps
<1>13. i - 1 = N
  BY <1>4, <1>10, <1>12
<1>14. key \in W[c]
  BY <1>4 DEF HalfDone, Parted
<1>15. FindIndex(keys, key) = N
  BY <1>12, <1>13, <1>14
<1>16. Kept <= N /\ Kept \in Nat
  BY <1>2, <1>8, KeptIs
<1> QED  BY <1>2, <1>7, <1>8, <1>15, <1>16

LEMMA InitUpward == Init => KeysTried /\ Upward
<1> SUFFICES ASSUME Init PROVE KeysTried /\ Upward
  OBVIOUS
<1>1. PICK none : none = <<>> /\ nodes = <<Leaf(none, NoPage)>>
  BY DEF Init
<1>2. Len(nodes) = 1 /\ nodes[1] = Leaf(none, NoPage) /\ Leaf(none, NoPage).leaf
  BY <1>1 DEF Leaf
<1>3. \A p \in 1 .. Len(nodes) : nodes[p].leaf
  BY <1>2
<1>4. call.at = "idle" /\ tried = {}
  BY AtRestIs DEF Init
<1> QED  BY <1>3, <1>4 DEF KeysTried, KeysAmong, Upward

(* Keys that are inserted in ascending order split every full non-leaf     *)
(* node by a key for its right half.                                       *)
THEOREM UpwardsInvariance ==
  ASSUME KeysDiffer, InsertedUpwards, NumBufs >= CallerPins + 4
  PROVE  Spec => [](Orderly /\ SplitsRight)
<1>1. Spec => []IInv
  BY Invariance
<1>2. Spec => []ChainOK
  BY ChainInvariance
<1>3. Spec => []NeverExceeded
  BY FramesSuffice
<1>4. Init => Orderly /\ KeysTried /\ Upward
  BY InitOrderly, InitUpward
<1>5. IInv /\ ChainOK /\ KeysTried /\ [Next]_vars => KeysTried'
  BY NextKeepsTried
<1>6. IInv /\ Upward /\ [Next]_vars => Upward'
  BY NextKeepsUpward
<1>7. IInv /\ Orderly /\ KeysTried /\ Upward => SplitsRight
  BY UpwardSplitsRight
<1>8. /\ IInv /\ ChainOK /\ NeverExceeded' /\ SplitsRight /\ Orderly /\ [Next]_vars
      => Orderly'
  BY NextKeepsOrder DEF NeverExceeded
<1>9. Spec => [](Orderly /\ KeysTried /\ Upward)
  BY <1>1, <1>2, <1>3, <1>4, <1>5, <1>6, <1>7, <1>8, PTL DEF Spec
<1> QED  BY <1>1, <1>7, <1>9, PTL

(* With different keys in ascending order and frames enough, a search      *)
(* finds every entry that was stored.                                      *)
THEOREM UpwardsSearchFinds ==
  ASSUME KeysDiffer, InsertedUpwards, NumBufs >= CallerPins + 4
  PROVE  Spec => []Searchable
<1>1. Spec => [](Orderly /\ SplitsRight)
  BY UpwardsInvariance
<1>2. Spec => []ChainOK
  BY ChainInvariance
<1>3. ChainOK /\ Orderly => Searchable
  BY OrderlyFinds
<1> QED  BY <1>1, <1>2, <1>3, PTL

-----------------------------------------------------------------------------
(* The scan: what lies ahead of it. *)

Rising(entries) == \A i, j \in 1 .. Len(entries) : i < j => entries[i][1] < entries[j][1]

LEMMA RisingIs ==
  ASSUME NEW entries \in Seq(Entry)
  PROVE  Ascending(EntryKeys(entries)) <=> Rising(entries)
<1>1. /\ EntryKeys(entries) \in Seq(Int) /\ Len(EntryKeys(entries)) = Len(entries)
      /\ \A i \in 1 .. Len(entries) : EntryKeys(entries)[i] = entries[i][1]
  BY EntryKeysAre
<1>2. DOMAIN EntryKeys(entries) = 1 .. Len(entries)
  BY <1>1
<1> QED  BY <1>1, <1>2 DEF Ascending, Rising

(* Within a leaf and along the chain of leaves the keys rise, and only the *)
(* first leaf of all can be empty.                                         *)
Sorted(ns, d) ==
    /\ Chained(ns, d)
    /\ \A p \in Leaves(ns) : ns[p].entries \in Seq(Entry) /\ Rising(ns[p].entries)
    /\ \A p, q \in Leaves(ns) : d[p] > d[q] =>
          \A e \in EntriesIn(ns, p), f \in EntriesIn(ns, q) : e[1] < f[1]
    /\ \A p, q \in Leaves(ns) : p # q => Len(ns[p].entries) >= 1

(* The entries of a leaf from entry i on, with the first being number 0,   *)
(* and those of the leaves to its right.                                   *)
After(entries, i) == {entries[j] : j \in i + 1 .. Len(entries)}
RightOf(ns, d, p) == UNION {EntriesIn(ns, q) : q \in {r \in Leaves(ns) : d[r] < d[p]}}
Ahead(ns, d, p, i) == After(ns[p].entries, i) \cup RightOf(ns, d, p)

LEMMA AheadIsThere ==
  ASSUME NEW ns, NEW d, Sorted(ns, d), NEW p \in Leaves(ns), NEW i \in Nat,
         NEW e \in Ahead(ns, d, p, i)
  PROVE  e \in Entry /\ e[1] \in Int /\ Has(ns, e)
<1>1. \E q \in Leaves(ns) : e \in EntriesIn(ns, q)
  <2>1. CASE e \in After(ns[p].entries, i)
    <3>1. PICK entries : entries = ns[p].entries
      OBVIOUS
    <3>2. entries \in Seq(Entry)
      BY <3>1 DEF Sorted
    <3>3. PICK j \in i + 1 .. Len(entries) : e = entries[j]
      BY <2>1, <3>1 DEF After
    <3>4. j \in 1 .. Len(entries)
      BY <3>2
    <3>5. e \in ToSet(entries)
      BY <3>2, <3>3, <3>4, SetOf
    <3> QED  BY <3>1, <3>5 DEF EntriesIn
  <2>2. CASE e \in RightOf(ns, d, p)
    BY <2>2 DEF RightOf
  <2> QED  BY <2>1, <2>2 DEF Ahead
<1>2. PICK q \in Leaves(ns) : e \in EntriesIn(ns, q)
  BY <1>1
<1>3. PICK entries : entries = ns[q].entries
  OBVIOUS
<1>4. entries \in Seq(Entry) /\ e \in ToSet(entries)
  BY <1>2, <1>3 DEF Sorted, EntriesIn
<1>5. e \in Entry
  BY <1>4, SetOf
<1> QED  BY <1>1, <1>5, EntryAssumption DEF Has

(* Everything in a leaf is ahead of its start. *)
LEMMA AllAhead ==
  ASSUME NEW ns, NEW d, Sorted(ns, d), NEW p \in Leaves(ns), NEW i \in Nat, NEW q \in Leaves(ns),
         d[q] < d[p] \/ (q = p /\ i = 0)
  PROVE  EntriesIn(ns, q) \subseteq Ahead(ns, d, p, i)
<1>1. CASE d[q] < d[p]
  BY <1>1 DEF Ahead, RightOf
<1>2. CASE q = p /\ i = 0
  <2>1. PICK entries : entries = ns[p].entries
    OBVIOUS
  <2>2. entries \in Seq(Entry)
    BY <2>1 DEF Sorted
  <2>3. ToSet(entries) \subseteq After(entries, i)
    BY <1>2, <2>2, SetOf DEF After
  <2> QED  BY <1>2, <2>1, <2>3 DEF Ahead, EntriesIn
<1> QED  BY <1>1, <1>2

(* What lies between two places of a leaf. *)
LEMMA AheadFrom ==
  ASSUME NEW ns, NEW d, Sorted(ns, d), NEW p \in Leaves(ns), NEW i \in Nat, NEW j \in Nat,
         i <= j, j <= Len(ns[p].entries)
  PROVE  Ahead(ns, d, p, i) = {ns[p].entries[m] : m \in i + 1 .. j} \cup Ahead(ns, d, p, j)
<1>1. PICK entries : entries = ns[p].entries
  OBVIOUS
<1>2. Len(entries) \in Nat
  BY <1>1 DEF Sorted
<1>3. i + 1 .. Len(entries) = (i + 1 .. j) \cup (j + 1 .. Len(entries))
  BY <1>1, <1>2
<1>4. After(entries, i) = {entries[m] : m \in i + 1 .. j} \cup After(entries, j)
  BY <1>3 DEF After
<1> QED  BY <1>1, <1>4 DEF Ahead

LEMMA AheadRises ==
  ASSUME NEW ns, NEW d, Sorted(ns, d), NEW p \in Leaves(ns), NEW m \in 1 .. Len(ns[p].entries)
  PROVE  \A e \in Ahead(ns, d, p, m) : ns[p].entries[m][1] < e[1]
<1>1. PICK entries : entries = ns[p].entries
  OBVIOUS
<1>2. entries \in Seq(Entry) /\ Rising(entries) /\ m \in 1 .. Len(entries) /\ Len(entries) \in Nat
  BY <1>1 DEF Sorted
<1>3. ASSUME NEW e \in After(entries, m) PROVE entries[m][1] < e[1]
  <2>1. PICK j \in m + 1 .. Len(entries) : e = entries[j]
    BY <1>3 DEF After
  <2>2. j \in 1 .. Len(entries) /\ m < j
    BY <1>2
  <2> QED  BY <1>2, <2>1, <2>2 DEF Rising
<1>4. ASSUME NEW e \in RightOf(ns, d, p) PROVE entries[m][1] < e[1]
  <2>1. PICK q \in Leaves(ns) : d[q] < d[p] /\ e \in EntriesIn(ns, q)
    BY <1>4 DEF RightOf
  <2>2. entries[m] \in EntriesIn(ns, p)
    BY <1>1, <1>2, SetOf DEF EntriesIn
  <2>3. d[p] > d[q]
    <3>1. d[p] \in Nat /\ d[q] \in Nat
      BY DEF Sorted, Chained, Leaves
    <3> QED  BY <2>1, <3>1
  <2> QED  BY <2>1, <2>2, <2>3 DEF Sorted
<1> QED  BY <1>1, <1>3, <1>4 DEF Ahead

(* From the end of a leaf the scan goes on with the next. *)
LEMMA AheadHop ==
  ASSUME NEW ns, NEW d, Sorted(ns, d), NEW p \in Leaves(ns), NEW i \in Nat,
         i >= Len(ns[p].entries)
  PROVE  IF ns[p].right = NoPage THEN Ahead(ns, d, p, i) = {}
         ELSE /\ ns[p].right \in Leaves(ns) /\ Len(ns[ns[p].right].entries) >= 1
              /\ Ahead(ns, d, ns[p].right, 0) = Ahead(ns, d, p, i)
<1>1. PICK entries : entries = ns[p].entries
  OBVIOUS
<1>2. Len(entries) \in Nat /\ i >= Len(entries)
  BY <1>1 DEF Sorted
<1>3. After(entries, i) = {}
  <2>1. \A j \in i + 1 .. Len(entries) : FALSE
    BY <1>2
  <2> QED  BY <2>1 DEF After
<1>4. Ahead(ns, d, p, i) = RightOf(ns, d, p)
  BY <1>1, <1>3 DEF Ahead
<1>5. Chained(ns, d) /\ \A q \in Leaves(ns) : d[q] \in Nat
  BY DEF Sorted, Chained, Leaves
<1>6. CASE ns[p].right = NoPage
  <2>1. d[p] = 0
    BY <1>5, <1>6 DEF Chained
  <2>2. \A r \in Leaves(ns) : ~(d[r] < d[p])
    BY <1>5, <2>1
  <2>3. RightOf(ns, d, p) = {}
    BY <2>2 DEF RightOf
  <2> QED  BY <1>4, <1>6, <2>3
<1>7. CASE ns[p].right # NoPage
  <2>1. PICK q : q = ns[p].right
    OBVIOUS
  <2>2. q \in Leaves(ns) /\ d[p] = d[q] + 1
    BY <1>5, <1>7, <2>1 DEF Chained
  <2>3. ASSUME NEW r \in Leaves(ns) PROVE d[r] < d[p] <=> (d[r] < d[q] \/ r = q)
    <3>1. d[r] = d[q] => r = q
      BY <1>5, <2>2 DEF Chained
    <3>2. PICK a, b, c : a = d[r] /\ b = d[q] /\ c = d[p]
      OBVIOUS
    <3>3. a \in Nat /\ b \in Nat /\ c = b + 1 /\ (a = b => r = q) /\ (r = q => a = b)
      BY <1>5, <2>2, <3>1, <3>2
    <3> QED  BY <3>2, <3>3
  <2>4. p # q
    BY <1>5, <2>2
  <2>5. Len(ns[q].entries) >= 1
    BY <2>2, <2>4 DEF Sorted
  <2>6. RightOf(ns, d, p) = RightOf(ns, d, q) \cup EntriesIn(ns, q)
    BY <2>2, <2>3 DEF RightOf
  <2>7. After(ns[q].entries, 0) = EntriesIn(ns, q)
    <3>1. PICK es : es = ns[q].entries
      OBVIOUS
    <3>2. es \in Seq(Entry) /\ 0 + 1 = 1
      BY <2>2, <3>1 DEF Sorted
    <3>3. After(es, 0) = ToSet(es)
      BY <3>2, SetOf DEF After
    <3> QED  BY <3>1, <3>3 DEF EntriesIn
  <2>8. Ahead(ns, d, q, 0) = RightOf(ns, d, p)
    BY <2>6, <2>7 DEF Ahead
  <2> QED  BY <1>4, <1>7, <2>1, <2>2, <2>5, <2>8
<1> QED  BY <1>6, <1>7

-----------------------------------------------------------------------------
(* The range of a scan. *)

RangeOps(s) ==
    s.low \in Int /\ s.high \in Int /\ s.lowOp \in {"GTE", "GT"} /\ s.highOp \in {"LTE", "LT"}

(* The two tests of the code tell what is in the range. *)
LEMMA RangeIs ==
  ASSUME NEW s, RangeOps(s), NEW k \in Int
  PROVE  InRange(s, k) <=> AboveLow(s, k) /\ ~PastHigh(s, k)
<1>1. PICK low, high, lowOp, highOp : /\ low = s.low /\ high = s.high
                                      /\ lowOp = s.lowOp /\ highOp = s.highOp
  OBVIOUS
<1>2. /\ low \in Int /\ high \in Int /\ lowOp \in {"GTE", "GT"} /\ highOp \in {"LTE", "LT"}
  BY <1>1 DEF RangeOps
<1> QED  BY <1>1, <1>2 DEF InRange, AboveLow, PastHigh

LEMMA RangeOrder ==
  ASSUME NEW s, RangeOps(s), NEW k \in Int, NEW m \in Int, k < m
  PROVE  (PastHigh(s, k) => PastHigh(s, m)) /\ (AboveLow(s, k) => AboveLow(s, m))
<1>1. PICK low, high, lowOp, highOp : /\ low = s.low /\ high = s.high
                                      /\ lowOp = s.lowOp /\ highOp = s.highOp
  OBVIOUS
<1>2. /\ low \in Int /\ high \in Int /\ lowOp \in {"GTE", "GT"} /\ highOp \in {"LTE", "LT"}
  BY <1>1 DEF RangeOps
<1> QED  BY <1>1, <1>2 DEF AboveLow, PastHigh

SameRange(s, t) ==
    t.low = s.low /\ t.high = s.high /\ t.lowOp = s.lowOp /\ t.highOp = s.highOp

(* The entries in the range. *)
Found(ns, s) == {e \in Entry : Has(ns, e) /\ InRange(s, e[1])}

-----------------------------------------------------------------------------
(* The scan in the leaves, at entry i of page p. *)

(* What is in the range was returned or is ahead, and is greater then.     *)
Halfway(ns, d, s, p, i, got, among) ==
    /\ Sorted(ns, d) /\ p \in Leaves(ns) /\ i \in Nat /\ RangeOps(s)
    /\ got \in Seq(Entry) /\ Rising(got)
    /\ among = Found(ns, s)
    /\ ToSet(got) \subseteq among
    /\ among \subseteq ToSet(got) \cup Ahead(ns, d, p, i)
    /\ \A f \in ToSet(got), e \in Ahead(ns, d, p, i) : f[1] < e[1]

(* Nothing ahead is before the range. *)
Started(ns, d, s, p, i) ==
    \A e \in Ahead(ns, d, p, i) : AboveLow(s, e[1]) \/ PastHigh(s, e[1])

LEMMA SameScan ==
  ASSUME NEW s, NEW t, SameRange(s, t), NEW ns, NEW d, NEW p, NEW i, NEW got, NEW among
  PROVE  /\ Halfway(ns, d, s, p, i, got, among) => Halfway(ns, d, t, p, i, got, among)
         /\ Started(ns, d, s, p, i) => Started(ns, d, t, p, i)
<1>1. \A k : /\ InRange(t, k) <=> InRange(s, k)
             /\ AboveLow(t, k) <=> AboveLow(s, k)
             /\ PastHigh(t, k) <=> PastHigh(s, k)
  BY DEF SameRange, InRange, AboveLow, PastHigh
<1>2. Found(ns, t) = Found(ns, s)
  BY <1>1 DEF Found
<1>3. RangeOps(s) => RangeOps(t)
  BY DEF RangeOps, SameRange
<1>4. Halfway(ns, d, s, p, i, got, among) => Halfway(ns, d, t, p, i, got, among)
  BY <1>2, <1>3 DEF Halfway
<1>5. Started(ns, d, s, p, i) => Started(ns, d, t, p, i)
  BY <1>1 DEF Started
<1> QED  BY <1>4, <1>5

(* The scan passes entries that are not in the range. *)
LEMMA Passes ==
  ASSUME NEW ns, NEW d, NEW s, NEW p, NEW i, NEW got, NEW among,
         Halfway(ns, d, s, p, i, got, among),
         NEW q \in Leaves(ns), NEW j \in Nat, NEW passed,
         Ahead(ns, d, p, i) = passed \cup Ahead(ns, d, q, j),
         \A e \in passed : ~InRange(s, e[1])
  PROVE  Halfway(ns, d, s, q, j, got, among)
<1>1. among \cap passed = {}
  BY DEF Halfway, Found
<1>2. among \subseteq ToSet(got) \cup Ahead(ns, d, q, j)
  BY <1>1 DEF Halfway
<1>3. \A f \in ToSet(got), e \in Ahead(ns, d, q, j) : f[1] < e[1]
  BY DEF Halfway
<1> QED  BY <1>2, <1>3 DEF Halfway

(* Beyond the last leaf there is nothing; else the next leaf is next. *)
LEMMA Hops ==
  ASSUME NEW ns, NEW d, NEW s, NEW p, NEW i, NEW got, NEW among,
         Halfway(ns, d, s, p, i, got, among), i >= Len(ns[p].entries)
  PROVE  IF ns[p].right = NoPage
         THEN among \subseteq ToSet(got) /\ Started(ns, d, s, p, i)
         ELSE /\ Halfway(ns, d, s, ns[p].right, 0, got, among)
              /\ Len(ns[ns[p].right].entries) >= 1
              /\ Started(ns, d, s, p, i) => Started(ns, d, s, ns[p].right, 0)
<1>1. Sorted(ns, d) /\ p \in Leaves(ns) /\ i \in Nat
  BY DEF Halfway
<1>2. CASE ns[p].right = NoPage
  <2>1. Ahead(ns, d, p, i) = {}
    BY <1>1, <1>2, AheadHop
  <2> QED  BY <1>2, <2>1 DEF Halfway, Started
<1>3. CASE ns[p].right # NoPage
  <2>1. PICK q : q = ns[p].right
    OBVIOUS
  <2>2. /\ q \in Leaves(ns) /\ Len(ns[q].entries) >= 1
        /\ Ahead(ns, d, q, 0) = Ahead(ns, d, p, i)
    BY <1>1, <1>3, <2>1, AheadHop
  <2>3. Halfway(ns, d, s, q, 0, got, among)
    BY <2>2 DEF Halfway
  <2> QED  BY <1>3, <2>1, <2>2, <2>3 DEF Started
<1> QED  BY <1>2, <1>3

(* The next entry is past the range, and so is all behind it. *)
LEMMA ComesToEnd ==
  ASSUME NEW ns, NEW d, NEW s, NEW p, NEW i, NEW got, NEW among,
         Halfway(ns, d, s, p, i, got, among), i < Len(ns[p].entries),
         PastHigh(s, ns[p].entries[i + 1][1])
  PROVE  among \subseteq ToSet(got)
<1>1. /\ Sorted(ns, d) /\ p \in Leaves(ns) /\ i \in Nat /\ RangeOps(s)
      /\ among = Found(ns, s) /\ among \subseteq ToSet(got) \cup Ahead(ns, d, p, i)
  BY DEF Halfway
<1>2. PICK entries, m, f : entries = ns[p].entries /\ m = i + 1 /\ f = entries[m]
  OBVIOUS
<1>3. /\ entries \in Seq(Entry) /\ Len(entries) \in Nat /\ m \in 1 .. Len(entries) /\ m \in Nat
      /\ i <= m /\ m <= Len(entries) /\ i + 1 .. m = {m}
  <2>1. entries \in Seq(Entry) /\ Len(entries) \in Nat
    BY <1>1, <1>2 DEF Sorted
  <2> QED  BY <1>1, <1>2, <2>1
<1>4. f[1] \in Int
  BY <1>2, <1>3, EntryAssumption
<1>5. Ahead(ns, d, p, i) = {entries[j] : j \in i + 1 .. m} \cup Ahead(ns, d, p, m)
  BY <1>1, <1>2, <1>3, AheadFrom
<1>6. \A e \in Ahead(ns, d, p, i) : e = f \/ e \in Ahead(ns, d, p, m)
  BY <1>2, <1>3, <1>5
<1>7. \A e \in Ahead(ns, d, p, m) : f[1] < e[1]
  BY <1>1, <1>2, <1>3, AheadRises
<1>8. \A e \in Ahead(ns, d, p, i) : e[1] \in Int
  BY <1>1, AheadIsThere
<1>9. ASSUME NEW e \in Ahead(ns, d, p, i) PROVE PastHigh(s, e[1])
  <2>1. CASE e = f
    BY <1>2, <2>1
  <2>2. CASE e # f
    <3>1. f[1] < e[1] /\ e[1] \in Int /\ PastHigh(s, f[1])
      BY <1>2, <1>6, <1>7, <1>8, <2>2
    <3> QED  BY <1>1, <1>4, <3>1, RangeOrder
  <2> QED  BY <2>1, <2>2
<1>10. ASSUME NEW e \in Ahead(ns, d, p, i) PROVE ~InRange(s, e[1])
  BY <1>1, <1>8, <1>9, RangeIs
<1> QED  BY <1>1, <1>10 DEF Found

(* The scan returns the next entry, which is the least ahead of it. *)
LEMMA Takes ==
  ASSUME NEW ns, NEW d, NEW s, NEW p, NEW i, NEW got, NEW among,
         Halfway(ns, d, s, p, i, got, among), Started(ns, d, s, p, i),
         i < Len(ns[p].entries), ~PastHigh(s, ns[p].entries[i + 1][1])
  PROVE  /\ Halfway(ns, d, s, p, i + 1, Append(got, ns[p].entries[i + 1]), among)
         /\ Started(ns, d, s, p, i + 1)
<1>1. /\ Sorted(ns, d) /\ p \in Leaves(ns) /\ i \in Nat /\ RangeOps(s)
      /\ got \in Seq(Entry) /\ Rising(got)
      /\ among = Found(ns, s) /\ ToSet(got) \subseteq among
      /\ among \subseteq ToSet(got) \cup Ahead(ns, d, p, i)
      /\ \A f \in ToSet(got), e \in Ahead(ns, d, p, i) : f[1] < e[1]
  BY DEF Halfway
<1>2. PICK entries, m, f : entries = ns[p].entries /\ m = i + 1 /\ f = entries[m]
  OBVIOUS
<1>3. /\ entries \in Seq(Entry) /\ Len(entries) \in Nat /\ m \in 1 .. Len(entries) /\ m \in Nat
      /\ i <= m /\ m <= Len(entries) /\ i + 1 .. m = {m} /\ m \in i + 1 .. m
  <2>1. entries \in Seq(Entry) /\ Len(entries) \in Nat
    BY <1>1, <1>2 DEF Sorted
  <2> QED  BY <1>1, <1>2, <2>1
<1>4. f \in Entry /\ f[1] \in Int
  BY <1>2, <1>3, EntryAssumption
<1>5. Ahead(ns, d, p, i) = {entries[j] : j \in i + 1 .. m} \cup Ahead(ns, d, p, m)
  BY <1>1, <1>2, <1>3, AheadFrom
<1>6. Ahead(ns, d, p, i) = {f} \cup Ahead(ns, d, p, m)
  BY <1>2, <1>3, <1>5
<1>7. \A e \in Ahead(ns, d, p, m) : f[1] < e[1]
  BY <1>1, <1>2, <1>3, AheadRises
<1>8. f \in among
  <2>1. Has(ns, f)
    BY <1>1, <1>6, AheadIsThere
  <2>2. AboveLow(s, f[1]) /\ ~PastHigh(s, f[1])
    BY <1>2, <1>6 DEF Started
  <2>3. InRange(s, f[1])
    BY <1>1, <1>4, <2>2, RangeIs
  <2> QED  BY <1>1, <1>4, <2>1, <2>3 DEF Found
<1>9. PICK all, n : all = Append(got, f) /\ n = Len(got)
  OBVIOUS
<1>10. /\ all \in Seq(Entry) /\ Len(all) = n + 1 /\ n \in Nat /\ all[n + 1] = f
       /\ \A j \in 1 .. n : all[j] = got[j]
  BY <1>1, <1>4, <1>9
<1>11. ToSet(all) = ToSet(got) \cup {f}
  <2>1. \A x : x \in ToSet(all) <=> \E j \in 1 .. n + 1 : x = all[j]
    BY <1>10, SetOf
  <2>2. \A x : x \in ToSet(got) <=> \E j \in 1 .. n : x = got[j]
    BY <1>1, <1>9, SetOf
  <2>3. \A j \in 1 .. n + 1 : j \in 1 .. n \/ j = n + 1
    BY <1>10
  <2>4. n + 1 \in 1 .. n + 1 /\ \A j \in 1 .. n : j \in 1 .. n + 1
    BY <1>10
  <2> QED  BY <1>10, <2>1, <2>2, <2>3, <2>4
<1>12. Rising(all)
  <2> SUFFICES ASSUME NEW a \in 1 .. Len(all), NEW b \in 1 .. Len(all), a < b
               PROVE  all[a][1] < all[b][1]
    BY DEF Rising
  <2>1. a \in 1 .. n /\ (b \in 1 .. n \/ b = n + 1)
    BY <1>10
  <2>2. CASE b \in 1 .. n
    BY <1>1, <1>9, <1>10, <2>1, <2>2 DEF Rising
  <2>3. CASE b = n + 1
    <3>1. got[a] \in ToSet(got)
      BY <1>1, <1>9, <2>1, SetOf
    <3> QED  BY <1>1, <1>6, <1>10, <2>1, <2>3, <3>1
  <2> QED  BY <2>1, <2>2, <2>3
<1>13. Halfway(ns, d, s, p, m, all, among)
  BY <1>1, <1>3, <1>6, <1>7, <1>8, <1>10, <1>11, <1>12 DEF Halfway
<1>14. Started(ns, d, s, p, m)
  BY <1>6 DEF Started
<1> QED  BY <1>2, <1>9, <1>13, <1>14

(* The search for the first entry passes those before the range. *)
LEMMA Seeks ==
  ASSUME NEW ns, NEW d, NEW s, NEW p, NEW got, NEW among,
         Halfway(ns, d, s, p, 0, got, among),
         NEW i \in Nat, i <= Len(ns[p].entries),
         \A j \in 1 .. i : ~AboveLow(s, ns[p].entries[j][1])
  PROVE  /\ Halfway(ns, d, s, p, i, got, among)
         /\ i < Len(ns[p].entries) =>
               LET k == ns[p].entries[i + 1][1] IN
               AboveLow(s, k) \/ PastHigh(s, k) => Started(ns, d, s, p, i)
<1>1. Sorted(ns, d) /\ p \in Leaves(ns) /\ RangeOps(s)
  BY DEF Halfway
<1>2. PICK entries, passed : /\ entries = ns[p].entries
                             /\ passed = {entries[m] : m \in 0 + 1 .. i}
  OBVIOUS
<1>3. entries \in Seq(Entry) /\ Len(entries) \in Nat /\ i <= Len(entries)
  BY <1>1, <1>2 DEF Sorted
<1>4. Ahead(ns, d, p, 0) = passed \cup Ahead(ns, d, p, i)
  BY <1>1, <1>2, AheadFrom
<1>5. ASSUME NEW e \in passed PROVE ~InRange(s, e[1])
  <2>1. PICK m \in 1 .. i : e = entries[m]
    BY <1>2
  <2>2. m \in 1 .. Len(entries)
    BY <1>3
  <2>3. e \in Entry /\ e[1] \in Int
    BY <1>3, <2>1, <2>2, EntryAssumption
  <2> QED  BY <1>1, <1>2, <2>1, <2>3, RangeIs
<1>6. Halfway(ns, d, s, p, i, got, among)
  BY <1>1, <1>4, <1>5, Passes
<1>7. ASSUME i < Len(entries), AboveLow(s, entries[i + 1][1]) \/ PastHigh(s, entries[i + 1][1])
      PROVE  Started(ns, d, s, p, i)
  <2>1. PICK m, f : m = i + 1 /\ f = entries[m]
    OBVIOUS
  <2>2. m \in 1 .. Len(entries) /\ m \in Nat /\ i <= m /\ m <= Len(entries) /\ i + 1 .. m = {m}
    BY <1>3, <1>7, <2>1
  <2>3. f[1] \in Int
    BY <1>3, <2>1, <2>2, EntryAssumption
  <2>4. Ahead(ns, d, p, i) = {entries[j] : j \in i + 1 .. m} \cup Ahead(ns, d, p, m)
    BY <1>1, <1>2, <2>2, AheadFrom
  <2>5. \A e \in Ahead(ns, d, p, i) : e = f \/ e \in Ahead(ns, d, p, m)
    BY <2>1, <2>2, <2>4
  <2>6. \A e \in Ahead(ns, d, p, m) : f[1] < e[1]
    BY <1>1, <1>2, <2>1, <2>2, AheadRises
  <2>7. \A e \in Ahead(ns, d, p, i) : e[1] \in Int
    BY <1>1, AheadIsThere
  <2>8. ASSUME NEW e \in Ahead(ns, d, p, i) PROVE AboveLow(s, e[1]) \/ PastHigh(s, e[1])
    <3>1. CASE e = f
      BY <1>7, <2>1, <3>1
    <3>2. CASE e # f
      <4>1. f[1] < e[1] /\ e[1] \in Int
        BY <2>5, <2>6, <2>7, <3>2
      <4>2. (PastHigh(s, f[1]) => PastHigh(s, e[1])) /\ (AboveLow(s, f[1]) => AboveLow(s, e[1]))
        BY <1>1, <2>3, <4>1, RangeOrder
      <4> QED  BY <1>7, <2>1, <4>2
    <3> QED  BY <3>1, <3>2
  <2> QED  BY <2>8 DEF Started
<1> QED  BY <1>2, <1>6, <1>7

(* A scan that begins in the leaf of the low end has all of it ahead. *)
LEMMA Begins ==
  ASSUME NEW ns, NEW d, Sorted(ns, d), NEW s, RangeOps(s), NEW p \in Leaves(ns),
         \A q \in Leaves(ns) : d[q] > d[p] => \A e \in EntriesIn(ns, q) : e[1] < s.low,
         NEW got, got \in Seq(Entry), Len(got) = 0
  PROVE  Halfway(ns, d, s, p, 0, got, Found(ns, s))
<1>1. ToSet(got) = {} /\ Rising(got)
  BY DEF Rising, ToSet
<1>2. ASSUME NEW e \in Found(ns, s) PROVE e \in Ahead(ns, d, p, 0)
  <2>1. e[1] \in Int /\ InRange(s, e[1])
    BY <1>2, EntryAssumption DEF Found
  <2>2. ~(e[1] < s.low)
    BY <2>1 DEF InRange, RangeOps
  <2>3. PICK q \in Leaves(ns) : e \in EntriesIn(ns, q)
    BY <1>2 DEF Found, Has
  <2>4. ~(d[q] > d[p])
    BY <2>2, <2>3
  <2>5. d[p] \in Nat /\ d[q] \in Nat /\ (d[q] = d[p] => q = p)
    BY DEF Sorted, Chained, Leaves
  <2>6. d[q] < d[p] \/ q = p
    BY <2>4, <2>5
  <2> QED  BY <2>3, <2>6, AllAhead
<1> QED  BY <1>1, <1>2 DEF Halfway

-----------------------------------------------------------------------------
(* Only the first leaf of all can be empty. *)

Filled == \A p, q \in Leaves(nodes) : p # q => Len(nodes[p].entries) >= 1

LEMMA InsertKeepsFilled ==
  ASSUME IInv, Filled, NEW e \in Entry, InsertEntry(e)
  PROVE  Filled'
<1>1. PICK h : Stands(nodes, h)
  BY DEF IInv, TreeOK
<1>2. /\ Len(nodes) \in Nat /\ DOMAIN nodes = 1 .. Len(nodes)
      /\ nodes \in Seq(LeafNode \cup InnerNode)
  BY TreeIs DEF IInv
<1>3. PICK p, leaf, N : p = LeafFor(e[1]) /\ leaf = nodes[p] /\ N = Len(nodes)
  OBVIOUS
<1>4. p \in 1 .. N /\ leaf.leaf /\ NodeFits(leaf, N) /\ N \in Nat
  BY <1>1, <1>2, <1>3, LeafForIs, Standing
<1>5. /\ leaf \in LeafNode /\ leaf.entries \in Seq(Entry) /\ Len(leaf.entries) <= LeafSize
      /\ leaf.right \in Nat
  BY <1>4, LeafFits
<1>6. CASE nodes' = nodes
  BY <1>6 DEF Filled, Leaves
<1>7. ASSUME NEW ms, ms = nodes', NEW n \in Nat, n >= N, Len(ms) = n,
             \A q \in 1 .. n : q \in 1 .. N /\ q # p => ms[q] = nodes[q],
             \A q \in 1 .. n : q \notin 1 .. N \/ q = p => Len(ms[q].entries) >= 1
      PROVE  Filled'
  <2> SUFFICES ASSUME NEW q \in Leaves(ms), NEW r \in Leaves(ms), q # r
               PROVE  Len(ms[q].entries) >= 1
    BY <1>7 DEF Filled
  <2>1. q \in 1 .. n
    BY <1>7 DEF Leaves
  <2>2. CASE q \in 1 .. N /\ q # p
    <3>1. p \in Leaves(nodes) /\ q \in Leaves(nodes) /\ ms[q] = nodes[q]
      BY <1>3, <1>4, <1>7, <2>1, <2>2 DEF Leaves
    <3> QED  BY <2>2, <3>1 DEF Filled
  <2> QED  BY <1>7, <2>1, <2>2
<1>8. CASE nodes' = [nodes EXCEPT ![p].entries = WithEntry(leaf.entries, e)]
  <2>1. PICK entries, a : entries = WithEntry(leaf.entries, e) /\ a = Leaf(entries, leaf.right)
    OBVIOUS
  <2>2. entries \in Seq(Entry) /\ e \in ToSet(entries)
    BY <1>5, <2>1, EntryPlaced
  <2>3. Len(entries) >= 1
    <3>1. PICK i \in 1 .. Len(entries) : e = entries[i]
      BY <2>2, SetOf
    <3> QED  BY <2>2, <3>1
  <2>4. nodes' = [nodes EXCEPT ![p] = a]
    <3>1. Shaped(nodes) /\ p \in 1 .. Len(nodes) /\ nodes[p].leaf
      BY <1>1, <1>3, <1>4 DEF Stands
    <3>2. [nodes EXCEPT ![p].entries = entries] = [nodes EXCEPT ![p] = Leaf(entries, nodes[p].right)]
      BY <2>2, <3>1, LeafExcept
    <3> QED  BY <1>3, <1>8, <2>1, <3>2
  <2>5. PICK ms : ms = nodes'
    OBVIOUS
  <2>6. Len(ms) = N /\ ms[p] = a /\ \A q \in 1 .. N : q # p => ms[q] = nodes[q]
    BY <1>2, <1>3, <1>4, <2>4, <2>5
  <2>7. a.entries = entries
    BY <2>1 DEF Leaf
  <2> QED  BY <1>4, <1>7, <2>3, <2>5, <2>6, <2>7
<1>9. CASE LET halves == SplitLeaf(leaf.entries, e)
               split == Append([nodes EXCEPT ![p] = Leaf(halves[1], NewPage)],
                               Leaf(halves[2], leaf.right))
           IN ~Fits(leaf) /\ nodes' = split
  <2>1. Len(leaf.entries) = LeafSize
    BY <1>5, <1>9, SizeAssumption DEF Fits
  <2>2. PICK n, l, r : n = N + 1 /\ SplitLeaf(leaf.entries, e) = <<l, r>>
    BY DEF SplitLeaf
  <2>3. /\ l \in Seq(Entry) /\ r \in Seq(Entry) /\ Len(l) \in 1 .. LeafSize /\ Len(r) \in 1 .. LeafSize
    BY <1>5, <2>1, <2>2, LeafSplitInTwo
  <2>4. PICK a, b, ms : /\ a = Leaf(l, n) /\ b = Leaf(r, leaf.right)
                        /\ ms = Append([nodes EXCEPT ![p] = a], b)
    OBVIOUS
  <2>5. ms = nodes'
    BY <1>3, <1>9, <2>2, <2>4 DEF NewPage
  <2>6. /\ n \in Nat /\ n >= N /\ Len(ms) = n /\ ms[p] = a /\ ms[n] = b
        /\ \A q \in 1 .. N : q # p => ms[q] = nodes[q]
    BY <1>2, <1>3, <1>4, <2>2, <2>4
  <2>7. Len(a.entries) >= 1 /\ Len(b.entries) >= 1
    BY <2>3, <2>4, SizeAssumption DEF Leaf
  <2>8. \A q \in 1 .. n : q \in 1 .. N \/ q = n
    BY <1>4, <2>2
  <2> QED  BY <1>7, <2>5, <2>6, <2>7, <2>8
<1> QED  BY <1>3, <1>6, <1>8, <1>9 DEF InsertEntry

LEMMA NextKeepsFilled == IInv /\ Filled /\ [Next]_vars => Filled'
<1> SUFFICES ASSUME IInv, Filled, [Next]_vars PROVE Filled'
  OBVIOUS
<1>1. CASE nodes' = nodes
  BY <1>1 DEF Filled, Leaves
<1>2. ASSUME NEW e \in Entry, InsertEntry(e) PROVE Filled'
  BY <1>2, InsertKeepsFilled
<1>3. CASE EnterIntoParent \/ MakeNewRoot
  <2>1. SameLeaves(nodes, nodes')
    BY <1>3, EnterKeepsLeaves, NewRootKeepsLeaves
  <2>2. PICK ns, ms : ns = nodes /\ ms = nodes'
    OBVIOUS
  <2>3. Leaves(ms) = Leaves(ns) /\ \A p \in Leaves(ns) : ms[p] = ns[p]
    BY <2>1, <2>2 DEF SameLeaves
  <2>4. \A p, q \in Leaves(ms) : p # q => Len(ms[p].entries) >= 1
    BY <2>2, <2>3 DEF Filled
  <2> QED  BY <2>2, <2>4 DEF Filled
<1> QED  BY <1>1, <1>2, <1>3 DEF Next, vars, treeVars, StartScan, SeekFirst, ScanNext, EndScan, Reopen

LEMMA InitFilled == Init => Filled
<1> SUFFICES ASSUME Init PROVE Filled
  OBVIOUS
<1>1. PICK none : none = <<>> /\ nodes = <<Leaf(none, NoPage)>>
  BY DEF Init
<1>2. \A p, q \in 1 .. Len(nodes) : p = q
  BY <1>1
<1> QED  BY <1>2 DEF Filled, Leaves

(* Between calls the leaves are in order, and to the left of the leaf that *)
(* a search for a key comes to there are lesser keys only.                 *)
LEMMA SortedAtRest ==
  ASSUME IInv, Orderly, Filled, call.at \notin {"parent", "newRoot"}, NEW k \in Int
  PROVE  \E d : /\ Sorted(nodes, d) /\ LeafFor(k) \in Leaves(nodes)
                /\ \A q \in Leaves(nodes) : d[q] > d[LeafFor(k)] =>
                      \A e \in EntriesIn(nodes, q) : e[1] < k
<1>1. PICK h : Stands(nodes, h) /\ InPlace(h)
  BY DEF Orderly, TreeOK
<1>2. PICK R : Ranged(nodes, h, R, R) /\ R[rootPageNum] = Int /\ Lined(nodes, R)
  BY <1>1 DEF InPlace, Pending
<1>3. PICK d : AlongChain(nodes, R, d)
  BY <1>2 DEF Lined
<1>4. ASSUME NEW p \in Leaves(nodes)
      PROVE  /\ nodes[p].entries \in Seq(Entry) /\ Rising(nodes[p].entries)
             /\ \A e \in EntriesIn(nodes, p) : e[1] \in R[p]
  <2>1. PICK node, entries, right, S : /\ node = nodes[p] /\ entries = node.entries
                                       /\ right = node.right /\ S = R[p]
    OBVIOUS
  <2>2. p \in 1 .. Len(nodes) /\ node.leaf /\ NodeFits(node, Len(nodes))
    BY <1>1, <2>1, Standing DEF Leaves
  <2>3. node \in LeafNode /\ entries \in Seq(Entry)
    BY <2>1, <2>2, LeafFits
  <2>4. Keeps(Leaf(entries, right), S, R)
    <3>1. Keeps(node, S, R)
      BY <1>2, <2>1, <2>2 DEF Ranged
    <3> QED  BY <2>1, <2>3, <3>1, LeafNodeIs
  <2>5. Ascending(EntryKeys(entries)) /\ ToSet(EntryKeys(entries)) \subseteq S
    BY <2>3, <2>4, LeafKeeps
  <2>6. Rising(entries)
    BY <2>3, <2>5, RisingIs
  <2>7. \A e \in ToSet(entries) : e[1] \in S
    BY <2>3, <2>5, EntryKeysAre
  <2> QED  BY <2>1, <2>3, <2>6, <2>7 DEF EntriesIn
<1>5. \A p, q \in Leaves(nodes) : d[p] > d[q] => \A x \in R[p], y \in R[q] : x < y
  BY <1>3 DEF AlongChain
<1>6. Sorted(nodes, d)
  <2>1. Chained(nodes, d)
    BY <1>3 DEF AlongChain
  <2>2. ASSUME NEW p \in Leaves(nodes), NEW q \in Leaves(nodes), d[p] > d[q],
               NEW e \in EntriesIn(nodes, p), NEW f \in EntriesIn(nodes, q)
        PROVE  e[1] < f[1]
    BY <1>4, <1>5, <2>2
  <2> QED  BY <1>4, <2>1, <2>2 DEF Sorted, Filled
<1>7. LeafFor(k) \in Leaves(nodes)
  BY <1>1, LeafForIs DEF Leaves
<1>8. k \in R[LeafFor(k)]
  BY <1>1, <1>2, WayRanges
<1>9. ASSUME NEW q \in Leaves(nodes), d[q] > d[LeafFor(k)], NEW e \in EntriesIn(nodes, q)
      PROVE  e[1] < k
  BY <1>4, <1>5, <1>7, <1>8, <1>9
<1> QED  BY <1>6, <1>7, <1>9

-----------------------------------------------------------------------------
(* What is counted and remembered of the calls. *)

(* Between calls every entry that was tried is stored. *)
Stocked ==
    /\ DOMAIN returned = {"entries", "among", "disturbed"}
    /\ returned.among \subseteq tried
    /\ leafOccupancy = 0 => tried = {}
    /\ call.at \in {"idle", "seek"} => tried = stored
    /\ call.at \in {"parent", "newRoot"} => tried = stored \cup {call.entry}

LEMMA ReturnedWith ==
  ASSUME NEW r, DOMAIN r = {"entries", "among", "disturbed"}, NEW x
  PROVE  /\ DOMAIN [r EXCEPT !.disturbed = x] = {"entries", "among", "disturbed"}
         /\ [r EXCEPT !.disturbed = x].disturbed = x
         /\ [r EXCEPT !.disturbed = x].among = r.among
         /\ DOMAIN [r EXCEPT !.entries = x] = {"entries", "among", "disturbed"}
         /\ [r EXCEPT !.entries = x].disturbed = r.disturbed
         /\ [r EXCEPT !.entries = x].among = r.among
         /\ [r EXCEPT !.entries = x].entries = x
         /\ DOMAIN [r EXCEPT !.among = x] = {"entries", "among", "disturbed"}
         /\ [r EXCEPT !.among = x].disturbed = r.disturbed
         /\ [r EXCEPT !.among = x].among = x
         /\ [r EXCEPT !.among = x].entries = r.entries
OBVIOUS

LEMMA NothingIs ==
  /\ DOMAIN NothingReturned = {"entries", "among", "disturbed"}
  /\ NothingReturned.among = {} /\ ~NothingReturned.disturbed
  /\ NothingReturned.entries \in Seq(Entry) /\ Len(NothingReturned.entries) = 0
<1>1. PICK none : none = <<>>
  OBVIOUS
<1>2. none \in Seq(Entry) /\ Len(none) = 0
  BY <1>1
<1>3. NothingReturned = [entries |-> none, among |-> {}, disturbed |-> FALSE]
  BY <1>1 DEF NothingReturned
<1> QED  BY <1>2, <1>3

LEMMA InitStocked == Init => Stocked
BY NothingIs, AtRestIs DEF Init, Stocked

LEMMA NextKeepsStocked ==
  ASSUME IInv, Stocked, outcome'.res # "BufferExceeded", [Next]_vars
  PROVE  Stocked'
<1>1. leafOccupancy \in Nat /\ tried \subseteq Entry /\ stored \subseteq tried
  BY DEF IInv, CountsOK
<1>2. CASE UNCHANGED vars
  BY <1>2 DEF Stocked, vars, treeVars, historyVars
<1>3. ASSUME NEW e \in Entry, InsertEntry(e) PROVE Stocked'
  <2>1. /\ call.at = "idle" /\ tried' = tried \cup {e} /\ leafOccupancy' = leafOccupancy + 1
        /\ returned' = [returned EXCEPT !.disturbed = scan.executing]
    BY <1>3 DEF InsertEntry, Idle, Disturbs
  <2>2. DOMAIN returned' = {"entries", "among", "disturbed"} /\ returned'.among = returned.among
    BY <2>1, ReturnedWith DEF Stocked
  <2>3. leafOccupancy' # 0 /\ tried = stored /\ returned.among \subseteq tried
    BY <1>1, <2>1 DEF Stocked
  <2>4. \/ call'.at = "idle" /\ stored' = stored \cup {e}
        \/ call'.at \in {"parent", "newRoot"} /\ call'.entry = e /\ stored' = stored
        \/ call'.at = "lost"
    BY <1>3, AtRestIs DEF InsertEntry, Ended, GoUp
  <2> QED  BY <2>1, <2>2, <2>3, <2>4 DEF Stocked
<1>4. CASE EnterIntoParent
  <2>1. /\ call.at = "parent" /\ tried' = tried /\ leafOccupancy' = leafOccupancy
        /\ returned' = returned
    BY <1>4 DEF EnterIntoParent
  <2>2. \/ call'.at = "idle" /\ stored' = stored \cup {call.entry}
        \/ call'.at \in {"parent", "newRoot"} /\ call'.entry = call.entry /\ stored' = stored
        \/ call'.at = "lost"
    BY <1>4, AtRestIs DEF EnterIntoParent, Ended, GoUp
  <2> QED  BY <2>1, <2>2 DEF Stocked
<1>5. CASE MakeNewRoot
  <2>1. /\ call.at = "newRoot" /\ tried' = tried /\ leafOccupancy' = leafOccupancy
        /\ returned' = returned /\ call'.at = "idle" /\ stored' = stored \cup {call.entry}
    BY <1>5, AtRestIs DEF MakeNewRoot, Ended
  <2> QED  BY <2>1 DEF Stocked
<1>6. ASSUME /\ tried' = tried /\ stored' = stored /\ leafOccupancy' = leafOccupancy
             /\ call.at \in {"idle", "seek"} /\ call'.at \in {"idle", "seek", "dead"}
             /\ DOMAIN returned' = {"entries", "among", "disturbed"}
             /\ returned'.among \subseteq tried
      PROVE  Stocked'
  BY <1>6 DEF Stocked
<1>7. ASSUME NEW a \in ScanArgs, StartScan(NewScan(a)) PROVE Stocked'
  <2>1. PICK s, T : s = NewScan(a) /\ T = {e \in stored : InRange(s, e[1])}
    OBVIOUS
  <2>2. /\ tried' = tried /\ stored' = stored /\ leafOccupancy' = leafOccupancy
        /\ call.at = "idle" /\ call'.at \in {"idle", "seek"}
        /\ \/ returned' = returned \/ returned' = NothingReturned
           \/ returned' = [NothingReturned EXCEPT !.among = T]
    BY <1>7, <2>1, AtRestIs DEF StartScan, Ended, Idle
  <2>3. T \subseteq tried
    BY <1>1, <2>1
  <2>4. DOMAIN returned' = {"entries", "among", "disturbed"} /\ returned'.among \subseteq tried
    <3>1. CASE returned' = returned
      BY <3>1 DEF Stocked
    <3>2. CASE returned' = NothingReturned
      BY <3>2, NothingIs
    <3>3. CASE returned' = [NothingReturned EXCEPT !.among = T]
      BY <2>3, <3>3, NothingIs, ReturnedWith
    <3> QED  BY <2>2, <3>1, <3>2, <3>3
  <2> QED  BY <1>6, <2>2, <2>4
<1>8. CASE SeekFirst
  <2>1. call' = call \/ call' = AtRest
    BY <1>8 DEF SeekFirst, Ended
  <2> QED  BY <1>6, <1>8, <2>1, AtRestIs DEF SeekFirst, historyVars, Stocked
<1>9. CASE ScanNext
  <2>1. /\ tried' = tried /\ stored' = stored /\ leafOccupancy' = leafOccupancy
        /\ call.at = "idle" /\ call'.at = "idle"
        /\ \/ returned' = returned
           \/ \E es : returned' = [returned EXCEPT !.entries = es]
    BY <1>9, AtRestIs DEF ScanNext, Ended, Yields, Idle
  <2>2. DOMAIN returned' = {"entries", "among", "disturbed"} /\ returned'.among \subseteq tried
    BY <2>1, ReturnedWith DEF Stocked
  <2> QED  BY <1>6, <2>1, <2>2
<1>10. CASE EndScan \/ Reopen
  <2>1. /\ tried' = tried /\ stored' = stored /\ leafOccupancy' = leafOccupancy
        /\ call.at = "idle" /\ call'.at \in {"idle", "dead"}
        /\ returned' = returned \/ returned' = NothingReturned
    BY <1>10, AtRestIs DEF EndScan, Reopen, Ended, Idle
  <2>2. DOMAIN returned' = {"entries", "among", "disturbed"} /\ returned'.among \subseteq tried
    BY <2>1, NothingIs DEF Stocked
  <2> QED  BY <1>6, <2>1, <2>2
<1> QED  BY <1>2, <1>3, <1>4, <1>5, <1>7, <1>8, <1>9, <1>10 DEF Next

-----------------------------------------------------------------------------
(* The invariant of the scan: it is halfway. *)

NotFound == outcome = [op |-> "startScan", res |-> "NoSuchKeyFound"]
Completed == outcome = [op |-> "scanNext", res |-> "IndexScanCompleted"]

(* As long as nothing was inserted the scan is halfway through its range,  *)
(* which startScan came to when it returned.                               *)
Follows ==
    /\ call.at # "seek" /\ NotFound => returned.among = {}
    /\ call.at = "seek" => scan.executing /\ ~returned.disturbed
    /\ scan.executing /\ ~returned.disturbed =>
          /\ call.at \in {"idle", "seek", "dead"}
          /\ \E d : /\ Halfway(nodes, d, scan, scan.page, scan.next,
                               returned.entries, returned.among)
                    /\ call.at = "idle" => Started(nodes, d, scan, scan.page, scan.next)
          /\ call.at = "seek" => ToSet(returned.entries) = {} /\ scan.next = 0
          /\ call.at = "idle" /\ Completed => returned.among \subseteq ToSet(returned.entries)

LEMMA InitFollows == Init => Follows
<1> SUFFICES ASSUME Init PROVE Follows
  OBVIOUS
<1>1. ~scan.executing
  BY NoScanIs DEF Init
<1>2. call.at = "idle" /\ returned.among = {}
  BY AtRestIs, NothingIs DEF Init
<1> QED  BY <1>1, <1>2 DEF Follows

(* The scan comes to entry i of page p. *)
LEMMA FollowsBy ==
  ASSUME NEW ns, ns = nodes', NEW t, t = scan', NEW got, got = returned'.entries,
         NEW among, among = returned'.among,
         NEW d, NEW p, NEW i, p = t.page, i = t.next, Halfway(ns, d, t, p, i, got, among),
         call'.at \in {"idle", "seek"},
         call'.at = "idle" => Started(ns, d, t, p, i) /\ (Completed' => among \subseteq ToSet(got)),
         call'.at = "seek" => t.executing /\ ~returned'.disturbed /\ ToSet(got) = {} /\ i = 0,
         call'.at # "seek" /\ NotFound' => among = {}
  PROVE  Follows'
<1>1. /\ Halfway(nodes', d, scan', scan'.page, scan'.next, returned'.entries, returned'.among)
      /\ call'.at = "idle" => Started(nodes', d, scan', scan'.page, scan'.next)
  OBVIOUS
<1>2. call'.at # "seek" /\ NotFound' => returned'.among = {}
  OBVIOUS
<1>3. call'.at = "seek" => scan'.executing /\ ~returned'.disturbed
  OBVIOUS
<1>4. /\ call'.at \in {"idle", "seek", "dead"}
      /\ call'.at = "seek" => ToSet(returned'.entries) = {} /\ scan'.next = 0
      /\ call'.at = "idle" /\ Completed' => returned'.among \subseteq ToSet(returned'.entries)
  OBVIOUS
<1> QED  BY <1>1, <1>2, <1>3, <1>4 DEF Follows

(* No scan is open, or it is disturbed. *)
LEMMA FollowsNone ==
  ASSUME call'.at # "seek", ~scan'.executing \/ returned'.disturbed,
         NotFound' => returned'.among = {}
  PROVE  Follows'
BY DEF Follows

LEMMA ScanAt ==
  ASSUME NEW s \in Scans, NEW q \in Nat, NEW i \in Nat
  PROVE  /\ LET t == [s EXCEPT !.next = i] IN
            SameRange(s, t) /\ t.page = s.page /\ t.next = i /\ t.executing = s.executing
         /\ LET t == [s EXCEPT !.page = q, !.next = i] IN
            SameRange(s, t) /\ t.page = q /\ t.next = i /\ t.executing = s.executing
BY DEF Scans, SameRange

LEMMA NewScanAt ==
  ASSUME NEW a \in ScanArgs
  PROVE  NewScan(a).next = 0
<1>1. PICK yes : yes = TRUE
  OBVIOUS
<1>2. NewScan(a) = [NoScan EXCEPT !.executing = yes, !.low = a[1], !.lowOp = a[2],
                                  !.high = a[3], !.highOp = a[4]]
  BY <1>1 DEF NewScan
<1>3. PICK no : NoScan = [executing |-> no, low |-> 0, lowOp |-> "GTE", high |-> 0,
                          highOp |-> "LTE", page |-> 0, next |-> 0, ready |-> no]
  BY DEF NoScan, NoPage
<1> QED  BY <1>2, <1>3

LEMMA BegunAt ==
  ASSUME NEW s \in Scans, NEW q \in Nat
  PROVE  LET t == [s EXCEPT !.page = q, !.ready = TRUE] IN
         SameRange(s, t) /\ t.page = q /\ t.next = s.next /\ (s.executing => t.executing)
BY DEF Scans, SameRange

(* The scan has not moved and no entry was entered. *)
LEMMA FollowsOn ==
  ASSUME Follows, call.at = "idle", UNCHANGED <<nodes, scan, returned>>,
         \/ call'.at = "dead" \/ call'.at = "idle",
         NotFound' => returned.among = {},
         Completed' /\ scan.executing /\ ~returned.disturbed =>
            returned.among \subseteq ToSet(returned.entries)
  PROVE  Follows'
<1>1. PICK ns, s, r : /\ ns = nodes /\ ns = nodes' /\ s = scan /\ s = scan'
                      /\ r = returned /\ r = returned'
  OBVIOUS
<1>2. call'.at # "seek"
  OBVIOUS
<1>3. ASSUME s.executing, ~r.disturbed
      PROVE  \E d : /\ Halfway(ns, d, s, s.page, s.next, r.entries, r.among)
                    /\ Started(ns, d, s, s.page, s.next)
  BY <1>1, <1>3 DEF Follows
<1>4. ASSUME s.executing, ~r.disturbed
      PROVE  \E d : /\ Halfway(nodes', d, scan', scan'.page, scan'.next, returned'.entries,
                               returned'.among)
                    /\ Started(nodes', d, scan', scan'.page, scan'.next)
  BY <1>1, <1>3, <1>4
<1> QED  BY <1>1, <1>2, <1>4 DEF Follows

LEMMA StartKeepsFollows ==
  ASSUME IInv, ChainOK, Orderly, Filled, Stocked, Follows, outcome'.res # "BufferExceeded",
         NEW a \in ScanArgs, StartScan(NewScan(a))
  PROVE  Follows'
<1>1. PICK s : s = NewScan(a)
  OBVIOUS
<1>2. s \in Scans /\ s.executing /\ s.next = 0 /\ s.low \in Int /\ s.high \in Int
  <2>1. s \in Scans /\ s.executing
    BY <1>1, ScanNew
  <2> QED  BY <1>1, <2>1, ScanFields, NewScanAt
<1>3. call.at = "idle" /\ nodes' = nodes
  BY DEF StartScan, Idle
<1>4. CASE UNCHANGED <<scan, returned>> /\ Ended("startScan", "BadOpcodes")
  BY <1>3, <1>4, FollowsOn, AtRestIs DEF Ended, NotFound, Completed
<1>5. CASE UNCHANGED <<scan, returned>> /\ Ended("startScan", "NoSuchKeyFound") /\ leafOccupancy = 0
  <2>1. returned.among = {}
    BY <1>5 DEF Stocked
  <2> QED  BY <1>3, <1>5, <2>1, FollowsOn, AtRestIs DEF Ended, Completed
<1>6. CASE scan' = NoScan /\ returned' = NothingReturned /\ call' = AtRest
  <2>1. call'.at # "seek" /\ ~scan'.executing /\ returned'.among = {}
    BY <1>6, AtRestIs, NoScanIs, NothingIs
  <2> QED  BY <2>1, FollowsNone
<1>7. CASE /\ s.lowOp \in {"GTE", "GT"} /\ s.highOp \in {"LTE", "LT"}
           /\ scan' = [s EXCEPT !.page = LeafFor(s.low), !.ready = TRUE]
           /\ returned' = [NothingReturned EXCEPT !.among = {e \in stored : InRange(s, e[1])}]
           /\ call' = [at |-> "seek"]
  <2>1. PICK q : q = LeafFor(s.low)
    OBVIOUS
  <2>2. PICK d : /\ Sorted(nodes, d) /\ q \in Leaves(nodes)
                 /\ \A p \in Leaves(nodes) : d[p] > d[q] =>
                       \A e \in EntriesIn(nodes, p) : e[1] < s.low
    <3>1. call.at \notin {"parent", "newRoot"}
      BY <1>3
    <3> QED  BY <1>2, <2>1, <3>1, SortedAtRest
  <2>3. RangeOps(s)
    BY <1>2, <1>7 DEF RangeOps
  <2>4. PICK got, among : got = returned'.entries /\ among = returned'.among
    OBVIOUS
  <2>5. PICK T : T = {e \in stored : InRange(s, e[1])}
    OBVIOUS
  <2>6. /\ got \in Seq(Entry) /\ Len(got) = 0 /\ among = T /\ ~returned'.disturbed
    BY <1>7, <2>4, <2>5, NothingIs, ReturnedWith
  <2>7. T = Found(nodes, s)
    <3>1. tried = stored /\ stored \subseteq Entry
      BY <1>3 DEF Stocked, IInv, CountsOK
    <3>2. \A e \in Entry : Has(nodes, e) <=> e \in stored
      BY <3>1 DEF ChainOK, Apart, Has
    <3> QED  BY <2>5, <3>1, <3>2 DEF Found
  <2>8. Halfway(nodes, d, s, q, 0, got, among)
    BY <2>2, <2>3, <2>6, <2>7, Begins
  <2>9. PICK t : t = scan' /\ t = [s EXCEPT !.page = q, !.ready = TRUE]
    BY <1>7, <2>1
  <2>10. SameRange(s, t) /\ t.page = q /\ t.next = 0 /\ t.executing
    <3>1. q \in Nat
      BY <2>2 DEF Leaves
    <3>2. PICK u : u = [s EXCEPT !.page = q, !.ready = TRUE]
      OBVIOUS
    <3>3. SameRange(s, u) /\ u.page = q /\ u.next = s.next /\ (s.executing => u.executing)
      BY <1>2, <3>1, <3>2, BegunAt
    <3> QED  BY <1>2, <2>9, <3>2, <3>3
  <2>11. Halfway(nodes, d, t, q, 0, got, among)
    BY <2>8, <2>10, SameScan
  <2>12. PICK ns, z : ns = nodes' /\ ns = nodes /\ z = 0
    BY <1>3
  <2>13. /\ Halfway(ns, d, t, q, z, got, among) /\ q = t.page /\ z = t.next
         /\ t.executing /\ ~returned'.disturbed /\ ToSet(got) = {} /\ z = 0
    BY <2>6, <2>10, <2>11, <2>12 DEF ToSet
  <2>14. call'.at = "seek"
    BY <1>7
  <2> QED  BY <2>4, <2>9, <2>12, <2>13, <2>14, FollowsBy
<1>8. Ended("startScan", "BufferExceeded") => FALSE
  BY DEF Ended
<1> QED  BY <1>1, <1>4, <1>5, <1>6, <1>7, <1>8 DEF StartScan, Ended

(* The scan of the code after the step, and the range it keeps. *)
MovedTo(s, t, q, i) ==
    \/ q = s.page /\ t = [s EXCEPT !.next = i]
    \/ t = [s EXCEPT !.page = q, !.next = i]

LEMMA ScanMoves ==
  ASSUME NEW s \in Scans, NEW ns, NEW d, NEW q \in Nat, NEW i \in Nat, NEW got, NEW among,
         Halfway(ns, d, s, q, i, got, among), NEW t, MovedTo(s, t, q, i)
  PROVE  /\ Halfway(ns, d, t, q, i, got, among)
         /\ Started(ns, d, s, q, i) => Started(ns, d, t, q, i)
         /\ t.page = q /\ t.next = i /\ (s.executing => t.executing)
<1>1. SameRange(s, t) /\ t.page = q /\ t.next = i /\ (s.executing => t.executing)
  <2>1. CASE q = s.page /\ t = [s EXCEPT !.next = i]
    <3>1. PICK u : u = [s EXCEPT !.next = i]
      OBVIOUS
    <3>2. SameRange(s, u) /\ u.page = s.page /\ u.next = i /\ (s.executing => u.executing)
      BY <3>1 DEF Scans, SameRange
    <3> QED  BY <2>1, <3>1, <3>2
  <2>2. CASE t = [s EXCEPT !.page = q, !.next = i]
    <3>1. PICK u : u = [s EXCEPT !.page = q, !.next = i]
      OBVIOUS
    <3>2. SameRange(s, u) /\ u.page = q /\ u.next = i /\ (s.executing => u.executing)
      BY <3>1 DEF Scans, SameRange
    <3> QED  BY <2>2, <3>1, <3>2
  <2> QED  BY <2>1, <2>2 DEF MovedTo
<1> QED  BY <1>1, SameScan

LEMMA SeekKeepsFollows ==
  ASSUME IInv, Follows, outcome'.res # "BufferExceeded", SeekFirst
  PROVE  Follows'
<1>1. /\ call.at = "seek" /\ nodes' = nodes /\ returned' = returned
  BY DEF SeekFirst, historyVars
<1>2. PICK s, ns, p, got, among :
         s = scan /\ ns = nodes /\ p = s.page /\ got = returned.entries /\ among = returned.among
  OBVIOUS
<1>3. s.executing /\ ~returned.disturbed /\ ToSet(got) = {} /\ s.next = 0
  BY <1>1, <1>2 DEF Follows
<1>4. PICK d : Halfway(ns, d, s, p, 0, got, among)
  <2>1. \E d : Halfway(ns, d, s, p, s.next, got, among)
    BY <1>1, <1>2, <1>3 DEF Follows
  <2> QED  BY <1>3, <2>1
<1>5. /\ s \in Scans /\ p \in Nat /\ p \in Leaves(ns)
      /\ ns[p].entries \in Seq(Entry) /\ Len(ns[p].entries) \in Nat
  <2>1. s \in Scans
    BY <1>2 DEF IInv, ScanOK
  <2>2. p \in Leaves(ns) /\ ns[p].entries \in Seq(Entry)
    BY <1>4 DEF Halfway, Sorted
  <2> QED  BY <2>1, <2>2 DEF Leaves
<1>6. PICK entries, n, q : /\ entries = ns[p].entries /\ n = Len(entries) /\ n \in Nat
                           /\ q = ns[p].right /\ DOMAIN entries = 1 .. n
  <2>1. PICK entries : entries = ns[p].entries
    OBVIOUS
  <2>2. DOMAIN entries = 1 .. Len(entries) /\ Len(entries) \in Nat
    BY <1>5, <2>1
  <2> QED  BY <2>1, <2>2
<1>7. PICK Deciding : Deciding = {i \in DOMAIN entries :
                                     PastHigh(s, entries[i][1]) \/ AboveLow(s, entries[i][1])}
  OBVIOUS
<1>8. ASSUME NEW i \in Deciding, \A j \in Deciding : i <= j,
             scan' = [scan EXCEPT !.next = i - 1],
             Ended("startScan", IF PastHigh(s, entries[i][1]) THEN "NoSuchKeyFound" ELSE "ok")
      PROVE  Follows'
  <2>1. i \in 1 .. n /\ (PastHigh(s, entries[i][1]) \/ AboveLow(s, entries[i][1]))
    BY <1>6, <1>7
  <2>2. PICK m : m = i - 1 /\ m \in Nat /\ m < n /\ m <= n /\ m + 1 = i
    BY <1>6, <2>1
  <2>3. \A j \in 1 .. m : ~AboveLow(s, entries[j][1])
    <3> SUFFICES ASSUME NEW j \in 1 .. m PROVE ~AboveLow(s, entries[j][1])
      OBVIOUS
    <3>1. j \in 1 .. n /\ ~(i <= j)
      BY <1>6, <2>2
    <3> QED  BY <1>6, <1>7, <1>8, <3>1
  <2>4. /\ Halfway(ns, d, s, p, m, got, among)
        /\ AboveLow(s, entries[m + 1][1]) \/ PastHigh(s, entries[m + 1][1])
              => Started(ns, d, s, p, m)
    BY <1>4, <1>6, <2>2, <2>3, Seeks
  <2>5. Started(ns, d, s, p, m)
    BY <2>1, <2>2, <2>4
  <2>6. PastHigh(s, entries[i][1]) => among = {}
    <3>1. PastHigh(s, ns[p].entries[m + 1][1]) => among \subseteq ToSet(got)
      BY <1>6, <2>2, <2>4, ComesToEnd
    <3> QED  BY <1>3, <1>6, <2>2, <3>1
  <2>7. PICK t : t = scan' /\ MovedTo(s, t, p, m)
    BY <1>2, <1>8, <2>2 DEF MovedTo
  <2>8. /\ Halfway(ns, d, t, p, m, got, among) /\ t.page = p /\ t.next = m
        /\ Started(ns, d, t, p, m)
    BY <1>5, <2>2, <2>4, <2>5, <2>7, ScanMoves
  <2>9. call'.at = "idle" /\ (NotFound' => among = {}) /\ ~Completed'
    BY <1>8, <2>6, AtRestIs DEF Ended, NotFound, Completed
  <2>10. ns = nodes' /\ got = returned'.entries /\ among = returned'.among
    BY <1>1, <1>2
  <2> QED  BY <2>7, <2>8, <2>9, <2>10, FollowsBy
<1>9. ASSUME Deciding = {}
      PROVE  Halfway(ns, d, s, p, n, got, among)
  <2>1. \A j \in 1 .. n : ~AboveLow(s, entries[j][1])
    BY <1>6, <1>7, <1>9
  <2>2. n <= Len(ns[p].entries)
    BY <1>6
  <2> QED  BY <1>4, <1>6, <2>1, <2>2, Seeks
<1>10. CASE /\ Deciding = {} /\ q = NoPage
            /\ scan' = [scan EXCEPT !.next = Len(entries)]
            /\ Ended("startScan", "NoSuchKeyFound")
  <2>1. Halfway(ns, d, s, p, n, got, among)
    BY <1>9, <1>10
  <2>2. among \subseteq ToSet(got) /\ Started(ns, d, s, p, n)
    <3>1. n >= Len(ns[p].entries) /\ ns[p].right = NoPage
      BY <1>6, <1>10
    <3> QED  BY <2>1, <3>1, Hops
  <2>3. PICK t : t = scan' /\ MovedTo(s, t, p, n) /\ n \in Nat
    BY <1>2, <1>6, <1>10 DEF MovedTo
  <2>4. /\ Halfway(ns, d, t, p, n, got, among) /\ t.page = p /\ t.next = n
        /\ Started(ns, d, t, p, n)
    <3>1. Started(ns, d, s, p, n) /\ s \in Scans /\ p \in Nat
      BY <1>5, <2>2
    <3> QED  BY <2>1, <2>3, <3>1, ScanMoves
  <2>5. call'.at = "idle" /\ among = {} /\ ~Completed'
    BY <1>3, <1>10, <2>2, AtRestIs DEF Ended, Completed
  <2>6. ns = nodes' /\ got = returned'.entries /\ among = returned'.among
    BY <1>1, <1>2
  <2> QED  BY <2>3, <2>4, <2>5, <2>6, FollowsBy
<1>11. CASE /\ Deciding = {} /\ q # NoPage /\ MovesTo(q)
            /\ IF scan'.ready THEN UNCHANGED <<call, outcome>>
               ELSE Ended("startScan", "BufferExceeded")
  <2>1. Halfway(ns, d, s, p, n, got, among)
    BY <1>9, <1>11
  <2>2. Halfway(ns, d, s, q, 0, got, among)
    <3>1. n >= Len(ns[p].entries) /\ ns[p].right # NoPage
      BY <1>6, <1>11
    <3>2. Halfway(ns, d, s, ns[p].right, 0, got, among)
      BY <2>1, <3>1, Hops
    <3> QED  BY <1>6, <3>2
  <2>3. q \in Nat
    BY <2>2 DEF Halfway, Leaves
  <2>4. scan'.ready /\ call'.at = "seek"
    BY <1>1, <1>11 DEF Ended
  <2>5. scan' = [s EXCEPT !.page = q, !.next = 0]
    <3>1. ~[s EXCEPT !.page = q, !.ready = FALSE].ready
      BY <1>5, <2>3 DEF Scans
    <3> QED  BY <1>2, <1>11, <2>4, <3>1 DEF MovesTo
  <2>6. PICK t, z : z = 0 /\ z \in Nat /\ t = scan' /\ MovedTo(s, t, q, z)
    BY <2>5 DEF MovedTo
  <2>7. Halfway(ns, d, t, q, z, got, among) /\ t.page = q /\ t.next = z /\ t.executing
    <3>1. Halfway(ns, d, s, q, z, got, among)
      BY <2>2, <2>6
    <3> QED  BY <1>3, <1>5, <2>3, <2>6, <3>1, ScanMoves
  <2>8. /\ ns = nodes' /\ got = returned'.entries /\ among = returned'.among
        /\ ~returned'.disturbed /\ ToSet(got) = {} /\ z = 0
    BY <1>1, <1>2, <1>3, <2>6
  <2> QED  BY <2>4, <2>6, <2>7, <2>8, FollowsBy
<1>12. SeekFirst => \/ \E i \in Deciding :
                          /\ \A j \in Deciding : i <= j
                          /\ scan' = [scan EXCEPT !.next = i - 1]
                          /\ Ended("startScan", IF PastHigh(s, entries[i][1])
                                                THEN "NoSuchKeyFound" ELSE "ok")
                    \/ /\ Deciding = {} /\ q = NoPage
                       /\ scan' = [scan EXCEPT !.next = Len(entries)]
                       /\ Ended("startScan", "NoSuchKeyFound")
                    \/ /\ Deciding = {} /\ q # NoPage /\ MovesTo(q)
                       /\ IF scan'.ready THEN UNCHANGED <<call, outcome>>
                          ELSE Ended("startScan", "BufferExceeded")
  BY <1>2, <1>6, <1>7 DEF SeekFirst
<1> QED  BY <1>8, <1>10, <1>11, <1>12

LEMMA YieldsFollows ==
  ASSUME NEW s, s = scan, s \in Scans, NEW ns, ns = nodes, nodes' = nodes,
         NEW r, r = returned, DOMAIN r = {"entries", "among", "disturbed"},
         NEW d, NEW p \in Nat, NEW i \in Nat,
         Halfway(ns, d, s, p, i, r.entries, r.among), Started(ns, d, s, p, i),
         i < Len(ns[p].entries), Yields(p, i)
  PROVE  Follows'
<1>1. PICK got, among, e, t : /\ got = r.entries /\ among = r.among /\ e = ns[p].entries[i + 1]
                              /\ t = scan'
  OBVIOUS
<1>2. Halfway(ns, d, s, p, i, got, among) /\ Started(ns, d, s, p, i)
  BY <1>1
<1>3. ns = nodes' /\ call'.at = "idle" /\ ~NotFound'
  <2>1. outcome'.op = "scanNext" /\ call'.at = "idle"
    BY AtRestIs DEF Yields, Ended
  <2> QED  BY <2>1 DEF NotFound
<1>4. CASE PastHigh(s, e[1])
  <2>1. among \subseteq ToSet(got)
    <3>1. PastHigh(s, ns[p].entries[i + 1][1])
      BY <1>1, <1>4
    <3> QED  BY <1>2, <3>1, ComesToEnd
  <2>2. MovedTo(s, t, p, i) /\ returned' = r
    BY <1>1, <1>4 DEF Yields, MovedTo
  <2>3. /\ Halfway(ns, d, t, p, i, got, among) /\ t.page = p /\ t.next = i
        /\ Started(ns, d, t, p, i)
    BY <1>2, <2>2, ScanMoves
  <2>4. got = returned'.entries /\ among = returned'.among
    BY <1>1, <2>2
  <2> QED  BY <1>1, <1>3, <2>1, <2>3, <2>4, FollowsBy
<1>5. CASE ~PastHigh(s, e[1])
  <2>0. i + 1 \in Nat
    OBVIOUS
  <2>1. PICK all, m : all = Append(got, e) /\ m = i + 1 /\ m \in Nat
    BY <2>0
  <2>2. Halfway(ns, d, s, p, m, all, among) /\ Started(ns, d, s, p, m)
    <3>1. ~PastHigh(s, ns[p].entries[i + 1][1])
      BY <1>1, <1>5
    <3>2. /\ Halfway(ns, d, s, p, i + 1, Append(got, ns[p].entries[i + 1]), among)
          /\ Started(ns, d, s, p, i + 1)
      BY <1>2, <3>1, Takes
    <3> QED  BY <1>1, <2>1, <3>2
  <2>3. /\ MovedTo(s, t, p, m) /\ returned' = [r EXCEPT !.entries = all]
        /\ ~Completed'
    <3>1. /\ scan' = [scan EXCEPT !.page = p, !.next = i + 1]
          /\ returned' = [returned EXCEPT !.entries = Append(returned.entries, e)]
          /\ outcome'.res = "ok"
      BY <1>1, <1>5 DEF Yields, Ended
    <3> QED  BY <1>1, <2>1, <3>1 DEF MovedTo, Completed
  <2>4. /\ Halfway(ns, d, t, p, m, all, among) /\ t.page = p /\ t.next = m
        /\ Started(ns, d, t, p, m)
    <3>1. m \in Nat
      BY <2>1
    <3> QED  BY <2>2, <2>3, <3>1, ScanMoves
  <2>5. all = returned'.entries /\ among = returned'.among
    BY <1>1, <2>3, ReturnedWith
  <2> QED  BY <1>1, <1>3, <2>3, <2>4, <2>5, FollowsBy
<1> QED  BY <1>4, <1>5

LEMMA NextEntryKeepsFollows ==
  ASSUME IInv, Stocked, Follows, outcome'.res # "BufferExceeded", ScanNext
  PROVE  Follows'
<1>1. /\ call.at = "idle" /\ nodes' = nodes /\ call'.at = "idle" /\ outcome'.op = "scanNext"
  BY AtRestIs DEF ScanNext, Idle, Yields, Ended
<1>2. ~NotFound'
  BY <1>1 DEF NotFound
<1>3. CASE ~scan.executing
  <2>1. UNCHANGED <<scan, returned>>
    BY <1>3 DEF ScanNext
  <2> QED  BY <1>1, <1>2, <1>3, <2>1, FollowsOn
<1>4. CASE returned.disturbed
  <2>1. returned' = returned \/ \E es : returned' = [returned EXCEPT !.entries = es]
    BY DEF ScanNext, Yields
  <2>2. returned'.disturbed
    BY <1>4, <2>1, ReturnedWith DEF Stocked
  <2> QED  BY <1>1, <1>2, <2>2, FollowsNone
<1>5. CASE scan.executing /\ ~returned.disturbed
  <2>1. PICK s, ns, r, p, i : /\ s = scan /\ ns = nodes /\ r = returned /\ p = s.page
                              /\ i = s.next
    OBVIOUS
  <2>2. PICK d : Halfway(ns, d, s, p, i, r.entries, r.among) /\ Started(ns, d, s, p, i)
    BY <1>1, <1>5, <2>1 DEF Follows
  <2>3. /\ s \in Scans /\ p \in Nat /\ i \in Nat
        /\ DOMAIN r = {"entries", "among", "disturbed"}
    <3>1. s \in Scans
      BY <2>1 DEF IInv, ScanOK
    <3> QED  BY <2>1, <3>1, ScanFields DEF Stocked
  <2>4. PICK n, q : n = Len(ns[p].entries) /\ n \in Nat /\ q = ns[p].right
    <3>1. p \in Leaves(ns) /\ ns[p].entries \in Seq(Entry)
      BY <2>2 DEF Halfway, Sorted
    <3>2. Len(ns[p].entries) \in Nat
      BY <3>1
    <3> QED  BY <3>2
  <2>5. CASE i < n /\ Yields(p, i)
    <3>1. i < Len(ns[p].entries)
      BY <2>4, <2>5
    <3> QED  BY <1>1, <2>1, <2>2, <2>3, <2>5, <3>1, YieldsFollows
  <2>6. CASE i >= n /\ q = NoPage /\ UNCHANGED <<scan, returned>>
    <3>1. i >= Len(ns[p].entries) /\ ns[p].right = NoPage
      BY <2>4, <2>6
    <3>2. r.among \subseteq ToSet(r.entries)
      BY <2>2, <3>1, Hops
    <3>3. UNCHANGED <<nodes, scan, returned>> /\ returned.among \subseteq ToSet(returned.entries)
      BY <1>1, <2>1, <2>6, <3>2
    <3> QED  BY <1>1, <1>2, <3>3, FollowsOn
  <2>7. CASE i >= n /\ q # NoPage /\ Yields(q, 0)
    <3>1. i >= Len(ns[p].entries) /\ ns[p].right # NoPage
      BY <2>4, <2>7
    <3>2. PICK got, among : got = r.entries /\ among = r.among
      OBVIOUS
    <3>3. Halfway(ns, d, s, p, i, got, among)
      BY <2>2, <3>2
    <3>4. /\ Halfway(ns, d, s, ns[p].right, 0, got, among)
          /\ Len(ns[ns[p].right].entries) >= 1
          /\ Started(ns, d, s, p, i) => Started(ns, d, s, ns[p].right, 0)
      BY <3>1, <3>3, Hops
    <3>5. PICK z : z = 0 /\ z \in Nat /\ Yields(q, z)
      BY <2>7
    <3>6. /\ Halfway(ns, d, s, q, z, r.entries, r.among) /\ Started(ns, d, s, q, z)
          /\ Len(ns[q].entries) >= 1
      BY <2>2, <2>4, <3>2, <3>4, <3>5
    <3>7. q \in Nat /\ z < Len(ns[q].entries)
      <4>1. q \in Leaves(ns) /\ ns[q].entries \in Seq(Entry)
        BY <3>6 DEF Halfway, Sorted
      <4>2. q \in Nat /\ Len(ns[q].entries) \in Nat
        BY <4>1 DEF Leaves
      <4> QED  BY <3>5, <3>6, <4>2
    <3> QED  BY <1>1, <2>1, <2>3, <3>5, <3>6, <3>7, YieldsFollows
  <2> QED  BY <1>5, <2>1, <2>4, <2>5, <2>6, <2>7 DEF ScanNext, Ended
<1> QED  BY <1>3, <1>4, <1>5

(* What the steps of insertEntry do to a scan. *)
Inserting ==
    /\ scan' = scan /\ call.at # "seek" /\ call'.at # "seek"
    /\ outcome' = outcome \/ outcome'.op = "insertEntry"
    /\ \/ returned' = [returned EXCEPT !.disturbed = scan.executing]
       \/ returned' = returned /\ call.at \in {"parent", "newRoot"}

LEMMA GoneUp ==
  ASSUME NEW ns, NEW c, NEW k, NEW q, NEW depth, NEW e, GoUp(ns, c, k, q, depth, e)
  PROVE  call'.at # "seek" /\ (outcome' = outcome \/ outcome'.op = "insertEntry")
BY DEF GoUp

LEMMA EndedAt ==
  ASSUME NEW op, NEW res, Ended(op, res)
  PROVE  call'.at = "idle" /\ outcome'.op = op /\ outcome'.res = res
BY AtRestIs DEF Ended

LEMMA InsertionIs ==
  ASSUME \/ \E e \in Entry : InsertEntry(e)
         \/ EnterIntoParent
         \/ MakeNewRoot
  PROVE  Inserting
<1>1. ASSUME NEW e \in Entry, InsertEntry(e) PROVE Inserting
  <2>1. /\ call.at = "idle" /\ scan' = scan
        /\ returned' = [returned EXCEPT !.disturbed = scan.executing]
    BY <1>1 DEF InsertEntry, Idle, Disturbs
  <2>2. \/ \E res : Ended("insertEntry", res)
        \/ \E ns, c, k, q, depth : GoUp(ns, c, k, q, depth, e)
    BY <1>1 DEF InsertEntry
  <2>3. call'.at # "seek" /\ (outcome' = outcome \/ outcome'.op = "insertEntry")
    BY <2>2, GoneUp, EndedAt
  <2> QED  BY <2>1, <2>3 DEF Inserting
<1>2. CASE EnterIntoParent
  <2>1. call.at = "parent" /\ scan' = scan /\ returned' = returned
    BY <1>2 DEF EnterIntoParent
  <2>2. \/ \E res : Ended("insertEntry", res)
        \/ \E ns, c, k, q, depth, e : GoUp(ns, c, k, q, depth, e)
    BY <1>2 DEF EnterIntoParent
  <2>3. call'.at # "seek" /\ (outcome' = outcome \/ outcome'.op = "insertEntry")
    BY <2>2, GoneUp, EndedAt
  <2> QED  BY <2>1, <2>3 DEF Inserting
<1>3. CASE MakeNewRoot
  <2>1. /\ call.at = "newRoot" /\ scan' = scan /\ returned' = returned
        /\ \E res : Ended("insertEntry", res)
    BY <1>3 DEF MakeNewRoot
  <2>2. call'.at # "seek" /\ outcome'.op = "insertEntry"
    BY <2>1, EndedAt
  <2> QED  BY <2>1, <2>2 DEF Inserting
<1> QED  BY <1>1, <1>2, <1>3

LEMMA InsertionFollows ==
  ASSUME Stocked, Follows, Inserting
  PROVE  Follows'
<1>1. scan' = scan /\ call.at # "seek"
  BY DEF Inserting
<1>2. outcome' = outcome \/ outcome'.op = "insertEntry"
  BY DEF Inserting
<1>3. call'.at # "seek"
  BY DEF Inserting
<1>4. \/ returned' = [returned EXCEPT !.disturbed = scan.executing]
      \/ returned' = returned /\ call.at \in {"parent", "newRoot"}
  BY DEF Inserting
<1>5. returned'.among = returned.among /\ (~scan'.executing \/ returned'.disturbed)
  <2>1. CASE returned' = [returned EXCEPT !.disturbed = scan.executing]
    <3>1. PICK x : x = scan.executing
      OBVIOUS
    <3>2. returned'.among = returned.among /\ returned'.disturbed = x
      BY <2>1, <3>1, ReturnedWith DEF Stocked
    <3> QED  BY <1>1, <3>1, <3>2
  <2>2. CASE returned' = returned /\ call.at \in {"parent", "newRoot"}
    <3>1. ~(call.at \in {"idle", "seek", "dead"})
      BY <2>2
    <3>2. ~scan.executing \/ returned.disturbed
      BY <3>1 DEF Follows
    <3> QED  BY <1>1, <2>2, <3>2
  <2> QED  BY <1>4, <2>1, <2>2
<1>6. NotFound' => returned'.among = {}
  <2>1. NotFound' => NotFound
    BY <1>2 DEF NotFound
  <2> QED  BY <1>1, <1>5, <2>1 DEF Follows
<1> QED  BY <1>3, <1>5, <1>6, FollowsNone

LEMMA NextKeepsFollows ==
  ASSUME IInv, ChainOK, Orderly, Filled, Stocked, Follows, outcome'.res # "BufferExceeded",
         [Next]_vars
  PROVE  Follows'
<1>1. CASE UNCHANGED vars
  BY <1>1 DEF Follows, NotFound, Completed, vars, treeVars, historyVars
<1>2. CASE (\E e \in Entry : InsertEntry(e)) \/ EnterIntoParent \/ MakeNewRoot
  BY <1>2, InsertionIs, InsertionFollows
<1>3. ASSUME NEW a \in ScanArgs, StartScan(NewScan(a)) PROVE Follows'
  BY <1>3, StartKeepsFollows
<1>4. CASE SeekFirst
  BY <1>4, SeekKeepsFollows
<1>5. CASE ScanNext
  BY <1>5, NextEntryKeepsFollows
<1>6. CASE EndScan \/ Reopen
  <2>1. /\ call.at = "idle" /\ nodes' = nodes /\ call'.at \in {"idle", "dead"}
        /\ outcome'.op \in {"endScan", "BTreeIndex", "~BTreeIndex"}
    BY <1>6, AtRestIs DEF EndScan, Reopen, Ended, Idle
  <2>2. ~NotFound' /\ ~Completed'
    BY <2>1 DEF NotFound, Completed
  <2>3. scan' = NoScan \/ UNCHANGED <<scan, returned>>
    BY <1>6 DEF EndScan, Reopen
  <2>4. CASE scan' = NoScan
    <3>1. ~scan'.executing /\ call'.at # "seek"
      BY <2>1, <2>4, NoScanIs
    <3> QED  BY <2>2, <3>1, FollowsNone
  <2>5. CASE UNCHANGED <<scan, returned>>
    BY <2>1, <2>2, <2>5, FollowsOn
  <2> QED  BY <2>3, <2>4, <2>5
<1> QED  BY <1>1, <1>2, <1>3, <1>4, <1>5, <1>6 DEF Next

(* What the scan returned is in ascending order, and what it did not       *)
(* return is above it.                                                     *)
LEMMA FollowsScan == Follows => ScanComplete /\ NoSuchKeyTrue
<1> SUFFICES ASSUME Follows PROVE ScanComplete /\ NoSuchKeyTrue
  OBVIOUS
<1>1. NoSuchKeyTrue
  BY DEF Follows, NoSuchKeyTrue, Idle, NotFound
<1>2. ASSUME Idle, scan.executing, ~returned.disturbed,
             NEW got, got = returned.entries, NEW among, among = returned.among
      PROVE  /\ ToSet(got) \subseteq among
             /\ IsInjective(got)
             /\ \A i \in DOMAIN got : \A a \in among :
                   a[1] < got[i][1] => a \in ToSet(SubSeq(got, 1, i - 1))
             /\ Completed => ToSet(got) = among
  <2>1. PICK d : Halfway(nodes, d, scan, scan.page, scan.next, got, among)
    BY <1>2 DEF Follows, Idle
  <2>2. PICK ahead : ahead = Ahead(nodes, d, scan.page, scan.next)
    OBVIOUS
  <2>3. /\ got \in Seq(Entry) /\ Rising(got) /\ ToSet(got) \subseteq among
        /\ among \subseteq ToSet(got) \cup ahead
        /\ \A f \in ToSet(got), e \in ahead : f[1] < e[1]
        /\ \A e \in ahead : e[1] \in Int
    <3>1. \A e \in ahead : e[1] \in Int
      BY <2>1, <2>2, AheadIsThere DEF Halfway
    <3> QED  BY <2>1, <2>2, <3>1 DEF Halfway
  <2>4. PICK n : n = Len(got) /\ n \in Nat /\ DOMAIN got = 1 .. n
    BY <2>3
  <2>5. \A i \in 1 .. n : got[i] \in Entry /\ got[i][1] \in Int
    BY <2>3, <2>4, EntryAssumption
  <2>6. IsInjective(got)
    <3> SUFFICES ASSUME NEW i \in 1 .. n, NEW j \in 1 .. n, got[i] = got[j] PROVE i = j
      BY <2>4 DEF IsInjective
    <3>1. ~(i < j) /\ ~(j < i)
      BY <2>3, <2>4, <2>5 DEF Rising
    <3> QED  BY <2>4, <3>1
  <2>7. ASSUME NEW i \in 1 .. n, NEW a \in among, a[1] < got[i][1]
        PROVE  a \in ToSet(SubSeq(got, 1, i - 1))
    <3>1. got[i] \in ToSet(got)
      BY <2>3, <2>4, SetOf
    <3>2. a \notin ahead
      <4> SUFFICES ASSUME a \in ahead PROVE FALSE
        OBVIOUS
      <4>1. got[i][1] < a[1] /\ a[1] \in Int /\ got[i][1] \in Int
        BY <2>3, <2>5, <3>1
      <4> QED  BY <2>7, <4>1
    <3>3. PICK j \in 1 .. n : a = got[j]
      BY <2>3, <2>4, <3>2, SetOf
    <3>4. j < i
      <4>1. i < j => got[i][1] < got[j][1]
        BY <2>3, <2>4 DEF Rising
      <4>2. got[i][1] \in Int /\ got[j][1] \in Int /\ got[j][1] < got[i][1]
        BY <2>5, <2>7, <3>3
      <4>3. i # j /\ ~(i < j)
        BY <4>1, <4>2
      <4> QED  BY <2>4, <4>3
    <3>5. PICK m, part : m = i - 1 /\ part = SubSeq(got, 1, m)
      OBVIOUS
    <3>6. m \in 0 .. n /\ j \in 1 .. m
      BY <2>4, <3>4, <3>5
    <3>7. part \in Seq(Entry) /\ Len(part) = m /\ part[j] = got[j]
      BY <2>3, <2>4, <3>5, <3>6
    <3>8. a \in ToSet(part)
      BY <3>3, <3>6, <3>7, SetOf
    <3> QED  BY <3>5, <3>8
  <2>8. Completed => among \subseteq ToSet(got)
    BY <1>2 DEF Follows, Idle
  <2> QED  BY <2>3, <2>4, <2>6, <2>7, <2>8
<1>3. ScanComplete
  BY <1>2 DEF ScanComplete, Completed
<1> QED  BY <1>1, <1>3

-----------------------------------------------------------------------------
(* A scan that is begun comes to all of its range. *)

Scanned == Filled /\ Stocked /\ Follows

LEMMA NextKeepsScanned ==
  /\ IInv /\ ChainOK /\ Orderly /\ NeverExceeded' /\ Scanned /\ [Next]_vars
  => Scanned'
BY NextKeepsFilled, NextKeepsStocked, NextKeepsFollows DEF Scanned, NeverExceeded

(* With different keys and frames enough, as long as no full non-leaf node *)
(* is entered left of the key that moves up, a scan is at every moment     *)
(* halfway through the entries in its range.                               *)
THEOREM ScanInvariance ==
  ASSUME KeysDiffer, NumBufs >= CallerPins + 4
  PROVE  Spec /\ []SplitsRight => []Scanned
<1>1. Spec => []IInv
  BY Invariance
<1>2. Spec => []ChainOK
  BY ChainInvariance
<1>3. Spec => []NeverExceeded
  BY FramesSuffice
<1>4. Spec /\ []SplitsRight => []Orderly
  BY OrderInvariance
<1>5. Init => Scanned
  BY InitFilled, InitStocked, InitFollows DEF Scanned
<1> QED  BY <1>1, <1>2, <1>3, <1>4, <1>5, NextKeepsScanned, PTL DEF Spec

(* Under these conditions a scan during which nothing is inserted returns  *)
(* every entry in its range once, in the order of the keys, and scanNext   *)
(* says that it is completed after the last of them.                       *)
THEOREM ScansAreComplete ==
  ASSUME KeysDiffer, NumBufs >= CallerPins + 4
  PROVE  Spec /\ []SplitsRight => []ScanComplete
<1>1. Spec /\ []SplitsRight => []Scanned
  BY ScanInvariance
<1>2. Scanned => ScanComplete
  BY FollowsScan DEF Scanned
<1> QED  BY <1>1, <1>2, PTL

(* And startScan denies a key only if no entry is in range.                *)
THEOREM NoSuchKeyIsTrue ==
  ASSUME KeysDiffer, NumBufs >= CallerPins + 4
  PROVE  Spec /\ []SplitsRight => []NoSuchKeyTrue
<1>1. Spec /\ []SplitsRight => []Scanned
  BY ScanInvariance
<1>2. Scanned => NoSuchKeyTrue
  BY FollowsScan DEF Scanned
<1> QED  BY <1>1, <1>2, PTL

(* So it is when the keys are inserted in ascending order, whatever splits. *)
THEOREM UpwardsScansAreComplete ==
  ASSUME KeysDiffer, InsertedUpwards, NumBufs >= CallerPins + 4
  PROVE  Spec => [](ScanComplete /\ NoSuchKeyTrue)
<1>1. Spec => [](Orderly /\ SplitsRight)
  BY UpwardsInvariance
<1>2. Spec /\ []SplitsRight => []ScanComplete
  BY ScansAreComplete
<1>3. Spec /\ []SplitsRight => []NoSuchKeyTrue
  BY NoSuchKeyIsTrue
<1> QED  BY <1>1, <1>2, <1>3, PTL
=============================================================================

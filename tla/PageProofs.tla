----------------------------- MODULE PageProofs -----------------------------
(***************************************************************************)
(* Proofs about the slotted page, for pages, slots and records of any      *)
(* size: its types, its layout, its iterator, and that it implements       *)
(* PageRecords.                                                            *)
(***************************************************************************)
EXTENDS Page, FiniteSetTheorems, FunctionTheorems, SequenceTheorems, WellFoundedInduction, TLAPS

(* A set of numbers has a least one. *)
LEMMA LeastNumber ==
    ASSUME NEW T \in SUBSET Nat, T # {}
    PROVE  Least(T) \in T /\ \A k \in T : Least(T) <= k
<1>1. \E m \in T : \A k \in T : ~(<<k, m>> \in OpToRel(<, Nat))
  BY NatLessThanWellFounded, WFMin
<1>2. \A k, m \in Nat : k < m => <<k, m>> \in OpToRel(<, Nat)
  BY DEF OpToRel
<1>3. \E m \in T : \A k \in T : m <= k
  <2>1. PICK m \in T : \A k \in T : ~(k < m)
    BY <1>1, <1>2
  <2>2. m \in Nat /\ \A k \in T : k \in Nat
    OBVIOUS
  <2> QED
    BY <2>1, <2>2
<1> QED
  BY <1>3 DEF Least

(* ... and so has a set of no more than these a greatest one. *)
LEMMA GreatestNumber ==
    ASSUME NEW n \in Nat, NEW T \in SUBSET (1 .. n), T # {}
    PROVE  \E m \in T : \A k \in T : k <= m
<1> DEFINE U == {n - k : k \in T}
<1>1. U \in SUBSET Nat /\ U # {}
  OBVIOUS
<1>2. PICK u \in U : \A v \in U : u <= v
  <2> HIDE DEF U
  <2> QED
    BY <1>1, LeastNumber
<1>3. PICK m \in T : u = n - m
  BY <1>2
<1>4. ASSUME NEW k \in T PROVE k <= m
  <2>1. n - m <= n - k
    BY <1>2, <1>3
  <2>2. m \in Int /\ k \in Int
    OBVIOUS
  <2> QED
    BY <2>1, <2>2
<1> QED
  BY <1>4

LEMMA UpToSize ==
    ASSUME NEW n \in Nat
    PROVE  IsFiniteSet(1 .. n) /\ Cardinality(1 .. n) = n
<1>1. IsFiniteSet(1 .. n) /\ Cardinality(1 .. n) = IF 1 > n THEN 0 ELSE n - 1 + 1
  BY FS_Interval
<1> QED
  BY <1>1

LEMMA BetweenSize ==
    ASSUME NEW m \in Nat, NEW n \in Nat, m <= n
    PROVE  IsFiniteSet(m + 1 .. n) /\ Cardinality(m + 1 .. n) = n - m
<1>1. m + 1 \in Int /\ n \in Int
  OBVIOUS
<1>2. /\ IsFiniteSet(m + 1 .. n)
      /\ Cardinality(m + 1 .. n) = IF m + 1 > n THEN 0 ELSE n - (m + 1) + 1
  BY <1>1, FS_Interval
<1> QED
  BY <1>2

-----------------------------------------------------------------------------
(* Where the slots lie. *)

LEMMA SlotPlaces ==
    /\ \A i \in Nat \ {0} : Start(i) \in Nat
    /\ \A i \in Nat \ {0} : Start(i + 1) = Start(i) + SLOT_SIZE
    /\ \A i, j \in Nat \ {0} : i < j => Start(i) + SLOT_SIZE <= Start(j)
    /\ \A n \in Nat : SLOT_SIZE * n = Start(n + 1)
    /\ Start(1) = 0
<1> USE SizeAssumption DEF Start
<1>1. ASSUME NEW i \in Nat \ {0} PROVE Start(i) \in Nat
  <2>1. i - 1 \in Nat
    OBVIOUS
  <2> QED
    BY <2>1
<1>2. ASSUME NEW i \in Nat \ {0} PROVE Start(i + 1) = Start(i) + SLOT_SIZE
  <2>1. (i + 1 - 1) * SLOT_SIZE = (i - 1) * SLOT_SIZE + SLOT_SIZE
    OBVIOUS
  <2> QED
    BY <2>1
<1>3. ASSUME NEW i \in Nat \ {0}, NEW j \in Nat \ {0}, i < j
      PROVE  Start(i) + SLOT_SIZE <= Start(j)
  <2>1. PICK d \in Nat : j - 1 = i + d
    BY <1>3, j - 1 - i \in Nat
  <2>2. (i + d) * SLOT_SIZE = (i - 1) * SLOT_SIZE + SLOT_SIZE + d * SLOT_SIZE
    OBVIOUS
  <2>3. d * SLOT_SIZE \in Nat
    OBVIOUS
  <2>4. (i - 1) * SLOT_SIZE \in Int /\ (i + d) * SLOT_SIZE \in Int
    OBVIOUS
  <2> QED
    BY <2>1, <2>2, <2>3, <2>4
<1>4. ASSUME NEW n \in Nat PROVE SLOT_SIZE * n = Start(n + 1)
  BY n + 1 - 1 = n
<1> QED
  BY <1>1, <1>2, <1>3, <1>4

LEMMA SlotsTaken ==
    ASSUME NEW n \in Nat, NEW m \in Nat, m <= n
    PROVE  /\ SLOT_SIZE * (n - m) \in Nat
           /\ Start(n + 1) \in Nat /\ Start(m + 1) \in Nat
           /\ Start(m + 1) = Start(n + 1) - SLOT_SIZE * (n - m)
<1> USE SizeAssumption
<1>1. SLOT_SIZE * n = Start(n + 1) /\ SLOT_SIZE * m = Start(m + 1)
  BY SlotPlaces
<1>2. SLOT_SIZE * (n - m) = SLOT_SIZE * n - SLOT_SIZE * m
  OBVIOUS
<1>3. SLOT_SIZE * n \in Nat /\ SLOT_SIZE * m \in Nat /\ SLOT_SIZE * (n - m) \in Nat
  <2>1. n - m \in Nat
    OBVIOUS
  <2> QED
    BY <2>1
<1> QED
  BY <1>1, <1>2, <1>3

LEMMA SlotsWithin ==
    ASSUME NEW n \in Nat, Start(n + 1) <= DATA_SIZE
    PROVE  n <= DATA_SIZE /\ 1 .. n \subseteq SlotId
<1> USE SizeAssumption
<1>1. SLOT_SIZE * n <= DATA_SIZE
  BY SlotPlaces
<1>2. n <= SLOT_SIZE * n
  OBVIOUS
<1>3. n <= DATA_SIZE \div SLOT_SIZE
  BY <1>1
<1>4. DATA_SIZE \div SLOT_SIZE \in Int
  OBVIOUS
<1> QED
  BY <1>1, <1>2, <1>3, <1>4 DEF SlotId

-----------------------------------------------------------------------------
(* The records of the slots in U fill the page from upper on, each cell    *)
(* once; what an empty record has for an offset says nothing.              *)

PageSlot == [item_offset : 0 .. DATA_SIZE, item_length : 0 .. DATA_SIZE]

LeftOf(s, t) == s.item_offset + s.item_length <= t.item_offset
Covers(s, c) == s.item_offset <= c /\ c < s.item_offset + s.item_length

Tiling(U, S, upper) ==
    /\ upper \in 0 .. DATA_SIZE
    /\ \A i \in U : S[i] \in PageSlot /\ S[i].item_offset + S[i].item_length <= DATA_SIZE
    /\ \A i \in U : S[i].item_length # 0 => upper <= S[i].item_offset
    /\ \A i, j \in U :
          i # j /\ S[i].item_length # 0 /\ S[j].item_length # 0 =>
              LeftOf(S[i], S[j]) \/ LeftOf(S[j], S[i])
    /\ \A c \in upper .. DATA_SIZE - 1 : \E i \in U : Covers(S[i], c)

LEMMA TilingWith ==
    ASSUME NEW U, NEW S, NEW upper, Tiling(U, S, upper),
           NEW k, k \notin U, NEW len \in 0 .. DATA_SIZE, len <= upper,
           NEW S2, \A i \in U : S2[i] = S[i],
           S2[k] = [item_offset |-> upper - len, item_length |-> len]
    PROVE  Tiling(U \cup {k}, S2, upper - len)
<1> USE SizeAssumption
<1>1. upper \in 0 .. DATA_SIZE /\ upper - len \in 0 .. DATA_SIZE
  BY DEF Tiling
<1>2. S2[k].item_offset = upper - len /\ S2[k].item_length = len /\ S2[k] \in PageSlot
  BY <1>1 DEF PageSlot
<1>3. ASSUME NEW i \in U
      PROVE  /\ S2[i] \in PageSlot /\ S2[i].item_offset + S2[i].item_length <= DATA_SIZE
             /\ S2[i].item_length # 0 => upper <= S2[i].item_offset
             /\ S2[i].item_offset \in Nat /\ S2[i].item_length \in Nat
  BY DEF Tiling, PageSlot
<1>4. \A i \in U \cup {k} :
         /\ S2[i] \in PageSlot /\ S2[i].item_offset + S2[i].item_length <= DATA_SIZE
         /\ S2[i].item_length # 0 => upper - len <= S2[i].item_offset
  BY <1>1, <1>2, <1>3
<1>5. ASSUME NEW i \in U \cup {k}, NEW j \in U \cup {k}, i # j,
             S2[i].item_length # 0, S2[j].item_length # 0
      PROVE  LeftOf(S2[i], S2[j]) \/ LeftOf(S2[j], S2[i])
  <2>1. CASE i \in U /\ j \in U
    BY <1>5, <2>1 DEF Tiling
  <2>2. CASE i = k /\ j \in U
    BY <1>1, <1>2, <1>3, <1>5, <2>2 DEF LeftOf
  <2>3. CASE j = k /\ i \in U
    BY <1>1, <1>2, <1>3, <1>5, <2>3 DEF LeftOf
  <2> QED
    BY <1>5, <2>1, <2>2, <2>3
<1>6. ASSUME NEW c \in upper - len .. DATA_SIZE - 1
      PROVE  \E i \in U \cup {k} : Covers(S2[i], c)
  <2>1. CASE c < upper
    BY <1>1, <1>2, <2>1 DEF Covers
  <2>2. CASE upper <= c
    <3>1. PICK i \in U : Covers(S[i], c)
      BY <1>1, <2>2 DEF Tiling
    <3> QED
      BY <3>1
  <2> QED
    BY <1>1, <2>1, <2>2
<1> QED
  BY <1>1, <1>4, <1>5, <1>6 DEF Tiling

(* A record goes, and those to the left of it move right over it. *)
Shifted(s, t) ==
    IF s.item_offset < t.item_offset
    THEN [s EXCEPT !.item_offset = @ + t.item_length]
    ELSE s

LEMMA ShiftedSlot ==
    ASSUME NEW s \in PageSlot, NEW t \in PageSlot
    PROVE  /\ Shifted(s, t).item_length = s.item_length
           /\ s.item_offset < t.item_offset =>
                 Shifted(s, t).item_offset = s.item_offset + t.item_length
           /\ ~(s.item_offset < t.item_offset) => Shifted(s, t).item_offset = s.item_offset
           /\ Shifted(s, t).item_offset \in 0 .. DATA_SIZE => Shifted(s, t) \in PageSlot
BY DEF Shifted, PageSlot

LEMMA TilingWithout ==
    ASSUME NEW U, NEW S, NEW upper, Tiling(U, S, upper),
           NEW k \in U, NEW S2, \A i \in U \ {k} : S2[i] = Shifted(S[i], S[k])
    PROVE  Tiling(U \ {k}, S2, upper + S[k].item_length)
<1> USE SizeAssumption
<1> DEFINE len == S[k].item_length
           off == S[k].item_offset
<1>1. /\ upper \in 0 .. DATA_SIZE /\ len \in 0 .. DATA_SIZE /\ off \in 0 .. DATA_SIZE
      /\ off + len <= DATA_SIZE
      /\ len # 0 => upper <= off
      /\ S[k] \in PageSlot
  BY DEF Tiling, PageSlot
<1>2. ASSUME NEW i \in U \ {k}
      PROVE  /\ S[i].item_offset \in 0 .. DATA_SIZE /\ S[i].item_length \in 0 .. DATA_SIZE
             /\ S[i].item_offset + S[i].item_length <= DATA_SIZE
             /\ S[i].item_length # 0 => upper <= S[i].item_offset
             /\ S[i].item_length # 0 /\ len # 0 =>
                   \/ S[i].item_offset + S[i].item_length <= off
                   \/ off + len <= S[i].item_offset
             /\ S[i] \in PageSlot
  BY DEF Tiling, PageSlot, LeftOf
<1>3. ASSUME NEW i \in U \ {k}
      PROVE  /\ S2[i].item_length = S[i].item_length
             /\ S[i].item_offset < off => S2[i].item_offset = S[i].item_offset + len
             /\ ~(S[i].item_offset < off) => S2[i].item_offset = S[i].item_offset
             /\ S2[i].item_offset \in 0 .. DATA_SIZE => S2[i] \in PageSlot
  BY <1>1, <1>2, ShiftedSlot
<1> HIDE DEF len, off
<1>4. ASSUME NEW i \in U \ {k}
      PROVE  /\ S2[i].item_offset + S2[i].item_length <= DATA_SIZE
             /\ S2[i].item_length # 0 => upper + len <= S2[i].item_offset
             /\ S2[i].item_offset \in 0 .. DATA_SIZE
             /\ S2[i].item_length \in 0 .. DATA_SIZE
  <2>1. CASE S[i].item_offset < off
    BY <1>1, <1>2, <1>3, <2>1
  <2>2. CASE ~(S[i].item_offset < off)
    BY <1>1, <1>2, <1>3, <2>2
  <2> QED
    BY <2>1, <2>2
<1>5. \A i \in U \ {k} : S2[i] \in PageSlot
  BY <1>3, <1>4
<1>6. ASSUME NEW i \in U \ {k}, NEW j \in U \ {k}, i # j,
             S2[i].item_length # 0, S2[j].item_length # 0, LeftOf(S[i], S[j])
      PROVE  LeftOf(S2[i], S2[j])
  <2>1. S[i].item_length # 0 /\ S[j].item_length # 0
    BY <1>3, <1>6
  <2>2. CASE S[i].item_offset < off /\ S[j].item_offset < off
    BY <1>1, <1>2, <1>3, <1>6, <2>1, <2>2 DEF LeftOf
  <2>3. CASE S[i].item_offset < off /\ ~(S[j].item_offset < off)
    BY <1>1, <1>2, <1>3, <1>6, <2>1, <2>3 DEF LeftOf
  <2>4. CASE ~(S[i].item_offset < off)
    <3>1. ~(S[j].item_offset < off)
      BY <1>1, <1>2, <1>6, <2>1, <2>4 DEF LeftOf
    <3> QED
      BY <1>1, <1>2, <1>3, <1>6, <2>4, <3>1 DEF LeftOf
  <2> QED
    BY <2>2, <2>3, <2>4
<1>7. ASSUME NEW i \in U \ {k}, NEW j \in U \ {k}, i # j,
             S2[i].item_length # 0, S2[j].item_length # 0
      PROVE  LeftOf(S2[i], S2[j]) \/ LeftOf(S2[j], S2[i])
  <2>1. LeftOf(S[i], S[j]) \/ LeftOf(S[j], S[i])
    BY <1>3, <1>7 DEF Tiling
  <2> QED
    BY <1>6, <1>7, <2>1
<1>8. ASSUME NEW c \in upper + len .. DATA_SIZE - 1
      PROVE  \E i \in U \ {k} : Covers(S2[i], c)
  <2>1. CASE len # 0 /\ c < off + len
    <3>1. PICK i \in U : Covers(S[i], c - len)
      BY <1>1, <2>1 DEF Tiling
    <3>2. i # k
      BY <1>1, <2>1, <3>1 DEF Covers, len, off
    <3>3. S[i].item_offset < off
      BY <1>1, <1>2, <2>1, <3>1, <3>2 DEF Covers
    <3>4. Covers(S2[i], c)
      BY <1>1, <1>2, <1>3, <3>1, <3>2, <3>3 DEF Covers
    <3> QED
      BY <3>2, <3>4
  <2>2. CASE len = 0 \/ off + len <= c
    <3>1. PICK i \in U : Covers(S[i], c)
      BY <1>1, <2>2 DEF Tiling
    <3>2. i # k
      BY <1>1, <2>2, <3>1 DEF Covers, len, off
    <3>3. S2[i].item_offset = S[i].item_offset /\ S2[i].item_length = S[i].item_length
      <4>1. CASE len = 0
        BY <1>1, <1>2, <1>3, <3>2, <4>1
      <4>2. CASE len # 0
        <5>1. ~(S[i].item_offset < off)
          BY <1>1, <1>2, <2>2, <3>1, <3>2, <4>2 DEF Covers
        <5> QED
          BY <1>3, <3>2, <5>1
      <4> QED
        BY <4>1, <4>2
    <3> QED
      BY <3>1, <3>2, <3>3 DEF Covers
  <2> QED
    BY <1>1, <2>1, <2>2
<1>9. upper + len \in 0 .. DATA_SIZE
  BY <1>1
<1> QED
  BY <1>4, <1>5, <1>7, <1>8, <1>9 DEF Tiling, len

-----------------------------------------------------------------------------
(* A page in which everything is where the header and the slots say.       *)

SlotsOf(hdr, mem) == [i \in UsedSlots(hdr, mem) |-> mem[Start(i)]]

IsHeader(hdr) ==
    hdr \in [free_space_lower_bound : Nat, free_space_upper_bound : Nat,
             num_slots : Nat, num_free_slots : Nat]

Sound(hdr, mem) ==
    /\ IsHeader(hdr)
    /\ hdr.free_space_lower_bound = Start(hdr.num_slots + 1)
    /\ hdr.free_space_lower_bound <= hdr.free_space_upper_bound
    /\ hdr.num_free_slots = Cardinality(Array(hdr) \ UsedSlots(hdr, mem))
    /\ DOMAIN mem = Cell
    /\ \A c \in Cell : (\A i \in UsedSlots(hdr, mem) : c # Start(i)) => mem[c] \in Byte
    /\ Tiling(UsedSlots(hdr, mem), SlotsOf(hdr, mem), hdr.free_space_upper_bound)

LEMMA NoByteIsSlot == \A s \in PageSlot : s \notin Byte
<1>1. ASSUME NEW s \in PageSlot
      PROVE  s = [item_offset |-> s.item_offset, item_length |-> s.item_length]
  BY DEF PageSlot
<1>2. ASSUME NEW s \in PageSlot
      PROVE  s.item_offset \in 0 .. DATA_SIZE /\ s.item_length \in 0 .. DATA_SIZE
  BY DEF PageSlot
<1> QED
  BY <1>1, <1>2, ByteAssumption DEF Byte

LEMMA Zero == NUL \in Byte
BY DEF Byte

(* What it is used for. *)
LEMMA SoundFacts ==
    ASSUME NEW hdr, NEW mem, Sound(hdr, mem)
    PROVE  /\ hdr.free_space_lower_bound \in Nat /\ hdr.free_space_upper_bound \in 0 .. DATA_SIZE
           /\ hdr.num_slots \in 0 .. DATA_SIZE /\ hdr.num_free_slots \in 0 .. DATA_SIZE
           /\ Array(hdr) \subseteq SlotId
           /\ \A i \in Array(hdr) :
                 /\ i \in Nat \ {0} /\ Start(i) \in Cell
                 /\ Start(i + 1) \in Nat /\ Start(i + 1) = Start(i) + SLOT_SIZE
                 /\ Start(i + 1) <= hdr.free_space_lower_bound
           /\ \A i \in UsedSlots(hdr, mem) :
                 /\ i \in Array(hdr)
                 /\ mem[Start(i)] \in PageSlot
                 /\ mem[Start(i)].item_offset \in 0 .. DATA_SIZE
                 /\ mem[Start(i)].item_length \in 0 .. DATA_SIZE
                 /\ mem[Start(i)].item_offset + mem[Start(i)].item_length <= DATA_SIZE
                 /\ mem[Start(i)].item_length # 0 =>
                       hdr.free_space_upper_bound <= mem[Start(i)].item_offset
           /\ \A c \in Cell : hdr.free_space_lower_bound <= c => mem[c] \in Byte
<1> USE SizeAssumption
<1> DEFINE n == hdr.num_slots
           lower == hdr.free_space_lower_bound
           upper == hdr.free_space_upper_bound
<1>1. /\ n \in Nat /\ lower \in Nat /\ upper \in 0 .. DATA_SIZE /\ hdr.num_free_slots \in Nat
      /\ lower = Start(n + 1) /\ lower <= upper
  BY DEF Sound, IsHeader, Tiling
<1>2. n <= DATA_SIZE /\ 1 .. n \subseteq SlotId
  BY <1>1, SlotsWithin
<1>3. hdr.num_free_slots <= n
  <2>1. IsFiniteSet(1 .. n) /\ Cardinality(1 .. n) = n
    BY <1>1, UpToSize
  <2>2. Array(hdr) \ UsedSlots(hdr, mem) \in SUBSET (1 .. n)
    BY DEF Array
  <2>3. hdr.num_free_slots = Cardinality(Array(hdr) \ UsedSlots(hdr, mem))
    BY DEF Sound
  <2>4. Cardinality(Array(hdr) \ UsedSlots(hdr, mem)) <= Cardinality(1 .. n)
    BY <2>1, <2>2, FS_Subset
  <2> QED
    BY <2>1, <2>3, <2>4
<1>4. ASSUME NEW i \in Array(hdr)
      PROVE  /\ i \in Nat \ {0} /\ Start(i) \in Cell
             /\ Start(i + 1) \in Nat /\ Start(i + 1) = Start(i) + SLOT_SIZE
             /\ Start(i + 1) <= lower
  <2>1. i \in Nat \ {0} /\ n + 1 \in Nat \ {0} /\ i < n + 1
    BY <1>1 DEF Array
  <2>2. Start(i) \in Nat /\ Start(i + 1) = Start(i) + SLOT_SIZE
    BY <2>1, SlotPlaces
  <2>3. Start(i) + SLOT_SIZE <= Start(n + 1)
    BY <2>1, SlotPlaces
  <2> HIDE DEF n, lower, upper
  <2> QED
    BY <1>1, <2>1, <2>2, <2>3 DEF Cell
<1>5. ASSUME NEW i \in UsedSlots(hdr, mem)
      PROVE  /\ i \in Array(hdr)
             /\ mem[Start(i)] \in PageSlot
             /\ mem[Start(i)].item_offset \in 0 .. DATA_SIZE
             /\ mem[Start(i)].item_length \in 0 .. DATA_SIZE
             /\ mem[Start(i)].item_offset + mem[Start(i)].item_length <= DATA_SIZE
             /\ mem[Start(i)].item_length # 0 => upper <= mem[Start(i)].item_offset
  <2>1. SlotsOf(hdr, mem)[i] = mem[Start(i)]
    BY DEF SlotsOf
  <2>2. i \in Array(hdr)
    BY DEF UsedSlots
  <2> QED
    BY <2>1, <2>2 DEF Sound, Tiling, PageSlot
<1>6. ASSUME NEW c \in Cell, lower <= c
      PROVE  mem[c] \in Byte
  <2>1. ASSUME NEW i \in UsedSlots(hdr, mem) PROVE c # Start(i)
    <3>1. Start(i) \in Int /\ Start(i) + SLOT_SIZE <= lower
      BY <1>4, <1>5, SlotPlaces
    <3> HIDE DEF lower
    <3> QED
      BY <1>1, <1>6, <3>1 DEF Cell
  <2> QED
    BY <2>1 DEF Sound
<1>7. n \in 0 .. DATA_SIZE /\ hdr.num_free_slots \in 0 .. DATA_SIZE
  BY <1>1, <1>2, <1>3
<1>8. Array(hdr) \subseteq SlotId
  BY <1>2 DEF Array
<1> QED
  BY <1>1, <1>4, <1>5, <1>6, <1>7, <1>8

LEMMA RecordFacts ==
    ASSUME NEW r \in Record
    PROVE  /\ Len(r) \in Nat /\ DOMAIN r = 1 .. Len(r) /\ r = [j \in 1 .. Len(r) |-> r[j]]
           /\ \A j \in 1 .. Len(r) : r[j] \in Byte
<1>1. r \in Seq({r[j] : j \in DOMAIN r})
  BY RecordAssumption
<1>2. Len(r) \in Nat /\ DOMAIN r = 1 .. Len(r) /\ r \in [1 .. Len(r) -> {r[j] : j \in DOMAIN r}]
  BY <1>1
<1>3. r = [j \in 1 .. Len(r) |-> r[j]]
  BY <1>2
<1> QED
  BY <1>2, <1>3 DEF Byte

-----------------------------------------------------------------------------
(* A slot is filled. *)

IsFilled(hdr, mem, i, r, M) ==
    LET upper == hdr.free_space_upper_bound IN
    /\ DOMAIN M = Cell
    /\ M[Start(i)] = [item_offset |-> upper - Len(r), item_length |-> Len(r)]
    /\ \A c \in Start(i) + 1 .. Start(i + 1) - 1 : M[c] = NUL
    /\ \A c \in upper - Len(r) .. upper - 1 : c \in Cell /\ M[c] = r[c - (upper - Len(r)) + 1]
    /\ \A c \in Cell :
          c \notin Start(i) .. Start(i + 1) - 1 /\ c \notin upper - Len(r) .. upper - 1 =>
              M[c] = mem[c]

LEMMA FilledCells ==
    ASSUME NEW hdr, NEW mem, Sound(hdr, mem),
           NEW i \in Array(hdr), NEW r \in Record,
           Len(r) <= hdr.free_space_upper_bound - hdr.free_space_lower_bound
    PROVE  IsFilled(hdr, mem, i, r, Filled(hdr, mem, i, r))
<1> USE SizeAssumption
<1> DEFINE upper == hdr.free_space_upper_bound
           lower == hdr.free_space_lower_bound
           off == upper - Len(r)
           M == Filled(hdr, mem, i, r)
           first == Start(i)
           next == Start(i + 1)
<1>1. /\ lower \in Nat /\ upper \in 0 .. DATA_SIZE /\ Len(r) \in Nat
      /\ first \in Cell /\ next \in Nat /\ next = first + SLOT_SIZE /\ next <= lower
      /\ Len(r) <= upper - lower
  BY SoundFacts, RecordFacts
<1>2. M = [c \in Cell |->
              CASE c = first -> [item_offset |-> off, item_length |-> Len(r)]
                [] c \in first + 1 .. next - 1 -> NUL
                [] c \in off .. upper - 1 -> r[c - off + 1]
                [] OTHER -> mem[c]]
  BY DEF Filled
<1> HIDE DEF upper, lower, M, first, next
<1>3. DOMAIN M = Cell
  BY <1>2
<1>4. M[first] = [item_offset |-> off, item_length |-> Len(r)]
  BY <1>1, <1>2
<1>5. \A c \in first + 1 .. next - 1 : c \in Cell /\ M[c] = NUL
  BY <1>1, <1>2 DEF Cell
<1>6. \A c \in off .. upper - 1 : c \in Cell /\ M[c] = r[c - off + 1]
  <2>1. off \in Nat /\ upper \in Nat /\ upper <= DATA_SIZE /\ DATA_SIZE \in Nat
        /\ first \in Nat /\ next \in Nat /\ first < next /\ next <= off
    BY <1>1 DEF Cell
  <2> HIDE DEF off
  <2> SUFFICES ASSUME NEW c \in off .. upper - 1 PROVE c \in Cell /\ M[c] = r[c - off + 1]
    OBVIOUS
  <2>2. c \in Cell /\ c # first /\ c \notin first + 1 .. next - 1
    BY <2>1 DEF Cell
  <2> QED
    BY <1>2, <2>2
<1>7. \A c \in Cell : c \notin first .. next - 1 /\ c \notin off .. upper - 1 => M[c] = mem[c]
  BY <1>1, <1>2 DEF Cell
<1> QED
  BY <1>3, <1>4, <1>5, <1>6, <1>7 DEF upper, M, first, next, IsFilled

LEMMA SlotsApart ==
    ASSUME NEW i \in Nat \ {0}, NEW j \in Nat \ {0}, i # j
    PROVE  Start(j) \notin Start(i) .. Start(i + 1) - 1 /\ Start(i) # Start(j)
<1>1. Start(i) \in Nat /\ Start(j) \in Nat /\ Start(i + 1) = Start(i) + SLOT_SIZE
  BY SlotPlaces
<1>2. CASE i < j
  <2>1. Start(i) + SLOT_SIZE <= Start(j)
    BY <1>2, SlotPlaces
  <2> QED
    BY <1>1, <2>1, SizeAssumption
<1>3. CASE j < i
  <2>1. Start(j) + SLOT_SIZE <= Start(i)
    BY <1>3, SlotPlaces
  <2> QED
    BY <1>1, <2>1, SizeAssumption
<1> QED
  BY <1>2, <1>3

LEMMA FilledSlots ==
    ASSUME NEW hdr, NEW mem, Sound(hdr, mem),
           NEW i \in Array(hdr) \ UsedSlots(hdr, mem), NEW r \in Record,
           Len(r) <= hdr.free_space_upper_bound - hdr.free_space_lower_bound
    PROVE  /\ \A j \in Array(hdr) \ {i} : Filled(hdr, mem, i, r)[Start(j)] = mem[Start(j)]
           /\ UsedSlots(HeaderFilled(hdr, r), Filled(hdr, mem, i, r)) = UsedSlots(hdr, mem) \cup {i}
           /\ Array(HeaderFilled(hdr, r)) = Array(hdr)
<1> DEFINE M == Filled(hdr, mem, i, r)
           off == hdr.free_space_upper_bound - Len(r)
<1>0. /\ hdr.free_space_lower_bound \in Nat /\ hdr.free_space_upper_bound \in 0 .. DATA_SIZE
      /\ off \in 0 .. DATA_SIZE /\ Len(r) \in 0 .. DATA_SIZE /\ hdr.free_space_lower_bound <= off
  BY SoundFacts, RecordFacts, SizeAssumption
<1>cells. IsFilled(hdr, mem, i, r, M)
  BY FilledCells, i \in Array(hdr)
<1>1. ASSUME NEW j \in Array(hdr) \ {i}
      PROVE  M[Start(j)] = mem[Start(j)]
  <2>1. j \in Nat \ {0} /\ i \in Nat \ {0} /\ Start(j) \in Cell
    BY SoundFacts
  <2>2. Start(j) \notin Start(i) .. Start(i + 1) - 1
    BY <2>1, SlotsApart
  <2>3. Start(j) + SLOT_SIZE <= hdr.free_space_lower_bound
    BY SoundFacts
  <2> HIDE DEF M, off
  <2>4. Start(j) \notin off .. hdr.free_space_upper_bound - 1
    BY <1>0, <2>1, <2>3, SizeAssumption DEF Cell
  <2> QED
    BY <1>cells, <2>1, <2>2, <2>4 DEF IsFilled, off
<1>2. Array(HeaderFilled(hdr, r)) = Array(hdr)
  BY DEF Array, HeaderFilled, Sound, IsHeader
<1>3. M[Start(i)] # NUL
  <2>2. M[Start(i)] = [item_offset |-> off, item_length |-> Len(r)]
    BY <1>cells DEF IsFilled
  <2>3. M[Start(i)] \in PageSlot
    BY <1>0, <2>2 DEF PageSlot
  <2> QED
    BY <2>3, NoByteIsSlot, Zero
<1>4. \A j \in Array(hdr) : M[Start(j)] # NUL <=> j = i \/ mem[Start(j)] # NUL
  BY <1>1, <1>3
<1> HIDE DEF M
<1>5. UsedSlots(HeaderFilled(hdr, r), M) = UsedSlots(hdr, mem) \cup {i}
  BY <1>2, <1>4 DEF UsedSlots, Used
<1> QED
  BY <1>1, <1>2, <1>5 DEF M

LEMMA FilledSound ==
    ASSUME NEW hdr, NEW mem, Sound(hdr, mem),
           NEW i \in Array(hdr) \ UsedSlots(hdr, mem), NEW r \in Record,
           Len(r) <= hdr.free_space_upper_bound - hdr.free_space_lower_bound
    PROVE  Sound(HeaderFilled(hdr, r), Filled(hdr, mem, i, r))
<1> USE SizeAssumption
<1> DEFINE H == HeaderFilled(hdr, r)
           M == Filled(hdr, mem, i, r)
           U == UsedSlots(hdr, mem)
           upper == hdr.free_space_upper_bound
           lower == hdr.free_space_lower_bound
<1>1. /\ lower \in Nat /\ upper \in 0 .. DATA_SIZE /\ Len(r) \in Nat /\ Len(r) <= upper - lower
      /\ Len(r) \in 0 .. DATA_SIZE
  BY SoundFacts, RecordFacts
<1>2. UsedSlots(H, M) = U \cup {i} /\ Array(H) = Array(hdr)
  BY FilledSlots
<1>cells. IsFilled(hdr, mem, i, r, M)
  BY FilledCells
<1>3. /\ H.free_space_lower_bound = lower /\ H.num_slots = hdr.num_slots
      /\ H.free_space_upper_bound = upper - Len(r)
      /\ H.num_free_slots = hdr.num_free_slots - 1
      /\ IsHeader(hdr)
  BY DEF HeaderFilled, Sound, IsHeader
<1>4. H.num_free_slots = Cardinality(Array(H) \ UsedSlots(H, M)) /\ H.num_free_slots \in Nat
  <2>1. IsFiniteSet(Array(hdr))
    BY SoundFacts, UpToSize DEF Array
  <2>2. IsFiniteSet(Array(hdr) \ U)
    BY <2>1, FS_Difference
  <2>3. i \in Array(hdr) \ U
    OBVIOUS
  <2>4. /\ Cardinality((Array(hdr) \ U) \ {i}) = Cardinality(Array(hdr) \ U) - 1
        /\ IsFiniteSet((Array(hdr) \ U) \ {i})
    BY <2>2, <2>3, FS_RemoveElement
  <2>5. (Array(hdr) \ U) \ {i} = Array(H) \ UsedSlots(H, M)
    BY <1>2
  <2>6. Cardinality(Array(hdr) \ U) = hdr.num_free_slots
    BY DEF Sound
  <2>7. Cardinality((Array(hdr) \ U) \ {i}) \in Nat
    BY <2>4, FS_CardinalityType
  <2> QED
    BY <1>3, <2>4, <2>5, <2>6, <2>7
<1>5. IsHeader(H)
  <2>1. /\ hdr.free_space_upper_bound - Len(r) \in Nat
        /\ hdr.num_free_slots - 1 \in Nat
    BY <1>1, <1>3, <1>4
  <2> QED
    BY <1>3, <2>1 DEF HeaderFilled, IsHeader
<1>6. ASSUME NEW c \in Cell, \A j \in UsedSlots(H, M) : c # Start(j)
      PROVE  M[c] \in Byte
  <2> HIDE DEF M, H
  <2>1. c # Start(i) /\ \A j \in U : c # Start(j)
    BY <1>2, <1>6
  <2>2. mem[c] \in Byte
    BY <2>1 DEF Sound
  <2>3. CASE c \in Start(i) .. Start(i + 1) - 1
    <3>1. Start(i) \in Nat
      BY SoundFacts DEF Cell
    <3>2. c \in Start(i) + 1 .. Start(i + 1) - 1
      BY <2>1, <2>3, <3>1 DEF Cell
    <3> QED
      BY <1>cells, <3>2, Zero DEF IsFilled
  <2>4. CASE c \in upper - Len(r) .. upper - 1
    <3>1. M[c] = r[c - (upper - Len(r)) + 1]
      BY <1>cells, <2>4 DEF IsFilled
    <3>2. c - (upper - Len(r)) + 1 \in 1 .. Len(r)
      BY <1>1, <2>4
    <3> QED
      BY <3>1, <3>2, RecordFacts
  <2>5. CASE c \notin Start(i) .. Start(i + 1) - 1 /\ c \notin upper - Len(r) .. upper - 1
    BY <1>cells, <2>2, <2>5 DEF IsFilled
  <2> QED
    BY <2>3, <2>4, <2>5
<1>7. Tiling(UsedSlots(H, M), SlotsOf(H, M), H.free_space_upper_bound)
  <2>1. Tiling(U, SlotsOf(hdr, mem), upper)
    BY DEF Sound
  <2>2. ASSUME NEW j \in U PROVE SlotsOf(H, M)[j] = SlotsOf(hdr, mem)[j]
    <3>1. j \in Array(hdr) \ {i}
      BY SoundFacts
    <3>2. M[Start(j)] = mem[Start(j)]
      BY <3>1, FilledSlots
    <3> QED
      BY <1>2, <3>2 DEF SlotsOf
  <2>3. M[Start(i)] = [item_offset |-> upper - Len(r), item_length |-> Len(r)]
    BY <1>cells DEF IsFilled
  <2>4. SlotsOf(H, M)[i] = [item_offset |-> upper - Len(r), item_length |-> Len(r)]
    BY <1>2, <2>3 DEF SlotsOf
  <2>5. i \notin U /\ Len(r) <= upper
    BY <1>1
  <2> DEFINE S2 == SlotsOf(H, M)
  <2> HIDE DEF U, upper, S2
  <2>6. Tiling(U \cup {i}, S2, upper - Len(r))
    BY <1>1, <2>1, <2>2, <2>4, <2>5, TilingWith DEF S2
  <2> QED
    BY <1>2, <1>3, <2>6 DEF S2
<1>8. DOMAIN M = Cell
  BY <1>cells DEF IsFilled
<1>9. lower = Start(H.num_slots + 1) /\ lower <= upper - Len(r)
  BY <1>1, <1>3 DEF Sound
<1> HIDE DEF H, M, upper, lower, U
<1>10. Sound(H, M)
  BY <1>3, <1>4, <1>5, <1>6, <1>7, <1>8, <1>9 DEF Sound
<1> QED
  BY <1>10 DEF H, M

(* What a slot locates. *)
ContentOf(mem, i) ==
    [j \in 1 .. mem[Start(i)].item_length |-> mem[mem[Start(i)].item_offset + j - 1]]

LEMMA FilledContent ==
    ASSUME NEW hdr, NEW mem, Sound(hdr, mem),
           NEW i \in Array(hdr) \ UsedSlots(hdr, mem), NEW r \in Record,
           Len(r) <= hdr.free_space_upper_bound - hdr.free_space_lower_bound
    PROVE  /\ ContentOf(Filled(hdr, mem, i, r), i) = r
           /\ \A j \in UsedSlots(hdr, mem) :
                 ContentOf(Filled(hdr, mem, i, r), j) = ContentOf(mem, j)
<1> USE SizeAssumption
<1> DEFINE M == Filled(hdr, mem, i, r)
           upper == hdr.free_space_upper_bound
           lower == hdr.free_space_lower_bound
<1>1. /\ lower \in Nat /\ upper \in 0 .. DATA_SIZE /\ Len(r) \in Nat /\ Len(r) <= upper - lower
      /\ r = [j \in 1 .. Len(r) |-> r[j]]
      /\ i \in Array(hdr) /\ Start(i + 1) <= lower /\ Start(i + 1) \in Nat /\ Start(i) \in Cell
  BY SoundFacts, RecordFacts
<1>2. \A j \in Array(hdr) \ {i} : M[Start(j)] = mem[Start(j)]
  BY FilledSlots
<1>cells. IsFilled(hdr, mem, i, r, M)
  BY FilledCells, <1>1
<1> HIDE DEF M
<1>size. upper \in Nat /\ Len(r) \in Nat /\ DATA_SIZE \in Nat
  BY <1>1
<1>3. ContentOf(M, i) = r
  <2>1. M[Start(i)].item_offset = upper - Len(r) /\ M[Start(i)].item_length = Len(r)
    BY <1>cells DEF IsFilled
  <2>2. ASSUME NEW j \in 1 .. Len(r) PROVE M[upper - Len(r) + j - 1] = r[j]
    <3> DEFINE c == upper - Len(r) + j - 1
    <3>1. c \in upper - Len(r) .. upper - 1 /\ c - (upper - Len(r)) + 1 = j
      <4> HIDE DEF upper
      <4> QED
        BY <1>size
    <3> HIDE DEF c
    <3>2. M[c] = r[c - (upper - Len(r)) + 1]
      BY <1>cells, <3>1 DEF IsFilled
    <3> QED
      BY <3>1, <3>2 DEF c
  <2> QED
    BY <1>1, <2>1, <2>2 DEF ContentOf
<1>4. ASSUME NEW j \in UsedSlots(hdr, mem) PROVE ContentOf(M, j) = ContentOf(mem, j)
  <2> DEFINE s == mem[Start(j)]
  <2>1. M[Start(j)] = s
    BY <1>2, SoundFacts
  <2>2. /\ s.item_offset \in Nat /\ s.item_length \in Nat
        /\ s.item_offset + s.item_length <= DATA_SIZE
        /\ s.item_length # 0 => upper <= s.item_offset
    BY SoundFacts
  <2> HIDE DEF s
  <2>3. ASSUME NEW k \in 1 .. s.item_length
        PROVE  M[s.item_offset + k - 1] = mem[s.item_offset + k - 1]
    <3> DEFINE c == s.item_offset + k - 1
    <3>1. c \in Cell /\ upper <= c
      <4> HIDE DEF upper
      <4> QED
        BY <1>size, <2>2 DEF Cell
    <3> HIDE DEF c
    <3>2. c \notin Start(i) .. Start(i + 1) - 1 /\ c \notin upper - Len(r) .. upper - 1
      BY <1>1, <3>1 DEF Cell
    <3>3. M[c] = mem[c]
      BY <1>cells, <3>1, <3>2 DEF IsFilled
    <3> QED
      BY <3>3 DEF c
  <2> QED
    BY <2>1, <2>3 DEF ContentOf, s
<1> QED
  BY <1>3, <1>4 DEF M

-----------------------------------------------------------------------------
(* A record is deleted. *)

LEMMA LiveFacts ==
    ASSUME Sound(header_, data_)
    PROVE  \A i \in Live :
              /\ i \in Array(header_) /\ i \in Nat \ {0}
              /\ Slot(i) \in PageSlot
              /\ Slot(i).item_offset \in 0 .. DATA_SIZE
              /\ Slot(i).item_length \in 0 .. DATA_SIZE
              /\ Slot(i).item_offset + Slot(i).item_length <= DATA_SIZE
              /\ Slot(i).item_length # 0 => header_.free_space_upper_bound <= Slot(i).item_offset
BY SoundFacts DEF Live, Slot

(* The cells that move begin at the least of some offsets. *)
LEMMA MovedFacts ==
    ASSUME Sound(header_, data_), NEW i \in Live
    PROVE  /\ move_bytes(i) \in Nat
           /\ move_bytes(i) # 0 =>
                 /\ move_offset(i) \in {Slot(j).item_offset : j \in Before(i)}
                 /\ \A j \in Before(i) : move_offset(i) <= Slot(j).item_offset
                 /\ move_offset(i) \in Nat
           /\ MovedCells(i) \subseteq Nat
<1> USE SizeAssumption
<1>1. UNION {Cells(Slot(j)) : j \in Before(i)} \subseteq Cell
  BY LiveFacts DEF Cells, Before, Cell
<1>2. IsFiniteSet(Cell)
  BY FS_Interval DEF Cell
<1>3. move_bytes(i) \in Nat
  BY <1>1, <1>2, FS_Subset, FS_CardinalityType DEF move_bytes
<1>4. ASSUME move_bytes(i) # 0
      PROVE  /\ move_offset(i) \in {Slot(j).item_offset : j \in Before(i)}
             /\ \A j \in Before(i) : move_offset(i) <= Slot(j).item_offset
             /\ move_offset(i) \in Nat
  <2> DEFINE T == {Slot(j).item_offset : j \in Before(i)}
  <2>1. T \in SUBSET Nat
    BY LiveFacts DEF Before
  <2>2. T # {}
    <3>1. CASE Before(i) = {}
      <4>1. UNION {Cells(Slot(j)) : j \in Before(i)} = {}
        BY <3>1
      <4> QED
        BY <1>4, <4>1, FS_EmptySet DEF move_bytes
    <3> QED
      BY <3>1
  <2> HIDE DEF T
  <2>3. Least(T) \in T /\ \A o \in T : Least(T) <= o
    BY <2>1, <2>2, LeastNumber
  <2> QED
    BY <2>1, <2>3 DEF T, move_offset
<1>5. MovedCells(i) \subseteq Nat
  BY <1>3, <1>4 DEF MovedCells
<1> QED
  BY <1>3, <1>4, <1>5

IsClosed(i, M) ==
    LET slot == Slot(i)
        moved == {c + slot.item_length : c \in MovedCells(i)}
    IN  /\ DOMAIN M = Cell
        /\ \A j \in Live \ {i} : M[Start(j)] = Shifted(Slot(j), slot)
        /\ \A c \in Start(i) .. Start(i + 1) - 1 : M[c] = NUL
        /\ \A c \in Cell \cap moved : M[c] = data_[c - slot.item_length]
        /\ \A c \in Cells(slot) \ moved : M[c] = NUL
        /\ \A c \in Cell :
              /\ c \notin moved \cup Cells(slot)
              /\ c \notin Start(i) .. Start(i + 1) - 1
              /\ \A j \in Live : c # Start(j)
              => M[c] = data_[c]

LEMMA ClosedCells ==
    ASSUME Sound(header_, data_), NEW i \in Live, ~MovesSlots(i)
    PROVE  /\ IsClosed(i, Closed(i))
           /\ \A c \in MovedCells(i) : c \in Nat /\ header_.free_space_lower_bound <= c
           /\ \A c \in Cells(Slot(i)) : c \in Cell /\ header_.free_space_upper_bound <= c
<1> USE SizeAssumption
<1> DEFINE slot == Slot(i)
           len == slot.item_length
           lower == header_.free_space_lower_bound
           moved == {c + len : c \in MovedCells(i)}
           shifted == {Start(j) : j \in Before(i)}
           own == Start(i) .. Start(i + 1) - 1
           M == Closed(i)
<1>1. /\ len \in 0 .. DATA_SIZE /\ slot.item_offset \in 0 .. DATA_SIZE
      /\ slot.item_offset + len <= DATA_SIZE
      /\ lower \in Nat /\ header_.free_space_upper_bound \in Nat
      /\ lower <= header_.free_space_upper_bound
      /\ len # 0 => header_.free_space_upper_bound <= slot.item_offset
      /\ i \in Nat \ {0} /\ i \in Array(header_)
  BY LiveFacts, SoundFacts DEF Sound
<1>2. \A c \in MovedCells(i) : c \in Nat /\ lower <= c
  BY <1>1, MovedFacts DEF MovesSlots
<1>3. \A c \in Cells(slot) : c \in Cell /\ header_.free_space_upper_bound <= c
  BY <1>1 DEF Cells, Cell
<1>4. \A c \in moved : c \in Nat /\ lower <= c
  BY <1>1, <1>2
<1>5. M = [c \in Cell |->
              CASE c \in shifted -> [data_[c] EXCEPT !.item_offset = @ + len]
                [] c \in own -> NUL
                [] c \in moved -> data_[c - len]
                [] c \in Cells(slot) \ moved -> NUL
                [] OTHER -> data_[c]]
  BY DEF Closed
<1>6. ASSUME NEW j \in Live
      PROVE  /\ Start(j) \in Cell /\ Start(j) < lower /\ j \in Nat \ {0}
             /\ j # i => Start(j) \notin own
             /\ \A k \in Live : Start(k) = Start(j) => k = j
  <2>1. j \in Array(header_) /\ j \in Nat \ {0} /\ Start(j) \in Cell
    BY LiveFacts, SoundFacts
  <2>2. Start(j) + SLOT_SIZE <= lower
    BY <2>1, SoundFacts
  <2>3. j # i => Start(j) \notin own
    BY <1>1, <2>1, SlotsApart
  <2>4. \A k \in Live : Start(k) = Start(j) => k = j
    BY <2>1, LiveFacts, SlotsApart
  <2> HIDE DEF lower
  <2>5. Start(j) < lower
    BY <1>1, <2>1, <2>2 DEF Cell
  <2> QED
    BY <2>1, <2>3, <2>4, <2>5
<1>7. \A c \in own : c \in Cell /\ c < lower
  BY <1>1, SoundFacts DEF Cell
<1>8. Before(i) \subseteq Live \ {i}
  BY <1>1 DEF Before
<1>9. /\ \A c \in shifted : c \notin own /\ c \notin moved /\ c \notin Cells(slot)
      /\ \A c \in own : c \notin moved /\ c \notin Cells(slot)
  <2> HIDE DEF lower, own, moved
  <2>1. \A c \in moved \cup Cells(slot) : c \in Nat /\ ~(c < lower)
    BY <1>1, <1>3, <1>4 DEF Cell
  <2>2. \A c \in shifted \cup own : c < lower
    BY <1>6, <1>7, <1>8
  <2>3. \A c \in shifted : c \notin own
    BY <1>6, <1>8
  <2> QED
    BY <2>1, <2>2, <2>3
<1> HIDE DEF M, slot, len, lower, moved, shifted, own
<1>10. ASSUME NEW j \in Live \ {i} PROVE M[Start(j)] = Shifted(Slot(j), slot)
  <2>1. CASE Slot(j).item_offset < slot.item_offset
    <3>1. Start(j) \in shifted
      BY <2>1 DEF shifted, Before, slot
    <3>2. M[Start(j)] = [data_[Start(j)] EXCEPT !.item_offset = @ + len]
      BY <1>5, <1>6, <1>9, <3>1
    <3> QED
      BY <2>1, <3>2 DEF Shifted, Slot, len, slot
  <2>2. CASE ~(Slot(j).item_offset < slot.item_offset)
    <3>1. Start(j) \notin shifted
      BY <1>6, <1>8, <2>2 DEF shifted, Before, slot
    <3>2. Start(j) \notin moved /\ Start(j) \notin Cells(slot)
      BY <1>1, <1>3, <1>4, <1>6 DEF Cell
    <3>3. M[Start(j)] = data_[Start(j)]
      BY <1>5, <1>6, <3>1, <3>2
    <3> QED
      BY <2>2, <3>3 DEF Shifted, Slot, slot
  <2> QED
    BY <2>1, <2>2
<1>11. \A c \in own : M[c] = NUL
  BY <1>5, <1>7, <1>9
<1>12. \A c \in Cell \cap moved : M[c] = data_[c - len]
  BY <1>5, <1>9
<1>13. \A c \in Cells(slot) \ moved : M[c] = NUL
  BY <1>3, <1>5, <1>9
<1>14. ASSUME NEW c \in Cell, c \notin moved \cup Cells(slot), c \notin own,
              \A j \in Live : c # Start(j)
       PROVE  M[c] = data_[c]
  <2>1. c \notin shifted
    BY <1>8, <1>14 DEF shifted
  <2> QED
    BY <1>5, <1>14, <2>1
<1>15. DOMAIN M = Cell
  BY <1>5
<1> QED
  BY <1>2, <1>3, <1>10, <1>11, <1>12, <1>13, <1>14, <1>15
     DEF IsClosed, M, slot, len, lower, moved, own

LEMMA ClosedSlots ==
    ASSUME Sound(header_, data_), NEW i \in Live, ~MovesSlots(i)
    PROVE  /\ UsedSlots(HeaderClosed(i), Closed(i)) = Live \ {i}
           /\ Array(HeaderClosed(i)) = Array(header_)
<1> USE SizeAssumption
<1> DEFINE M == Closed(i)
           lower == header_.free_space_lower_bound
<1>1. IsClosed(i, M)
  BY ClosedCells
<1>2. i \in Array(header_) /\ i \in Nat \ {0}
  BY LiveFacts
<1>3. Array(HeaderClosed(i)) = Array(header_)
  BY DEF HeaderClosed, Array, Sound, IsHeader
<1>4. ASSUME NEW j \in Array(header_), j # i
      PROVE  M[Start(j)] # NUL <=> j \in Live
  <2>1. j \in Nat \ {0} /\ Start(j) \in Cell /\ Start(j) + SLOT_SIZE <= lower
        /\ lower \in Nat /\ lower <= header_.free_space_upper_bound
        /\ header_.free_space_upper_bound \in Nat
    BY SoundFacts DEF Sound
  <2>2. CASE j \in Live
    <3>1. M[Start(j)] = Shifted(Slot(j), Slot(i))
      BY <1>1, <1>4, <2>2 DEF IsClosed
    <3>2. Slot(j) \in PageSlot /\ Slot(i) \in PageSlot
      BY <2>2, LiveFacts
    <3>3. Slot(j).item_offset < Slot(i).item_offset => Slot(j).item_offset + Slot(i).item_length \in 0 .. DATA_SIZE
      BY <2>2, LiveFacts
    <3>4. Shifted(Slot(j), Slot(i)).item_offset \in 0 .. DATA_SIZE
      <4>1. CASE Slot(j).item_offset < Slot(i).item_offset
        BY <3>2, <3>3, <4>1, ShiftedSlot
      <4>2. CASE ~(Slot(j).item_offset < Slot(i).item_offset)
        <5>1. Slot(j).item_offset \in 0 .. DATA_SIZE
          BY <2>2, LiveFacts
        <5> QED
          BY <3>2, <4>2, <5>1, ShiftedSlot
      <4> QED
        BY <4>1, <4>2
    <3>5. Shifted(Slot(j), Slot(i)) \in PageSlot
      BY <3>2, <3>4, ShiftedSlot
    <3> QED
      BY <2>2, <3>1, <3>5, NoByteIsSlot, Zero
  <2>3. CASE j \notin Live
    <3>1. data_[Start(j)] = NUL
      BY <1>4, <2>3 DEF Live, UsedSlots, Used
    <3>2. Start(j) \notin Start(i) .. Start(i + 1) - 1
      BY <1>2, <1>4, <2>1, SlotsApart
    <3>3. \A k \in Live : Start(j) # Start(k)
      BY <2>1, <2>3, LiveFacts, SlotsApart
    <3>4. Start(j) \notin {c + Slot(i).item_length : c \in MovedCells(i)} \cup Cells(Slot(i))
      <4>1. ASSUME NEW c \in MovedCells(i) PROVE Start(j) # c + Slot(i).item_length
        <5>1. c \in Nat /\ lower <= c /\ Slot(i).item_length \in Nat
          BY ClosedCells, LiveFacts
        <5> HIDE DEF lower
        <5> QED
          BY <2>1, <5>1 DEF Cell
      <4>2. ASSUME NEW c \in Cells(Slot(i)) PROVE Start(j) # c
        <5>1. c \in Cell /\ header_.free_space_upper_bound <= c
          BY ClosedCells
        <5> HIDE DEF lower
        <5> QED
          BY <2>1, <5>1 DEF Cell
      <4> QED
        BY <4>1, <4>2
    <3>5. M[Start(j)] = data_[Start(j)]
      BY <1>1, <2>1, <3>2, <3>3, <3>4 DEF IsClosed
    <3> QED
      BY <2>3, <3>1, <3>5
  <2> QED
    BY <2>2, <2>3
<1>5. M[Start(i)] = NUL
  <2>1. Start(i) \in Start(i) .. Start(i + 1) - 1
    BY <1>2, SoundFacts DEF Cell
  <2> QED
    BY <1>1, <2>1 DEF IsClosed
<1> HIDE DEF M
<1>6. UsedSlots(HeaderClosed(i), M) = Live \ {i}
  <2>1. \A j \in Live : j \in Array(header_)
    BY LiveFacts
  <2> QED
    BY <1>3, <1>4, <1>5, <2>1 DEF UsedSlots, Used
<1> QED
  BY <1>3, <1>6 DEF M

LEMMA ClosedSound ==
    ASSUME Sound(header_, data_), NEW i \in Live, ~MovesSlots(i)
    PROVE  Sound(HeaderClosed(i), Closed(i))
<1> USE SizeAssumption
<1> DEFINE H == HeaderClosed(i)
           M == Closed(i)
           len == Slot(i).item_length
           upper == header_.free_space_upper_bound
           lower == header_.free_space_lower_bound
<1>1. /\ lower \in Nat /\ upper \in 0 .. DATA_SIZE /\ len \in Nat /\ lower <= upper
      /\ i \in Array(header_) /\ i \in Nat \ {0}
  BY SoundFacts, LiveFacts DEF Sound
<1>2. UsedSlots(H, M) = Live \ {i} /\ Array(H) = Array(header_)
  BY ClosedSlots
<1>3. IsClosed(i, M)
  BY ClosedCells
<1>4. /\ H.free_space_lower_bound = lower /\ H.num_slots = header_.num_slots
      /\ H.free_space_upper_bound = upper + len
      /\ H.num_free_slots = header_.num_free_slots + 1
      /\ IsHeader(header_)
  BY DEF HeaderClosed, Sound, IsHeader
<1>5. H.num_free_slots = Cardinality(Array(H) \ UsedSlots(H, M))
  <2>1. IsFiniteSet(Array(header_))
    BY SoundFacts, UpToSize DEF Array
  <2>2. IsFiniteSet(Array(header_) \ Live)
    BY <2>1, FS_Difference
  <2>3. Cardinality((Array(header_) \ Live) \cup {i}) = Cardinality(Array(header_) \ Live) + 1
    BY <2>2, FS_AddElement
  <2>4. (Array(header_) \ Live) \cup {i} = Array(H) \ UsedSlots(H, M)
    BY <1>1, <1>2
  <2>5. Cardinality(Array(header_) \ Live) = header_.num_free_slots
    BY DEF Sound, Live
  <2> QED
    BY <1>4, <2>3, <2>4, <2>5
<1>6. IsHeader(H)
  <2>1. upper + len \in Nat /\ header_.num_free_slots + 1 \in Nat
    BY <1>1, <1>4 DEF IsHeader
  <2> QED
    BY <1>4, <2>1 DEF IsHeader, HeaderClosed
<1>7. ASSUME NEW c \in Cell, \A j \in UsedSlots(H, M) : c # Start(j)
      PROVE  M[c] \in Byte
  <2> HIDE DEF M, H
  <2>1. \A j \in Live \ {i} : c # Start(j)
    BY <1>2, <1>7
  <2>2. CASE c \in Start(i) .. Start(i + 1) - 1
    BY <1>3, <2>2, Zero DEF IsClosed
  <2>3. CASE c \in {d + len : d \in MovedCells(i)}
    <3>1. PICK d \in MovedCells(i) : c = d + len
      BY <2>3
    <3>2. d \in Nat /\ lower <= d
      BY ClosedCells
    <3>3. d \in Cell /\ c - len = d
      BY <1>1, <3>1, <3>2 DEF Cell
    <3>4. M[c] = data_[d]
      BY <1>3, <2>3, <3>3 DEF IsClosed
    <3> QED
      BY <3>2, <3>3, <3>4, SoundFacts
  <2>4. CASE c \in Cells(Slot(i)) \ {d + len : d \in MovedCells(i)}
    BY <1>3, <2>4, Zero DEF IsClosed
  <2>5. CASE /\ c \notin Start(i) .. Start(i + 1) - 1
             /\ c \notin {d + len : d \in MovedCells(i)} \cup Cells(Slot(i))
    <3>1. Start(i) \in Start(i) .. Start(i + 1) - 1
      BY <1>1, SoundFacts DEF Cell
    <3>2. \A j \in Live : c # Start(j)
      BY <2>1, <2>5, <3>1
    <3>3. M[c] = data_[c]
      BY <1>3, <2>5, <3>2 DEF IsClosed
    <3> QED
      BY <3>2, <3>3 DEF Sound, Live
  <2> QED
    BY <2>2, <2>3, <2>4, <2>5
<1>8. Tiling(UsedSlots(H, M), SlotsOf(H, M), H.free_space_upper_bound)
  <2> DEFINE S == SlotsOf(header_, data_)
             S2 == SlotsOf(H, M)
  <2>1. Tiling(Live, S, upper)
    BY DEF Sound, Live
  <2>2. \A j \in Live : S[j] = Slot(j)
    BY DEF SlotsOf, Slot, Live
  <2>3. \A j \in Live \ {i} : S2[j] = M[Start(j)]
    BY <1>2 DEF SlotsOf
  <2>4. \A j \in Live \ {i} : M[Start(j)] = Shifted(Slot(j), Slot(i))
    BY <1>3 DEF IsClosed
  <2> HIDE DEF S, S2, upper, M, H
  <2>5. \A j \in Live \ {i} : S2[j] = Shifted(S[j], S[i])
    BY <2>2, <2>3, <2>4
  <2>6. Tiling(Live \ {i}, S2, upper + S[i].item_length)
    BY <2>1, <2>5, TilingWithout
  <2>7. S[i].item_length = len
    BY <2>2
  <2> QED
    BY <1>2, <1>4, <2>6, <2>7 DEF S2
<1>9. DOMAIN M = Cell
  BY <1>3 DEF IsClosed
<1>10. lower = Start(H.num_slots + 1) /\ lower <= upper + len
  BY <1>1, <1>4 DEF Sound
<1> HIDE DEF H, M, upper, lower, len
<1>11. Sound(H, M)
  BY <1>4, <1>5, <1>6, <1>7, <1>8, <1>9, <1>10 DEF Sound
<1> QED
  BY <1>11 DEF H, M

-----------------------------------------------------------------------------
(* The slot array grows and shrinks. *)

LEMMA LastUsedFacts ==
    ASSUME NEW hdr, NEW mem, Sound(hdr, mem)
    PROVE  /\ LastUsed(hdr, mem) \in UsedSlots(hdr, mem) \cup {0}
           /\ LastUsed(hdr, mem) \in 0 .. hdr.num_slots
           /\ \A i \in UsedSlots(hdr, mem) : i <= LastUsed(hdr, mem)
<1> DEFINE U == UsedSlots(hdr, mem)
           n == hdr.num_slots
<1>1. n \in Nat /\ U \in SUBSET (1 .. n)
  BY DEF Sound, IsHeader, UsedSlots, Array
<1> HIDE DEF n
<1>2. CASE U = {}
  <2>1. LastUsed(hdr, mem) = 0
    BY <1>2 DEF LastUsed
  <2> QED
    BY <1>1, <1>2, <2>1 DEF n
<1>3. CASE U # {}
  <2> HIDE DEF U
  <2>1. \E m \in U : \A i \in U : i <= m
    BY <1>1, <1>3, GreatestNumber
  <2>2. LastUsed(hdr, mem) = CHOOSE m \in U : \A i \in U : i <= m
    BY <1>3 DEF LastUsed, U
  <2>3. LastUsed(hdr, mem) \in U /\ \A i \in U : i <= LastUsed(hdr, mem)
    BY <2>1, <2>2
  <2>4. LastUsed(hdr, mem) \in 1 .. n
    BY <1>1, <2>3 DEF U
  <2>5. LastUsed(hdr, mem) \in 0 .. n
    BY <1>1, <2>4
  <2> QED
    BY <2>3, <2>5 DEF U, n
<1> QED
  BY <1>2, <1>3

LEMMA CompactedSound ==
    ASSUME NEW hdr, NEW mem, Sound(hdr, mem)
    PROVE  /\ Sound(Compacted(hdr, mem), mem)
           /\ UsedSlots(Compacted(hdr, mem), mem) = UsedSlots(hdr, mem)
           /\ Compacted(hdr, mem).num_slots \in UsedSlots(hdr, mem) \cup {0}
           /\ Compacted(hdr, mem).free_space_upper_bound = hdr.free_space_upper_bound
<1> USE SizeAssumption
<1> DEFINE H == Compacted(hdr, mem)
           U == UsedSlots(hdr, mem)
           n == hdr.num_slots
           last == LastUsed(hdr, mem)
<1>1. /\ n \in Nat /\ hdr.num_free_slots \in Nat /\ IsHeader(hdr)
      /\ hdr.free_space_lower_bound \in Nat /\ hdr.free_space_upper_bound \in Nat
      /\ hdr.free_space_lower_bound = Start(n + 1)
      /\ hdr.free_space_lower_bound <= hdr.free_space_upper_bound
  BY DEF Sound, IsHeader
<1>2. /\ last \in U \cup {0} /\ last \in 0 .. n
      /\ \A i \in U : i <= last
  BY LastUsedFacts
<1>3. /\ H.num_slots = last
      /\ H.num_free_slots = hdr.num_free_slots - (n - last)
      /\ H.free_space_lower_bound = hdr.free_space_lower_bound - SLOT_SIZE * (n - last)
      /\ H.free_space_upper_bound = hdr.free_space_upper_bound
  BY <1>1 DEF Compacted, IsHeader
<1>4. \A i \in U : i \in 1 .. n
  BY DEF UsedSlots, Array
<1>5. UsedSlots(H, mem) = U
  <2>1. \A i \in U : i \in 1 .. last
    <3> HIDE DEF U, n, last
    <3> QED
      BY <1>1, <1>2, <1>4
  <2>2. \A i \in 1 .. last : i \in 1 .. n
    <3> HIDE DEF n, last
    <3> QED
      BY <1>1, <1>2
  <2> HIDE DEF H
  <2> QED
    BY <1>3, <2>1, <2>2 DEF UsedSlots, Array, Used
<1>6. /\ SLOT_SIZE * (n - last) \in Nat /\ Start(last + 1) \in Nat
      /\ Start(last + 1) = Start(n + 1) - SLOT_SIZE * (n - last)
  <2> HIDE DEF n, last
  <2>1. last \in Nat /\ last <= n
    BY <1>1, <1>2
  <2> QED
    BY <1>1, <2>1, SlotsTaken
<1>7. H.free_space_lower_bound = Start(last + 1)
  BY <1>1, <1>3, <1>6
<1>8. H.free_space_lower_bound \in Nat /\ H.free_space_lower_bound <= hdr.free_space_upper_bound
  <2> HIDE DEF H, n, last
  <2> QED
    BY <1>1, <1>3, <1>6, <1>7
<1>9. H.num_free_slots = Cardinality(Array(H) \ U) /\ H.num_free_slots \in Nat
  <2> DEFINE A == (1 .. last) \ U
             B == last + 1 .. n
  <2>1. (1 .. n) \ U = A \cup B /\ A \cap B = {}
    <3> HIDE DEF U, n, last
    <3> QED
      BY <1>1, <1>2
  <2>2. IsFiniteSet(A) /\ Cardinality(A) \in Nat
    <3> HIDE DEF U, n, last
    <3>1. IsFiniteSet(1 .. last)
      BY <1>2, UpToSize
    <3>2. IsFiniteSet(A)
      BY <3>1, FS_Difference
    <3> HIDE DEF A
    <3> QED
      BY <3>2, FS_CardinalityType
  <2>3. IsFiniteSet(B) /\ Cardinality(B) = n - last
    <3> HIDE DEF n, last
    <3>1. last \in Nat /\ last <= n
      BY <1>1, <1>2
    <3> QED
      BY <1>1, <3>1, BetweenSize
  <2> HIDE DEF A, B
  <2>4. Cardinality(A \cup B) = Cardinality(A) + Cardinality(B)
    <3>1. Cardinality(A \cup B) = Cardinality(A) + Cardinality(B) - Cardinality(A \cap B)
      BY <2>2, <2>3, FS_Union
    <3>2. Cardinality(A \cap B) = 0
      BY <2>1, FS_EmptySet
    <3> HIDE DEF n, last
    <3> QED
      BY <1>1, <1>2, <2>2, <2>3, <3>1, <3>2
  <2>5. hdr.num_free_slots = Cardinality(A \cup B)
    BY <2>1 DEF Sound, Array
  <2> HIDE DEF H, n, last
  <2>6. H.num_free_slots = Cardinality(A)
    BY <1>1, <1>2, <1>3, <2>2, <2>3, <2>4, <2>5
  <2> QED
    BY <1>3, <2>2, <2>6 DEF Array, A
<1>10. IsHeader(H)
  <2>1. /\ last \in Nat /\ hdr.num_free_slots - (n - last) \in Nat
        /\ hdr.free_space_lower_bound - SLOT_SIZE * (n - last) \in Nat
    BY <1>2, <1>3, <1>8, <1>9
  <2> QED
    BY <1>1, <2>1 DEF Compacted, IsHeader
<1>11. SlotsOf(H, mem) = SlotsOf(hdr, mem)
  BY <1>5 DEF SlotsOf
<1> HIDE DEF H, n, last
<1>12. Sound(H, mem)
  BY <1>3, <1>5, <1>7, <1>8, <1>9, <1>10, <1>11 DEF Sound
<1> QED
  BY <1>2, <1>3, <1>5, <1>12 DEF H

LEMMA SlotFound ==
    ASSUME Sound(header_, data_), header_.num_free_slots > 0
    PROVE  /\ AvailableSlot \in Array(header_) \ Live
           /\ \A i \in Array(header_) \ Live : AvailableSlot <= i
           /\ HeaderWithSlot = header_
<1>1. Array(header_) \ Live # {}
  <2>1. header_.num_free_slots = Cardinality(Array(header_) \ Live)
    BY DEF Sound, Live
  <2> QED
    BY <2>1, FS_EmptySet
<1>2. Array(header_) \ Live \in SUBSET Nat
  BY SoundFacts
<1>3. AvailableSlot = Least(Array(header_) \ Live) /\ HeaderWithSlot = header_
  BY DEF AvailableSlot, HeaderWithSlot
<1> DEFINE T == Array(header_) \ Live
<1> HIDE DEF T
<1>4. Least(T) \in T /\ \A i \in T : Least(T) <= i
  BY <1>1, <1>2, LeastNumber DEF T
<1> QED
  BY <1>3, <1>4 DEF T

LEMMA SlotAdded ==
    ASSUME Sound(header_, data_), ~(header_.num_free_slots > 0)
    PROVE  /\ AvailableSlot = header_.num_slots + 1
           /\ Live = Array(header_)
           /\ HeaderWithSlot.num_slots = header_.num_slots + 1
           /\ header_.num_free_slots = 0 /\ HeaderWithSlot.num_free_slots = 1
           /\ HeaderWithSlot.free_space_upper_bound = header_.free_space_upper_bound
           /\ HeaderWithSlot.free_space_lower_bound = header_.free_space_lower_bound + SLOT_SIZE
           /\ HeaderWithSlot.free_space_lower_bound = Start(header_.num_slots + 2)
           /\ IsHeader(HeaderWithSlot)
<1> DEFINE n == header_.num_slots
<1>1. /\ n \in Nat /\ header_.num_free_slots = 0 /\ IsHeader(header_)
      /\ header_.free_space_lower_bound = Start(n + 1)
  BY DEF Sound, IsHeader
<1>2. Start(n + 2) = Start(n + 1) + SLOT_SIZE /\ Start(n + 2) \in Nat
  <2>1. n + 1 \in Nat \ {0} /\ n + 2 \in Nat \ {0} /\ n + 1 + 1 = n + 2
    BY <1>1
  <2> QED
    BY <2>1, SlotPlaces
<1>3. HeaderWithSlot = [header_ EXCEPT !.num_slots = n + 1, !.num_free_slots = 1,
                                       !.free_space_lower_bound = Start(n + 2)]
  BY <1>1 DEF HeaderWithSlot
<1>4. /\ HeaderWithSlot.num_slots = n + 1 /\ HeaderWithSlot.num_free_slots = 1
      /\ HeaderWithSlot.free_space_upper_bound = header_.free_space_upper_bound
      /\ HeaderWithSlot.free_space_lower_bound = Start(n + 2)
      /\ IsHeader(HeaderWithSlot)
  <2>1. n + 1 \in Nat /\ 1 \in Nat
    BY <1>1
  <2> HIDE DEF n
  <2>2. IsHeader(HeaderWithSlot)
    BY <1>1, <1>2, <1>3, <2>1 DEF IsHeader
  <2> QED
    BY <1>1, <1>3, <2>2 DEF IsHeader
<1>5. Live = Array(header_)
  <2>1. Cardinality(Array(header_) \ Live) = 0
    BY <1>1 DEF Sound, Live
  <2>2. IsFiniteSet(Array(header_) \ Live)
    BY <1>1, UpToSize, FS_Difference DEF Array
  <2>3. Array(header_) \ Live = {}
    BY <2>1, <2>2, FS_EmptySet
  <2> QED
    BY <2>3, LiveFacts
<1>6. AvailableSlot = n + 1
  BY <1>1 DEF AvailableSlot
<1> QED
  BY <1>1, <1>2, <1>4, <1>5, <1>6

(* What insertRecord finds when there is space. *)
LEMMA SpaceFacts ==
    ASSUME Sound(header_, data_), NEW r \in Record, hasSpaceForRecord(r)
    PROVE  /\ HeaderWithSlot.free_space_lower_bound \in Nat
           /\ Len(r) <= HeaderWithSlot.free_space_upper_bound - HeaderWithSlot.free_space_lower_bound
           /\ HeaderWithSlot.free_space_upper_bound = header_.free_space_upper_bound
           /\ header_.num_free_slots = 0 \/ header_.num_free_slots > 0
<1>1. /\ header_.free_space_lower_bound \in Nat /\ header_.free_space_upper_bound \in Nat
      /\ header_.num_free_slots \in Nat /\ Len(r) \in Nat
  BY RecordFacts DEF Sound, IsHeader
<1>2. CASE header_.num_free_slots > 0
  <2>1. Len(r) <= header_.free_space_upper_bound - header_.free_space_lower_bound
    BY <1>1, <1>2 DEF hasSpaceForRecord, getFreeSpace
  <2> QED
    BY <1>1, <1>2, <2>1, SlotFound
<1>3. CASE ~(header_.num_free_slots > 0)
  <2>1. Len(r) + SLOT_SIZE <= header_.free_space_upper_bound - header_.free_space_lower_bound
    BY <1>1, <1>3 DEF hasSpaceForRecord, getFreeSpace
  <2> QED
    BY <1>1, <1>3, <2>1, SlotAdded, SizeAssumption
<1> QED
  BY <1>2, <1>3

LEMMA WithSlotSound ==
    ASSUME Sound(header_, data_), NEW r \in Record, hasSpaceForRecord(r),
           ~Used(data_, AvailableSlot)
    PROVE  /\ Sound(HeaderWithSlot, data_)
           /\ UsedSlots(HeaderWithSlot, data_) = Live
           /\ AvailableSlot \in Array(HeaderWithSlot) \ Live
<1>1. CASE header_.num_free_slots > 0
  BY <1>1, SlotFound DEF Live
<1>2. CASE ~(header_.num_free_slots > 0)
  <2> DEFINE n == header_.num_slots
             H == HeaderWithSlot
  <2>1. n \in Nat
    BY DEF Sound, IsHeader
  <2>2. /\ AvailableSlot = n + 1 /\ H.num_slots = n + 1 /\ Live = 1 .. n
        /\ H.num_free_slots = 1 /\ IsHeader(H)
        /\ H.free_space_upper_bound = header_.free_space_upper_bound
        /\ H.free_space_lower_bound = Start(n + 2)
    BY <1>2, SlotAdded DEF Array
  <2>3. UsedSlots(H, data_) = Live
    <3> HIDE DEF H, n
    <3>1. ASSUME NEW i \in 1 .. n + 1 PROVE i \in 1 .. n \/ i = n + 1
      BY <2>1
    <3>2. \A i \in 1 .. n : Used(data_, i)
      BY <2>2 DEF Live, UsedSlots
    <3>3. ~Used(data_, n + 1)
      BY <2>2
    <3>4. 1 .. n \subseteq 1 .. n + 1
      BY <2>1
    <3> QED
      BY <2>2, <3>1, <3>2, <3>3, <3>4 DEF UsedSlots, Array
  <2>4. H.num_free_slots = Cardinality(Array(H) \ UsedSlots(H, data_))
    <3> HIDE DEF H, n
    <3>1. (1 .. n + 1) \ (1 .. n) = {n + 1}
      BY <2>1
    <3>2. Cardinality({n + 1}) = 1
      BY FS_Singleton
    <3> QED
      BY <2>2, <2>3, <3>1, <3>2 DEF Array
  <2>5. H.free_space_lower_bound <= H.free_space_upper_bound
    <3> HIDE DEF H
    <3>1. H.free_space_upper_bound \in Nat /\ H.free_space_lower_bound \in Nat
      BY <2>2 DEF IsHeader
    <3>2. Len(r) <= H.free_space_upper_bound - H.free_space_lower_bound
      BY SpaceFacts DEF H
    <3>3. Len(r) \in Nat
      BY RecordFacts
    <3> QED
      BY <3>1, <3>2, <3>3
  <2>6. SlotsOf(H, data_) = SlotsOf(header_, data_)
    BY <2>3 DEF SlotsOf, Live
  <2>7. Start(H.num_slots + 1) = Start(n + 2)
    <3>1. n + 1 + 1 = n + 2
      BY <2>1
    <3> QED
      BY <2>2, <3>1
  <2>8. AvailableSlot \in Array(H) \ Live
    <3> HIDE DEF H, n
    <3> QED
      BY <2>1, <2>2 DEF Array
  <2> HIDE DEF H, n
  <2>9. Sound(H, data_)
    BY <2>2, <2>3, <2>4, <2>5, <2>6, <2>7 DEF Sound, Live
  <2> QED
    BY <2>3, <2>8, <2>9 DEF H
<1> QED
  BY <1>1, <1>2

-----------------------------------------------------------------------------
(* What keeps the page in order: everything is where the header and the    *)
(* slots say as long as no slot has been taken from a record's bytes or    *)
(* moved like one, and the iterator has still to come to what is due.      *)

InOrder ==
    /\ Sound(header_, data_)
    /\ header_.num_slots \in Live \cup {0}
    /\ due \subseteq Live

IInv == TypeOK /\ IterationComplete /\ (Running => InOrder)

(* A number leads to a record exactly if it is that of one. *)
LEMMA RecordIsLive ==
    ASSUME Sound(header_, data_), NEW i \in SlotId \cup {Elsewhere}
    PROVE  /\ IsRecord(i) <=> i \in Live
           /\ i \in Nat
           /\ Valid(i) /\ ~IsSlot(data_, i) => i \notin Live /\ i > header_.num_slots
<1> USE SizeAssumption
<1>0. header_.num_slots \in Nat
  BY SoundFacts
<1>1. CASE i = Elsewhere
  <2>1. i \notin Live
    BY <1>1, LiveFacts DEF Elsewhere
  <2> QED
    BY <1>1, <2>1 DEF IsRecord, Valid, Elsewhere
<1>2. CASE i \in SlotId
  <2>1. i \in Nat \ {0} /\ i <= DATA_SIZE \div SLOT_SIZE
    BY <1>2 DEF SlotId
  <2>2. Start(i) \in Cell
    <3>1. SLOT_SIZE * (DATA_SIZE \div SLOT_SIZE) <= DATA_SIZE /\ DATA_SIZE \div SLOT_SIZE \in Int
      OBVIOUS
    <3>2. SLOT_SIZE * i <= SLOT_SIZE * (DATA_SIZE \div SLOT_SIZE)
      BY <2>1, <3>1
    <3>3. SLOT_SIZE * i = Start(i) + SLOT_SIZE /\ Start(i) \in Nat
      BY <2>1, SlotPlaces
    <3>4. Start(i) + SLOT_SIZE <= DATA_SIZE
      BY <2>1, <3>1, <3>2, <3>3
    <3> QED
      BY <3>3, <3>4 DEF Cell
  <2>3. CASE i \in Live
    <3>1. Slot(i) \in PageSlot
      BY <2>3, LiveFacts
    <3>2. Slot(i) \notin Byte
      BY <3>1, NoByteIsSlot
    <3> QED
      BY <2>1, <2>3, <3>2, Zero DEF IsRecord, Valid, Used, IsSlot, Slot, Elsewhere
  <2>4. CASE i \notin Live
    <3>1. \A j \in Live : Start(i) # Start(j)
      BY <2>1, <2>4, LiveFacts, SlotsApart
    <3>2. data_[Start(i)] \in Byte
      BY <2>2, <3>1 DEF Sound, Live
    <3>3. ASSUME Valid(i) PROVE i > header_.num_slots
      BY <1>0, <2>1, <2>4, <3>3 DEF Valid, Live, UsedSlots, Array
    <3> QED
      BY <2>1, <2>4, <3>2, <3>3 DEF IsRecord, IsSlot
  <2> QED
    BY <2>3, <2>4
<1> QED
  BY <1>1, <1>2

LEMMA Typed ==
    ASSUME NEW hdr, NEW mem, Sound(hdr, mem)
    PROVE  /\ hdr \in [free_space_lower_bound : 0 .. DATA_SIZE,
                       free_space_upper_bound : 0 .. DATA_SIZE,
                       num_slots : 0 .. DATA_SIZE, num_free_slots : 0 .. DATA_SIZE]
           /\ hdr.free_space_lower_bound <= hdr.free_space_upper_bound
           /\ DOMAIN mem = Cell
<1>1. /\ hdr.free_space_lower_bound \in Nat /\ hdr.free_space_upper_bound \in 0 .. DATA_SIZE
      /\ hdr.num_slots \in 0 .. DATA_SIZE /\ hdr.num_free_slots \in 0 .. DATA_SIZE
      /\ hdr.free_space_lower_bound <= hdr.free_space_upper_bound
      /\ DOMAIN mem = Cell /\ IsHeader(hdr)
  BY SoundFacts DEF Sound
<1>2. hdr.free_space_lower_bound \in 0 .. DATA_SIZE
  BY <1>1, SizeAssumption
<1> QED
  BY <1>1, <1>2 DEF IsHeader

LEMMA InitOrder ==
    ASSUME Init
    PROVE  IInv
<1> USE SizeAssumption
<1>1. /\ header_.num_slots = 0 /\ header_.num_free_slots = 0
      /\ header_.free_space_lower_bound = 0 /\ header_.free_space_upper_bound = DATA_SIZE
      /\ IsHeader(header_) /\ data_ = [c \in Cell |-> NUL] /\ due = {}
      /\ current = INVALID_SLOT
  BY DEF Init, IsHeader
<1>2. Array(header_) = {} /\ Live = {}
  BY <1>1 DEF Array, Live, UsedSlots
<1>3. Cardinality(Array(header_) \ Live) = 0
  BY <1>2, FS_EmptySet
<1>4. Tiling(Live, SlotsOf(header_, data_), DATA_SIZE)
  BY <1>2 DEF Tiling
<1>5. \A c \in Cell : data_[c] \in Byte
  BY <1>1, Zero
<1>6. Start(header_.num_slots + 1) = 0
  BY <1>1, SlotPlaces
<1>7. Sound(header_, data_)
  BY <1>1, <1>2, <1>3, <1>4, <1>5, <1>6 DEF Sound, Live
<1>8. TypeOK
  BY <1>1, <1>7, Typed DEF TypeOK
<1> QED
  BY <1>1, <1>7, <1>8 DEF IInv, InOrder, IterationComplete

(* What a step has to show that leaves the page running. *)
LEMMA StillInOrder ==
    ASSUME InOrder', IterationComplete', current' \in SlotId \cup {INVALID_SLOT}
    PROVE  IInv'
<1>1. Sound(header_', data_')
  BY DEF InOrder
<1>2. due' \subseteq SlotId
  <2>1. Live' \subseteq Array(header_')
    BY DEF Live, UsedSlots
  <2>2. Array(header_') \subseteq SlotId
    BY <1>1, SoundFacts
  <2> QED
    BY <2>1, <2>2 DEF InOrder
<1>3. TypeOK'
  BY <1>1, <1>2, Typed DEF TypeOK
<1> QED
  BY <1>3 DEF IInv

LEMMA RefusedOrder ==
    ASSUME IInv, Running, NEW op, NEW res, Refused(op, res)
    PROVE  IInv'
BY DEF Refused, IInv, TypeOK, IterationComplete, InOrder, Running, Live

LEMMA InsertOrder ==
    ASSUME IInv, NEW r \in Record, InsertRecord(r)
    PROVE  IInv'
<1> DEFINE i == AvailableSlot
<1>1. Running /\ InOrder /\ Sound(header_, data_)
  BY DEF InsertRecord, IInv, InOrder
<1>2. CASE Refused("insertRecord", "InsufficientSpace")
  BY <1>1, <1>2, RefusedOrder
<1>3. CASE /\ hasSpaceForRecord(r) /\ Used(data_, i)
           /\ header_' = HeaderWithSlot
           /\ Ended("insertRecord", "SlotInUse")
           /\ UNCHANGED <<data_, current, due>>
  <2>1. ~(header_.num_free_slots > 0)
    <3>1. ASSUME header_.num_free_slots > 0 PROVE FALSE
      <4>1. i \in Array(header_) \ Live
        BY <1>1, <3>1, SlotFound
      <4> QED
        BY <1>3, <4>1 DEF Live, UsedSlots
    <3> QED
      BY <3>1
  <2> DEFINE H == HeaderWithSlot
             n == header_.num_slots
  <2>2. /\ H.num_slots = n + 1 /\ H.num_free_slots = 1
        /\ H.free_space_upper_bound = header_.free_space_upper_bound
        /\ H.free_space_lower_bound = Start(n + 2)
        /\ IsHeader(H)
    BY <1>1, <2>1, SlotAdded
  <2>3. /\ Len(r) <= H.free_space_upper_bound - H.free_space_lower_bound /\ Len(r) \in Nat
        /\ header_.free_space_upper_bound \in 0 .. DATA_SIZE /\ n \in Nat
    BY <1>1, <1>3, SpaceFacts, RecordFacts, SoundFacts
  <2> HIDE DEF H, n
  <2>4. /\ H.free_space_lower_bound \in 0 .. DATA_SIZE
        /\ H.free_space_lower_bound <= H.free_space_upper_bound
        /\ H.free_space_upper_bound \in 0 .. DATA_SIZE
    <3>1. H.free_space_lower_bound \in Nat
      BY <2>2 DEF IsHeader
    <3> QED
      BY <2>2, <2>3, <3>1, SizeAssumption
  <2>5. n + 1 <= DATA_SIZE
    <3>1. n + 1 \in Nat /\ n + 1 + 1 = n + 2
      BY <2>3
    <3>2. Start(n + 1 + 1) <= DATA_SIZE
      BY <2>2, <2>4, <3>1, SizeAssumption
    <3> QED
      BY <3>1, <3>2, SlotsWithin
  <2>6. H.num_slots \in 0 .. DATA_SIZE /\ H.num_free_slots \in 0 .. DATA_SIZE
    BY <2>2, <2>3, <2>5, SizeAssumption
  <2>7. H \in [free_space_lower_bound : 0 .. DATA_SIZE, free_space_upper_bound : 0 .. DATA_SIZE,
               num_slots : 0 .. DATA_SIZE, num_free_slots : 0 .. DATA_SIZE]
    BY <2>2, <2>4, <2>6 DEF IsHeader
  <2>8. TypeOK'
    BY <1>3, <2>4, <2>7 DEF TypeOK, IInv, H
  <2> QED
    BY <1>3, <2>8 DEF IInv, IterationComplete, Running, Ended
<1>4. CASE /\ hasSpaceForRecord(r) /\ ~Used(data_, i)
           /\ header_' = HeaderFilled(HeaderWithSlot, r)
           /\ data_' = Filled(HeaderWithSlot, data_, i, r)
           /\ Ended("insertRecord", "ok")
           /\ UNCHANGED <<current, due>>
  <2>1. /\ Sound(HeaderWithSlot, data_) /\ UsedSlots(HeaderWithSlot, data_) = Live
        /\ i \in Array(HeaderWithSlot) \ Live
    BY <1>1, <1>4, WithSlotSound
  <2>2. Len(r) <= HeaderWithSlot.free_space_upper_bound - HeaderWithSlot.free_space_lower_bound
    BY <1>1, <1>4, SpaceFacts
  <2> HIDE DEF i
  <2>3. Sound(header_', data_') /\ Live' = Live \cup {i}
    BY <1>4, <2>1, <2>2, FilledSound, FilledSlots DEF Live
  <2>4. header_'.num_slots = HeaderWithSlot.num_slots
    BY <1>4, <2>1 DEF HeaderFilled, Sound, IsHeader
  <2>5. HeaderWithSlot.num_slots \in Live \cup {i, 0}
    <3>1. CASE header_.num_free_slots > 0
      BY <1>1, <3>1, SlotFound DEF InOrder
    <3>2. CASE ~(header_.num_free_slots > 0)
      BY <1>1, <3>2, SlotAdded DEF i
    <3> QED
      BY <3>1, <3>2
  <2>6. InOrder'
    BY <1>1, <1>4, <2>3, <2>4, <2>5 DEF InOrder
  <2>7. IterationComplete' /\ current' \in SlotId \cup {INVALID_SLOT}
    BY <1>4 DEF IterationComplete, IInv, TypeOK
  <2> QED
    BY <2>6, <2>7, StillInOrder
<1> QED
  BY <1>2, <1>3, <1>4 DEF InsertRecord

LEMMA NoRecordOrder ==
    ASSUME IInv, Running, NEW op, NEW i, NoRecord(op, i)
    PROVE  IInv'
BY RefusedOrder DEF NoRecord

LEMMA DeleteOrder ==
    ASSUME IInv, NEW i \in SlotId \cup {Elsewhere}, DeleteRecord(i)
    PROVE  IInv'
<1>1. Running /\ InOrder /\ Sound(header_, data_)
  BY DEF DeleteRecord, IInv, InOrder
<1>2. CASE /\ IsRecord(i) /\ ~MovesSlots(i)
           /\ data_' = Closed(i)
           /\ header_' = IF i = header_.num_slots
                         THEN Compacted(HeaderClosed(i), Closed(i))
                         ELSE HeaderClosed(i)
           /\ due' = due \ {i}
           /\ UNCHANGED current
  <2>1. i \in Live
    BY <1>1, <1>2, RecordIsLive
  <2>2. /\ Sound(HeaderClosed(i), Closed(i))
        /\ UsedSlots(HeaderClosed(i), Closed(i)) = Live \ {i}
    BY <1>1, <1>2, <2>1, ClosedSound, ClosedSlots
  <2>3. /\ Sound(header_', data_') /\ Live' = Live \ {i}
        /\ header_'.num_slots \in Live' \cup {0}
    <3>1. CASE i = header_.num_slots
      <4>1. header_' = Compacted(HeaderClosed(i), Closed(i)) /\ data_' = Closed(i)
        BY <1>2, <3>1
      <4> QED
        BY <2>2, <4>1, CompactedSound DEF Live
    <3>2. CASE i # header_.num_slots
      <4>1. header_' = HeaderClosed(i) /\ data_' = Closed(i)
        BY <1>2, <3>2
      <4>2. header_'.num_slots = header_.num_slots
        BY <1>1, <4>1 DEF HeaderClosed, Sound, IsHeader
      <4> QED
        BY <1>1, <2>2, <3>2, <4>1, <4>2 DEF Live, InOrder
    <3> QED
      BY <3>1, <3>2
  <2>4. InOrder'
    BY <1>1, <1>2, <2>3 DEF InOrder
  <2>5. IterationComplete' /\ current' \in SlotId \cup {INVALID_SLOT}
    BY <1>2 DEF IterationComplete, IInv, TypeOK
  <2> QED
    BY <2>4, <2>5, StillInOrder
<1>3. CASE Refused("deleteRecord", "undefined")
  BY <1>1, <1>3, RefusedOrder
<1>4. CASE NoRecord("deleteRecord", i)
  BY <1>1, <1>4, NoRecordOrder
<1> QED
  BY <1>2, <1>3, <1>4 DEF DeleteRecord

(* The slot of a record that is updated is free in between, and there is   *)
(* space for what is put there.                                            *)
LEMMA ClosedSpace ==
    ASSUME Sound(header_, data_), NEW i \in Live, NEW r \in Record,
           Len(r) <= getFreeSpace + Slot(i).item_length
    PROVE  LET H == HeaderClosed(i) IN Len(r) <= H.free_space_upper_bound - H.free_space_lower_bound
<1>1. /\ header_.free_space_upper_bound \in Nat /\ header_.free_space_lower_bound \in Nat
      /\ Slot(i).item_length \in Nat /\ Len(r) \in Nat
  BY SoundFacts, LiveFacts, RecordFacts
<1>2. /\ HeaderClosed(i).free_space_upper_bound = header_.free_space_upper_bound + Slot(i).item_length
      /\ HeaderClosed(i).free_space_lower_bound = header_.free_space_lower_bound
  BY DEF HeaderClosed, Sound, IsHeader
<1> QED
  BY <1>1, <1>2 DEF getFreeSpace

LEMMA UpdateOrder ==
    ASSUME IInv, NEW i \in SlotId \cup {Elsewhere}, NEW r \in Record, UpdateRecord(i, r)
    PROVE  IInv'
<1>1. Running /\ InOrder /\ Sound(header_, data_)
  BY DEF UpdateRecord, IInv, InOrder
<1>2. CASE /\ IsRecord(i)
           /\ Len(r) <= getFreeSpace + Slot(i).item_length
           /\ ~MovesSlots(i)
           /\ header_' = HeaderFilled(HeaderClosed(i), r)
           /\ data_' = Filled(HeaderClosed(i), Closed(i), i, r)
           /\ UNCHANGED <<current, due>>
  <2>1. i \in Live
    BY <1>1, <1>2, RecordIsLive
  <2>2. /\ Sound(HeaderClosed(i), Closed(i))
        /\ UsedSlots(HeaderClosed(i), Closed(i)) = Live \ {i}
        /\ Array(HeaderClosed(i)) = Array(header_)
    BY <1>1, <1>2, <2>1, ClosedSound, ClosedSlots
  <2>3. i \in Array(HeaderClosed(i)) \ UsedSlots(HeaderClosed(i), Closed(i))
    BY <1>1, <2>1, <2>2, LiveFacts
  <2> DEFINE H == HeaderClosed(i)
             M == Closed(i)
  <2>4. Len(r) <= H.free_space_upper_bound - H.free_space_lower_bound
    BY <1>1, <1>2, <2>1, ClosedSpace
  <2>5. header_' = HeaderFilled(H, r) /\ data_' = Filled(H, M, i, r)
    BY <1>2
  <2>6. H.num_slots = header_.num_slots
    BY <1>1 DEF HeaderClosed, Sound, IsHeader
  <2> HIDE DEF H, M
  <2>7. /\ Sound(header_', data_')
        /\ Live' = UsedSlots(H, M) \cup {i}
    BY <2>2, <2>3, <2>4, <2>5, FilledSound, FilledSlots DEF Live, H, M
  <2>8. Live' = Live
    BY <2>1, <2>2, <2>7 DEF H, M
  <2>9. header_'.num_slots = header_.num_slots
    <3>1. IsHeader(H)
      BY <2>2 DEF Sound, H
    <3> QED
      BY <2>5, <2>6, <3>1 DEF HeaderFilled, IsHeader
  <2>10. InOrder'
    BY <1>1, <1>2, <2>7, <2>8, <2>9 DEF InOrder
  <2>11. IterationComplete' /\ current' \in SlotId \cup {INVALID_SLOT}
    BY <1>2 DEF IterationComplete, IInv, TypeOK
  <2> QED
    BY <2>10, <2>11, StillInOrder
<1>3. CASE \E res : Refused("updateRecord", res)
  BY <1>1, <1>3, RefusedOrder
<1>4. CASE NoRecord("updateRecord", i)
  BY <1>1, <1>4, NoRecordOrder
<1> QED
  BY <1>2, <1>3, <1>4 DEF UpdateRecord

(* The iterator goes to the next record, and what is due lies beyond. *)
LEMMA MoveOrder ==
    ASSUME IInv, NEW start, NEW rest, rest \subseteq After(start), MoveFrom(start, rest)
    PROVE  IInv'
<1>1. /\ Running /\ InOrder /\ Sound(header_, data_)
      /\ current' = NextUsedSlot(start) /\ due' = rest \ {current'}
      /\ UNCHANGED <<header_, data_, outcome>>
  BY DEF MoveFrom, IInv, InOrder
<1>2. After(start) \subseteq Live
  BY DEF After
<1>3. InOrder'
  BY <1>1, <1>2 DEF InOrder, Live
<1>4. \A i \in Live : i \in Nat \ {0} /\ i \in SlotId
  BY <1>1, LiveFacts, SoundFacts
<1>5. CASE After(start) = {}
  BY <1>1, <1>3, <1>5, StillInOrder DEF NextUsedSlot, IterationComplete
<1>6. CASE After(start) # {}
  <2>1. After(start) \in SUBSET Nat
    BY <1>2, <1>4
  <2>2. Least(After(start)) \in After(start) /\ \A i \in After(start) : Least(After(start)) <= i
    BY <1>6, <2>1, LeastNumber
  <2>3. current' = Least(After(start))
    BY <1>1, <1>6 DEF NextUsedSlot
  <2>4. current' \in SlotId /\ current' \in Nat \ {0}
    BY <1>2, <1>4, <2>2, <2>3
  <2>5. ASSUME NEW i \in due' PROVE i > current'
    <3>1. i \in Nat /\ i # current' /\ current' <= i
      BY <1>1, <2>1, <2>2, <2>3
    <3> QED
      BY <2>4, <3>1
  <2>6. IterationComplete'
    BY <2>4, <2>5 DEF IterationComplete, INVALID_SLOT
  <2> QED
    BY <1>3, <2>4, <2>6, StillInOrder
<1> QED
  BY <1>5, <1>6

LEMMA StepOrder ==
    ASSUME IInv, [Next]_vars
    PROVE  IInv'
<1>1. CASE UNCHANGED vars
  BY <1>1 DEF vars, IInv, TypeOK, IterationComplete, InOrder, Running, Live
<1>2. ASSUME NEW i \in SlotId \cup {Elsewhere}, GetRecord(i) PROVE IInv'
  BY <1>2, RefusedOrder, NoRecordOrder DEF GetRecord
<1>3. CASE Begin
  <2>1. Running
    BY <1>3 DEF Begin, MoveFrom
  <2>2. Live \subseteq After(INVALID_SLOT)
    BY <2>1, LiveFacts DEF IInv, InOrder, After, INVALID_SLOT
  <2> QED
    BY <1>3, <2>2, MoveOrder DEF Begin
<1>4. CASE Advance
  <2>1. Running
    BY <1>4 DEF Advance, MoveFrom
  <2>2. InOrder
    BY <2>1 DEF IInv
  <2>3. CASE current = INVALID_SLOT
    <3>1. Live \subseteq After(current)
      BY <2>2, <2>3, LiveFacts DEF InOrder, After, INVALID_SLOT
    <3> QED
      BY <1>4, <2>3, <3>1, MoveOrder DEF Advance
  <2>4. CASE current # INVALID_SLOT
    <3>1. due \subseteq After(current)
      BY <2>2 DEF InOrder, IInv, IterationComplete, After
    <3> QED
      BY <1>4, <2>4, <3>1, MoveOrder DEF Advance
  <2> QED
    BY <2>3, <2>4
<1> QED
  BY <1>1, <1>2, <1>3, <1>4, InsertOrder, UpdateOrder, DeleteOrder DEF Next

LEMMA Invariance == Spec => []IInv
BY InitOrder, StepOrder, PTL DEF Spec

-----------------------------------------------------------------------------
(* The header stays within the page and the bounds in it do not cross.     *)
THEOREM TypeCorrect == Spec => []TypeOK
<1>1. IInv => TypeOK
  BY DEF IInv
<1> QED
  BY <1>1, Invariance, PTL

(* A loop over a page comes to every record that is there all the while.   *)
THEOREM IteratesOverAll == Spec => []IterationComplete
<1>1. IInv => IterationComplete
  BY DEF IInv
<1> QED
  BY <1>1, Invariance, PTL

(* No space is lost and no two records share any, whatever is inserted,    *)
(* updated and deleted, until insertRecord throws SlotInUseException or    *)
(* bytes are taken for slots.                                              *)
THEOREM LayoutTrue == Spec => []LayoutExact
<1>1. ASSUME IInv, Running
      PROVE  /\ header_.num_free_slots = Cardinality(Array(header_) \ Live)
             /\ header_.free_space_lower_bound = SLOT_SIZE * header_.num_slots
             /\ header_.num_slots \in Live \cup {0}
  BY <1>1, SlotPlaces DEF IInv, InOrder, Sound, IsHeader, Live
<1>2. ASSUME IInv, Running
      PROVE  /\ \A i, j \in Live : i # j => Cells(Slot(i)) \cap Cells(Slot(j)) = {}
             /\ UNION {Cells(Slot(i)) : i \in Live}
                  = header_.free_space_upper_bound .. DATA_SIZE - 1
  <2> DEFINE upper == header_.free_space_upper_bound
             S == SlotsOf(header_, data_)
  <2>1. Sound(header_, data_)
    BY <1>2 DEF IInv, InOrder
  <2>2. \A i \in Live : S[i] = Slot(i)
    BY DEF SlotsOf, Slot, Live
  <2>3. Tiling(Live, S, upper)
    BY <2>1 DEF Sound, Live
  <2>4. \A i \in Live :
           /\ Slot(i).item_offset \in Nat /\ Slot(i).item_length \in Nat
           /\ Slot(i).item_offset + Slot(i).item_length <= DATA_SIZE
           /\ Slot(i).item_length # 0 => upper <= Slot(i).item_offset
    BY <2>1, LiveFacts
  <2>5. upper \in Nat
    BY <2>1, SoundFacts
  <2> HIDE DEF S, upper
  <2>6. ASSUME NEW i \in Live, NEW j \in Live, i # j, NEW c \in Cells(Slot(i)), c \in Cells(Slot(j))
        PROVE  FALSE
    <3>1. Slot(i).item_length # 0 /\ Slot(j).item_length # 0
      BY <2>4, <2>6 DEF Cells
    <3>2. LeftOf(Slot(i), Slot(j)) \/ LeftOf(Slot(j), Slot(i))
      BY <2>2, <2>3, <2>6, <3>1 DEF Tiling
    <3> QED
      BY <2>4, <2>6, <3>2 DEF LeftOf, Cells
  <2>7. ASSUME NEW i \in Live, NEW c \in Cells(Slot(i))
        PROVE  c \in upper .. DATA_SIZE - 1
    BY <2>4, <2>5, <2>7, SizeAssumption DEF Cells
  <2>8. ASSUME NEW c \in upper .. DATA_SIZE - 1
        PROVE  \E i \in Live : c \in Cells(Slot(i))
    <3>1. PICK i \in Live : Covers(Slot(i), c)
      BY <2>2, <2>3 DEF Tiling
    <3>2. c \in Cells(Slot(i))
      BY <2>4, <2>5, <3>1, SizeAssumption DEF Covers, Cells
    <3> QED
      BY <3>2
  <2> QED
    BY <2>6, <2>7, <2>8 DEF upper
<1>3. IInv => LayoutExact
  BY <1>1, <1>2 DEF LayoutExact
<1> QED
  BY <1>3, Invariance, PTL
-----------------------------------------------------------------------------
(* The slotted page implements PageRecords. *)

(* The records of a page, each under the number of its slot. *)
Contents(hdr, mem) == [i \in UsedSlots(hdr, mem) |-> ContentOf(mem, i)]

LEMMA ContentFacts ==
    ASSUME NEW hdr, NEW mem, Sound(hdr, mem), NEW i \in UsedSlots(hdr, mem)
    PROVE  Len(ContentOf(mem, i)) = mem[Start(i)].item_length
<1>1. mem[Start(i)].item_length \in Nat
  BY SoundFacts
<1> QED
  BY <1>1 DEF ContentOf

(* A slot in use locates a record, and so the numbers of the records are   *)
(* those of the slots in use.                                              *)
RecordsNow ==
    [i \in {j \in Array(header_) : Used(data_, j) /\ IsSlot(data_, j)} |-> RecordIn(Slot(i))]

LEMMA SlotsInUse ==
    ASSUME NEW hdr, NEW mem, Sound(hdr, mem)
    PROVE  {j \in Array(hdr) : Used(mem, j) /\ IsSlot(mem, j)} = UsedSlots(hdr, mem)
<1>1. \A j \in UsedSlots(hdr, mem) : mem[Start(j)] \in PageSlot
  BY SoundFacts
<1> QED
  BY <1>1, NoByteIsSlot DEF UsedSlots, IsSlot

LEMMA RecordsAre ==
    /\ Sound(header_, data_) => RecordsNow = Contents(header_, data_)
    /\ Sound(header_', data_') => RecordsNow' = Contents(header_', data_')
BY SlotsInUse DEF RecordsNow, Contents, ContentOf, RecordIn, Slot

(* The records have as many bytes as there are cells from the upper bound  *)
(* to the end of the page.                                                 *)
LEMMA BytesCount ==
    ASSUME NEW hdr, NEW mem, Sound(hdr, mem)
    PROVE  LET B == Records!Bytes(Contents(hdr, mem)) IN
           IsFiniteSet(B) /\ Cardinality(B) = DATA_SIZE - hdr.free_space_upper_bound
<1> USE SizeAssumption
<1> DEFINE B == Records!Bytes(Contents(hdr, mem))
           U == UsedSlots(hdr, mem)
           upper == hdr.free_space_upper_bound
           off(i) == mem[Start(i)].item_offset
           len(i) == mem[Start(i)].item_length
           cells == upper .. DATA_SIZE - 1
           cell == [b \in B |-> off(b[1]) + b[2] - 1]
<1>1. B = UNION {{i} \X (1 .. len(i)) : i \in U}
  BY ContentFacts DEF Records!Bytes, Contents
<1>2. /\ upper \in 0 .. DATA_SIZE
      /\ \A i \in U : /\ off(i) \in 0 .. DATA_SIZE /\ len(i) \in 0 .. DATA_SIZE
                      /\ off(i) + len(i) <= DATA_SIZE
                      /\ len(i) # 0 => upper <= off(i)
  BY SoundFacts
<1>3. /\ \A i, j \in U : i # j /\ len(i) # 0 /\ len(j) # 0 =>
             off(i) + len(i) <= off(j) \/ off(j) + len(j) <= off(i)
      /\ \A c \in cells : \E i \in U : off(i) <= c /\ c < off(i) + len(i)
  BY DEF Sound, Tiling, SlotsOf, LeftOf, Covers
<1> HIDE DEF B, U, upper, off, len
<1>4. \A b \in B : b[1] \in U /\ b[2] \in 1 .. len(b[1]) /\ b = <<b[1], b[2]>>
  BY <1>1
<1>5. \A i \in U : \A k \in 1 .. len(i) : <<i, k>> \in B
  BY <1>1
<1>6. ASSUME NEW b \in B PROVE cell[b] \in cells
  <2>1. b[1] \in U /\ b[2] \in 1 .. len(b[1])
    BY <1>4
  <2> DEFINE o == off(b[1])
             l == len(b[1])
             k == b[2]
  <2>2. o \in 0 .. DATA_SIZE /\ l \in 0 .. DATA_SIZE /\ k \in 1 .. l /\ o + l <= DATA_SIZE
        /\ upper \in 0 .. DATA_SIZE /\ (l # 0 => upper <= o)
    BY <1>2, <2>1
  <2> HIDE DEF o, l, k
  <2>3. o + k - 1 \in upper .. DATA_SIZE - 1
    BY <2>2
  <2> QED
    BY <2>3 DEF o, k
<1>7. ASSUME NEW a \in B, NEW b \in B, cell[a] = cell[b] PROVE a = b
  <2>1. /\ a[1] \in U /\ a[2] \in 1 .. len(a[1]) /\ a = <<a[1], a[2]>>
        /\ b[1] \in U /\ b[2] \in 1 .. len(b[1]) /\ b = <<b[1], b[2]>>
    BY <1>4
  <2>2. off(a[1]) + a[2] - 1 = off(b[1]) + b[2] - 1
    BY <1>7
  <2> DEFINE i == a[1]
             j == b[1]
             k == a[2]
             m == b[2]
  <2> HIDE DEF i, j, k, m
  <2>3. /\ i \in U /\ k \in 1 .. len(i) /\ j \in U /\ m \in 1 .. len(j)
        /\ off(i) + k - 1 = off(j) + m - 1
    BY <2>1, <2>2 DEF i, j, k, m
  <2>4. /\ off(i) \in Nat /\ len(i) \in Nat /\ off(j) \in Nat /\ len(j) \in Nat
        /\ len(i) # 0 /\ len(j) # 0
    BY <1>2, <2>3
  <2>5. i = j
    BY <1>3, <2>3, <2>4
  <2>6. k = m
    BY <2>3, <2>4, <2>5
  <2> QED
    BY <2>1, <2>5, <2>6 DEF i, j, k, m
<1>8. ASSUME NEW c \in cells PROVE \E b \in B : cell[b] = c
  <2>1. PICK i \in U : off(i) <= c /\ c < off(i) + len(i)
    BY <1>3
  <2> DEFINE k == c - off(i) + 1
  <2>2. k \in 1 .. len(i) /\ off(i) + k - 1 = c
    BY <1>2, <2>1
  <2> HIDE DEF k
  <2>3. <<i, k>> \in B /\ <<i, k>>[1] = i /\ <<i, k>>[2] = k
    BY <1>5, <2>2
  <2>4. cell[<<i, k>>] = c
    BY <2>2, <2>3
  <2> QED
    BY <2>3, <2>4
<1>9. cell \in [B -> cells]
  BY <1>6
<1>10. cell \in Bijection(B, cells)
  <2> HIDE DEF cell, cells
  <2> QED
    BY <1>7, <1>8, <1>9, Fun_IsBij
<1>11. ExistsBijection(cells, B)
  BY <1>10, Fun_BijInverse DEF ExistsBijection
<1>12. IsFiniteSet(cells) /\ Cardinality(cells) = DATA_SIZE - upper
  <2>1. /\ upper \in Int /\ DATA_SIZE - 1 \in Int
        /\ (IF upper > DATA_SIZE - 1 THEN 0 ELSE DATA_SIZE - 1 - upper + 1) = DATA_SIZE - upper
    BY <1>2
  <2> QED
    BY <2>1, FS_Interval
<1> HIDE DEF cells
<1>13. IsFiniteSet(B) /\ Cardinality(B) = DATA_SIZE - upper
  BY <1>11, <1>12, FS_Bijection
<1> QED
  BY <1>13 DEF B, upper

(* Both modules count with the operator of FiniteSets. *)
LEMMA CountedAlike ==
    ASSUME NEW S
    PROVE  Records!Cardinality(S) = Cardinality(S)
BY DEF Records!Cardinality, Cardinality

LEMMA PlacesCount ==
    ASSUME NEW i, NEW n \in Nat
    PROVE  IsFiniteSet({i} \X (1 .. n)) /\ Cardinality({i} \X (1 .. n)) = n
<1>1. IsFiniteSet({i}) /\ Cardinality({i}) = 1
  BY FS_Singleton
<1>2. IsFiniteSet(1 .. n) /\ Cardinality(1 .. n) = n
  BY UpToSize
<1>3. /\ IsFiniteSet({i} \X (1 .. n))
      /\ Cardinality({i} \X (1 .. n)) = Cardinality({i}) * Cardinality(1 .. n)
  BY <1>1, <1>2, FS_Product
<1> QED
  BY <1>1, <1>2, <1>3

(* What a page holds with r under the number i. *)
Put(recs, i, r) == [j \in DOMAIN recs \cup {i} |-> IF j = i THEN r ELSE recs[j]]

LengthAt(hdr, mem, i) ==
    IF i \in UsedSlots(hdr, mem) THEN mem[Start(i)].item_length ELSE 0

LEMMA PutCount ==
    ASSUME NEW hdr, NEW mem, Sound(hdr, mem), NEW i, NEW r \in Record
    PROVE  Cardinality(Records!Bytes(Put(Contents(hdr, mem), i, r)))
             = DATA_SIZE - hdr.free_space_upper_bound - LengthAt(hdr, mem, i) + Len(r)
<1> DEFINE C == Contents(hdr, mem)
           U == UsedSlots(hdr, mem)
           B == Records!Bytes(C)
           P == Records!Bytes(Put(C, i, r))
           len == LengthAt(hdr, mem, i)
           old == {i} \X (1 .. len)
           new == {i} \X (1 .. Len(r))
<1>1. IsFiniteSet(B) /\ Cardinality(B) = DATA_SIZE - hdr.free_space_upper_bound
  BY BytesCount
<1>2. len \in Nat /\ Len(r) \in Nat /\ hdr.free_space_upper_bound \in 0 .. DATA_SIZE
  BY SoundFacts, RecordFacts DEF LengthAt
<1>3. /\ IsFiniteSet(old) /\ Cardinality(old) = len
      /\ IsFiniteSet(new) /\ Cardinality(new) = Len(r)
  BY <1>2, PlacesCount
<1>4. DOMAIN C = U /\ \A j \in U : Len(C[j]) = LengthAt(hdr, mem, j)
  BY ContentFacts DEF Contents, LengthAt
<1>5. old \subseteq B
  <2>1. CASE i \in U
    BY <1>4, <2>1 DEF Records!Bytes
  <2>2. CASE i \notin U
    BY <2>2 DEF LengthAt
  <2> QED
    BY <2>1, <2>2
<1>6. P = (B \ old) \cup new
  <2> HIDE DEF C, U
  <2>1. P = UNION {{j} \X (1 .. Len(Put(C, i, r)[j])) : j \in U \cup {i}}
    BY <1>4 DEF Records!Bytes, Put
  <2>2. \A j \in U \cup {i} : Put(C, i, r)[j] = IF j = i THEN r ELSE C[j]
    BY <1>4 DEF Put
  <2>3. B = UNION {{j} \X (1 .. Len(C[j])) : j \in U}
    BY <1>4 DEF Records!Bytes
  <2> HIDE DEF B, P
  <2>4. ASSUME NEW b \in P PROVE b \in (B \ old) \cup new
    BY <2>1, <2>2, <2>3, <2>4
  <2>5. ASSUME NEW b \in new PROVE b \in P
    BY <2>1, <2>2, <2>5
  <2>6. ASSUME NEW b \in B, b \notin old PROVE b \in P
    <3>1. PICK j \in U : b \in {j} \X (1 .. Len(C[j]))
      BY <2>3, <2>6
    <3>2. j # i
      BY <1>4, <2>6, <3>1
    <3> QED
      BY <2>1, <2>2, <3>1, <3>2
  <2> QED
    BY <2>4, <2>5, <2>6
<1>7. (B \ old) \cap new = {} /\ B \cap old = old
  <2>1. ASSUME NEW b \in (B \ old) \cap new PROVE FALSE
    <3>1. b \in B /\ b \notin old /\ b[1] = i /\ b[2] \in 1 .. Len(r) /\ b = <<i, b[2]>>
      BY <2>1
    <3>2. PICK j \in U : b \in {j} \X (1 .. Len(C[j]))
      BY <1>4, <3>1 DEF Records!Bytes
    <3> QED
      BY <1>4, <3>1, <3>2
  <2> QED
    BY <1>5, <2>1
<1> HIDE DEF B, old, new, P, len
<1>8. IsFiniteSet(B \ old) /\ Cardinality(B \ old) = Cardinality(B) - len
  <2>1. Cardinality(B \cap old) = Cardinality(old)
    BY <1>7
  <2>2. /\ IsFiniteSet(B \ old)
        /\ Cardinality(B \ old) = Cardinality(B) - Cardinality(B \cap old)
    BY <1>1, FS_Difference
  <2> QED
    BY <1>3, <2>1, <2>2
<1>9. Cardinality((B \ old) \cup new) = Cardinality(B \ old) + Len(r)
  <2>1. Cardinality((B \ old) \cap new) = 0
    BY <1>7, FS_EmptySet
  <2>2. Cardinality(B \ old) \in Nat
    BY <1>8, FS_CardinalityType
  <2>3. Cardinality((B \ old) \cup new)
          = Cardinality(B \ old) + Cardinality(new) - Cardinality((B \ old) \cap new)
    BY <1>3, <1>8, FS_Union
  <2> QED
    BY <1>2, <1>3, <2>1, <2>2, <2>3
<1>10. Cardinality(P) = DATA_SIZE - hdr.free_space_upper_bound - len + Len(r)
  BY <1>1, <1>2, <1>6, <1>8, <1>9, SizeAssumption
<1> QED
  BY <1>10 DEF P, len

LEMMA HighestIs ==
    ASSUME NEW S \in SUBSET Nat, NEW m \in S \cup {0}, \A k \in S : k <= m
    PROVE  Records!Highest(S) = m
<1>1. m \in Nat /\ \A k \in S \cup {0} : m >= k
  OBVIOUS
<1>2. \A x \in S \cup {0} : (\A k \in S \cup {0} : x >= k) => x = m
  BY <1>1
<1> QED
  BY <1>1, <1>2 DEF Records!Highest, Records!Max

-----------------------------------------------------------------------------
(* What the page looks at is what PageRecords speaks of: the lowest number *)
(* that is free, the highest in use, and whether a record fits.            *)

LEMMA SameRecords ==
    ASSUME Sound(header_, data_)
    PROVE  /\ Records!Live = Live
           /\ \A i, r : Records!With(i, r) = Put(Contents(header_, data_), i, r)
<1>1. Records!Live = Live
  BY SlotsInUse DEF Records!Live, Live
<1>2. RecordsNow = Contents(header_, data_) /\ DOMAIN RecordsNow = Live
  BY RecordsAre DEF Contents, Live
<1>3. ASSUME NEW i, NEW r
      PROVE  Records!With(i, r) = [j \in Live \cup {i} |-> IF j = i THEN r ELSE RecordsNow[j]]
  BY <1>1 DEF Records!With, RecordsNow
<1> QED
  BY <1>1, <1>2, <1>3 DEF Put

LEMMA SlotIsLowest ==
    ASSUME InOrder
    PROVE  AvailableSlot = Records!Lowest
<1> DEFINE n == header_.num_slots
           T == (1 .. Cardinality(Live) + 1) \ Live
           a == AvailableSlot
<1>0. Sound(header_, data_)
  BY DEF InOrder
<1>1. Records!Lowest = CHOOSE x \in T : \A y \in T : x <= y
  BY <1>0, SameRecords, CountedAlike DEF Records!Lowest, Records!Min
<1>2. n \in Nat /\ IsFiniteSet(Live) /\ Live \subseteq 1 .. n
  <2>1. n \in Nat /\ Live \subseteq 1 .. n
    BY <1>0, SoundFacts, LiveFacts DEF Array
  <2>2. IsFiniteSet(1 .. n)
    BY <2>1, UpToSize
  <2> QED
    BY <2>1, <2>2, FS_Subset
<1>3. Cardinality(Live) \in Nat
  BY <1>2, FS_CardinalityType
<1>4. a \in T /\ \A y \in T : a <= y
  <2>1. CASE header_.num_free_slots > 0
    <3>1. a \in (1 .. n) \ Live /\ \A y \in (1 .. n) \ Live : a <= y
      BY <1>0, <2>1, SlotFound DEF Array
    <3> HIDE DEF a, n
    <3>2. \A y \in Nat \ {0} : y \notin Live => a <= y
      BY <1>2, <3>1
    <3>3. a - 1 \in Nat /\ 1 .. a - 1 \subseteq Live
      BY <1>2, <3>1
    <3>4. a - 1 <= Cardinality(Live)
      <4>1. Cardinality(1 .. a - 1) = a - 1
        BY <3>3, UpToSize
      <4> QED
        BY <1>2, <3>3, <4>1, FS_Subset
    <3> QED
      BY <1>2, <1>3, <3>1, <3>2, <3>4
  <2>2. CASE ~(header_.num_free_slots > 0)
    <3>1. a = n + 1 /\ Live = 1 .. n
      BY <1>0, <2>2, SlotAdded DEF Array
    <3>2. Cardinality(Live) = n
      BY <1>2, <3>1, UpToSize
    <3> HIDE DEF n
    <3> QED
      BY <1>2, <3>1, <3>2
  <2> QED
    BY <2>1, <2>2
<1>5. T \in SUBSET Nat
  BY <1>3
<1> HIDE DEF T, a
<1>6. \A x \in T : (\A y \in T : x <= y) => x = a
  BY <1>4, <1>5
<1> QED
  BY <1>1, <1>4, <1>6 DEF a

LEMMA SlotsAreHighest ==
    ASSUME InOrder
    PROVE  /\ Records!Highest(Live) = header_.num_slots
           /\ Records!Highest(Live \cup {AvailableSlot}) = HeaderWithSlot.num_slots
<1> DEFINE n == header_.num_slots
           a == AvailableSlot
<1>1. Sound(header_, data_) /\ n \in Nat /\ n \in Live \cup {0}
  BY SoundFacts DEF InOrder
<1>2. Live \in SUBSET Nat /\ \A k \in Live : k <= n
  BY <1>1, LiveFacts DEF Array
<1>3. Records!Highest(Live) = n
  BY <1>1, <1>2, HighestIs
<1>4. CASE header_.num_free_slots > 0
  <2>1. a \in 1 .. n /\ HeaderWithSlot = header_
    BY <1>1, <1>4, SlotFound DEF Array
  <2> HIDE DEF a, n
  <2>2. Live \cup {a} \in SUBSET Nat /\ n \in (Live \cup {a}) \cup {0}
        /\ \A k \in Live \cup {a} : k <= n
    BY <1>1, <1>2, <2>1
  <2>3. Records!Highest(Live \cup {a}) = n
    BY <2>2, HighestIs
  <2> QED
    BY <1>3, <2>1, <2>3 DEF a, n
<1>5. CASE ~(header_.num_free_slots > 0)
  <2>1. a = n + 1 /\ HeaderWithSlot.num_slots = n + 1
    BY <1>1, <1>5, SlotAdded
  <2> HIDE DEF a, n
  <2>2. Live \cup {a} \in SUBSET Nat /\ n + 1 \in (Live \cup {a}) \cup {0}
        /\ \A k \in Live \cup {a} : k <= n + 1
    BY <1>1, <1>2, <2>1
  <2>3. Records!Highest(Live \cup {a}) = n + 1
    BY <2>2, HighestIs
  <2> QED
    BY <1>3, <2>1, <2>3 DEF a, n
<1> QED
  BY <1>4, <1>5

LEMMA FitsInsert ==
    ASSUME InOrder, NEW r \in Record
    PROVE  Records!Fits(Records!With(Records!Lowest, r)) <=> hasSpaceForRecord(r)
<1> USE SizeAssumption
<1> DEFINE n == header_.num_slots
           upper == header_.free_space_upper_bound
           lower == header_.free_space_lower_bound
           a == AvailableSlot
           W == Put(Contents(header_, data_), a, r)
<1>1. /\ Sound(header_, data_) /\ n \in Nat /\ upper \in Nat /\ Len(r) \in Nat
      /\ header_.num_free_slots \in Nat
      /\ lower = SLOT_SIZE * n
  <2>1. Sound(header_, data_) /\ IsHeader(header_) /\ lower = Start(n + 1) /\ n \in Nat
    BY DEF InOrder, Sound, IsHeader
  <2>2. SLOT_SIZE * n = Start(n + 1)
    BY <2>1, SlotPlaces
  <2> QED
    BY <2>1, <2>2, RecordFacts DEF IsHeader
<1>2. a \notin Live
  <2>1. CASE header_.num_free_slots > 0
    BY <1>1, <2>1, SlotFound
  <2>2. CASE ~(header_.num_free_slots > 0)
    <3>1. a = n + 1 /\ Live = 1 .. n
      BY <1>1, <2>2, SlotAdded DEF Array
    <3> HIDE DEF n, a
    <3> QED
      BY <1>1, <3>1
  <2> QED
    BY <2>1, <2>2
<1>3. Cardinality(Records!Bytes(W)) = DATA_SIZE - upper + Len(r)
  <2>1. LengthAt(header_, data_, a) = 0
    BY <1>2 DEF LengthAt, Live
  <2>2. Cardinality(Records!Bytes(W)) = DATA_SIZE - upper - LengthAt(header_, data_, a) + Len(r)
    BY <1>1, PutCount
  <2> QED
    BY <1>1, <2>1, <2>2
<1>4. DOMAIN W = Live \cup {a}
  BY DEF Put, Contents, Live
<1>5. Records!Fits(W) <=> DATA_SIZE - upper + Len(r) + SLOT_SIZE * HeaderWithSlot.num_slots <= DATA_SIZE
  <2> HIDE DEF W, a
  <2> QED
    BY <1>3, <1>4, CountedAlike, SlotsAreHighest DEF Records!Fits, a
<1>6. Records!With(Records!Lowest, r) = W
  BY <1>1, SameRecords, SlotIsLowest
<1>7. CASE header_.num_free_slots > 0
  <2>1. HeaderWithSlot.num_slots = n /\ header_.num_free_slots # 0
    BY <1>1, <1>7, SlotFound
  <2>2. hasSpaceForRecord(r) <=> Len(r) <= upper - lower
    BY <1>1, <2>1 DEF hasSpaceForRecord, getFreeSpace
  <2> HIDE DEF W, n, upper, lower
  <2>3. SLOT_SIZE * n \in Nat
    BY <1>1
  <2> QED
    BY <1>1, <1>5, <1>6, <2>1, <2>2, <2>3
<1>8. CASE ~(header_.num_free_slots > 0)
  <2>1. HeaderWithSlot.num_slots = n + 1 /\ header_.num_free_slots = 0
    BY <1>1, <1>8, SlotAdded
  <2>2. hasSpaceForRecord(r) <=> Len(r) + SLOT_SIZE <= upper - lower
    BY <2>1 DEF hasSpaceForRecord, getFreeSpace
  <2> HIDE DEF W, n, upper, lower
  <2>3. SLOT_SIZE * n \in Nat /\ SLOT_SIZE * (n + 1) = SLOT_SIZE * n + SLOT_SIZE
    BY <1>1
  <2> QED
    BY <1>1, <1>5, <1>6, <2>1, <2>2, <2>3
<1> QED
  BY <1>7, <1>8

LEMMA FitsUpdate ==
    ASSUME InOrder, NEW i \in Live, NEW r \in Record
    PROVE  Records!Fits(Records!With(i, r)) <=> Len(r) <= getFreeSpace + Slot(i).item_length
<1> USE SizeAssumption
<1> DEFINE n == header_.num_slots
           upper == header_.free_space_upper_bound
           lower == header_.free_space_lower_bound
           len == Slot(i).item_length
           W == Put(Contents(header_, data_), i, r)
<1>1. /\ Sound(header_, data_) /\ n \in Nat /\ upper \in Nat /\ Len(r) \in Nat /\ len \in Nat
      /\ lower = SLOT_SIZE * n
  <2>1. Sound(header_, data_) /\ IsHeader(header_) /\ lower = Start(n + 1) /\ n \in Nat
    BY DEF InOrder, Sound, IsHeader
  <2>2. SLOT_SIZE * n = Start(n + 1)
    BY <2>1, SlotPlaces
  <2> QED
    BY <2>1, <2>2, RecordFacts, LiveFacts DEF IsHeader
<1>2. Cardinality(Records!Bytes(W)) = DATA_SIZE - upper - len + Len(r)
  <2>1. LengthAt(header_, data_, i) = len
    BY DEF LengthAt, Live, Slot
  <2> QED
    BY <1>1, <2>1, PutCount
<1>3. DOMAIN W = Live
  BY DEF Put, Contents, Live
<1>4. Records!Fits(W) <=> DATA_SIZE - upper - len + Len(r) + SLOT_SIZE * n <= DATA_SIZE
  <2> HIDE DEF W
  <2> QED
    BY <1>2, <1>3, CountedAlike, SlotsAreHighest DEF Records!Fits
<1>5. Records!With(i, r) = W
  BY <1>1, SameRecords
<1>6. getFreeSpace = upper - lower
  BY DEF getFreeSpace
<1> HIDE DEF W, n, upper, lower, len
<1>7. SLOT_SIZE * n \in Nat
  BY <1>1
<1>8. Records!Fits(Records!With(i, r)) <=> Len(r) <= getFreeSpace + len
  BY <1>1, <1>4, <1>5, <1>6, <1>7
<1> QED
  BY <1>8 DEF len

-----------------------------------------------------------------------------
(* When no record lies astray in the free space, the cells that move are   *)
(* the records left of the one that goes, and each finds its own again.    *)

LEMMA NothingAstray ==
    ASSUME Sound(header_, data_), ~Stray, NEW i \in Live
    PROVE  /\ ~MovesSlots(i)
           /\ \A j \in Live : header_.free_space_upper_bound <= Slot(j).item_offset
           /\ \A c \in MovedCells(i) : c \in Nat /\ header_.free_space_upper_bound <= c
<1> USE SizeAssumption
<1> DEFINE upper == header_.free_space_upper_bound
           lower == header_.free_space_lower_bound
<1>1. upper \in Nat /\ lower \in Nat /\ lower <= upper
  BY SoundFacts DEF Sound
<1>2. \A j \in Live : Slot(j).item_offset \in Nat
  BY LiveFacts
<1>3. \A j \in Live : upper <= Slot(j).item_offset
  <2> HIDE DEF upper
  <2> QED
    BY <1>1, <1>2 DEF Stray, upper
<1>4. \A c \in MovedCells(i) : c \in Nat /\ upper <= c
  <2>1. CASE move_bytes(i) = 0
    BY <2>1 DEF MovedCells
  <2>2. CASE move_bytes(i) # 0
    <3>1. move_bytes(i) \in Nat /\ move_offset(i) \in Nat /\ upper <= move_offset(i)
      BY <1>3, <2>2, MovedFacts DEF Before
    <3>2. MovedCells(i) = move_offset(i) .. move_offset(i) + move_bytes(i) - 1
      BY <2>2 DEF MovedCells
    <3> HIDE DEF upper
    <3> QED
      BY <1>1, <3>1, <3>2
  <2> QED
    BY <2>1, <2>2
<1>5. ~MovesSlots(i)
  <2> HIDE DEF upper
  <2>1. \A c \in MovedCells(i) : c \notin 0 .. lower - 1
    BY <1>1, <1>4
  <2> QED
    BY <2>1 DEF MovesSlots
<1> QED
  BY <1>3, <1>4, <1>5

LEMMA AllLeftMove ==
    ASSUME Sound(header_, data_), ~Stray, NEW i \in Live, Slot(i).item_length # 0
    PROVE  MovedCells(i) = header_.free_space_upper_bound .. Slot(i).item_offset - 1
<1> USE SizeAssumption
<1> DEFINE upper == header_.free_space_upper_bound
           o == Slot(i).item_offset
           bytes == UNION {Cells(Slot(j)) : j \in Before(i)}
<1>1. \A j \in Live :
         /\ Slot(j).item_offset \in Nat /\ Slot(j).item_length \in Nat
         /\ Slot(j).item_offset + Slot(j).item_length <= DATA_SIZE
         /\ upper <= Slot(j).item_offset
  BY LiveFacts, NothingAstray
<1>2. upper \in Nat /\ o \in Nat /\ upper <= o /\ o <= DATA_SIZE - 1
  <2>1. o + Slot(i).item_length <= DATA_SIZE /\ o \in Nat /\ Slot(i).item_length \in Nat
    BY <1>1
  <2> QED
    BY <1>1, <2>1, SoundFacts
<1>3. /\ \A c \in upper .. DATA_SIZE - 1 :
             \E j \in Live : Slot(j).item_offset <= c /\ c < Slot(j).item_offset + Slot(j).item_length
      /\ \A j \in Live : j # i /\ Slot(j).item_length # 0 =>
             LeftOf(Slot(i), Slot(j)) \/ LeftOf(Slot(j), Slot(i))
  BY DEF Sound, Tiling, SlotsOf, Covers, Live, Slot
<1>4. \A j : j \in Before(i) <=> j \in Live /\ Slot(j).item_offset < o
  BY DEF Before
<1> HIDE DEF upper, o
<1>5. ASSUME NEW c \in bytes PROVE c \in upper .. o - 1
  <2>1. PICK j \in Before(i) : c \in Cells(Slot(j))
    BY <1>5
  <2> DEFINE p == Slot(j).item_offset
             l == Slot(j).item_length
  <2>2. /\ p \in Nat /\ l \in Nat /\ upper <= p /\ p < o
        /\ c \in p .. p + l - 1 /\ j \in Live
    BY <1>1, <1>4, <2>1 DEF Cells
  <2>3. l # 0
    <3> HIDE DEF p, l
    <3> QED
      BY <2>2
  <2>4. j # i
    BY <1>2, <2>2 DEF o
  <2>5. o + Slot(i).item_length <= p \/ p + l <= o
    BY <1>3, <2>2, <2>3, <2>4 DEF LeftOf, o
  <2>6. Slot(i).item_length \in Nat
    BY <1>1
  <2> HIDE DEF p, l
  <2> QED
    BY <1>2, <2>2, <2>5, <2>6
<1>6. ASSUME NEW c \in upper .. o - 1 PROVE \E j \in Before(i) : c \in Cells(Slot(j))
  <2>1. c \in upper .. DATA_SIZE - 1 /\ c \in Nat /\ c < o
    BY <1>2
  <2>2. PICK j \in Live : Slot(j).item_offset <= c /\ c < Slot(j).item_offset + Slot(j).item_length
    BY <1>3, <2>1
  <2>3. Slot(j).item_offset \in Nat /\ Slot(j).item_length \in Nat
    BY <1>1
  <2>4. j \in Before(i)
    BY <1>2, <1>4, <2>1, <2>2, <2>3
  <2>5. c \in Cells(Slot(j))
    BY <2>1, <2>2, <2>3 DEF Cells
  <2> QED
    BY <2>4, <2>5
<1>7. bytes = upper .. o - 1
  BY <1>5, <1>6
<1>8. move_bytes(i) = o - upper
  <2>1. Cardinality(upper .. o - 1) = IF upper > o - 1 THEN 0 ELSE o - 1 - upper + 1
    BY <1>2, FS_Interval
  <2>2. move_bytes(i) = Cardinality(upper .. o - 1)
    BY <1>7 DEF move_bytes
  <2> QED
    BY <1>2, <2>1, <2>2
<1>9. CASE o = upper
  BY <1>2, <1>8, <1>9 DEF MovedCells, upper, o
<1>10. CASE o # upper
  <2>1. move_bytes(i) # 0
    BY <1>2, <1>8, <1>10
  <2>2. /\ move_offset(i) \in {Slot(j).item_offset : j \in Before(i)}
        /\ \A j \in Before(i) : move_offset(i) <= Slot(j).item_offset
        /\ move_offset(i) \in Nat
    BY <2>1, MovedFacts
  <2>3. upper <= move_offset(i)
    BY <1>1, <1>4, <2>2
  <2>4. upper \in upper .. o - 1
    BY <1>2, <1>10
  <2>5. PICK j \in Before(i) : upper \in Cells(Slot(j))
    BY <1>6, <2>4
  <2>6. Slot(j).item_offset <= upper
    BY <1>1, <1>2, <1>4, <2>5 DEF Cells
  <2>7. Slot(j).item_offset \in Nat
    BY <1>1, <1>4
  <2>8. move_offset(i) = upper
    BY <1>2, <2>2, <2>3, <2>6, <2>7
  <2>9. MovedCells(i) = upper .. upper + (o - upper) - 1
    BY <1>8, <2>1, <2>8 DEF MovedCells
  <2>10. upper + (o - upper) - 1 = o - 1
    BY <1>2
  <2> QED
    BY <2>9, <2>10 DEF upper, o
<1> QED
  BY <1>9, <1>10

LEMMA OthersKept ==
    ASSUME Sound(header_, data_), ~Stray, NEW i \in Live, NEW j \in Live \ {i}
    PROVE  ContentOf(Closed(i), j) = ContentOf(data_, j)
<1> USE SizeAssumption
<1> DEFINE upper == header_.free_space_upper_bound
           lower == header_.free_space_lower_bound
           M == Closed(i)
           o == Slot(i).item_offset
           L == Slot(i).item_length
           p == Slot(j).item_offset
           l == Slot(j).item_length
           new == M[Start(j)].item_offset
           moved == {c + L : c \in MovedCells(i)}
           own == Start(i) .. Start(i + 1) - 1
<1>1. /\ upper \in Nat /\ lower \in Nat /\ lower <= upper
      /\ o \in Nat /\ L \in Nat /\ o + L <= DATA_SIZE /\ upper <= o
      /\ p \in Nat /\ l \in Nat /\ p + l <= DATA_SIZE /\ upper <= p
      /\ Slot(i) \in PageSlot /\ Slot(j) \in PageSlot
  BY SoundFacts, LiveFacts, NothingAstray DEF Sound
<1>2. IsClosed(i, M)
  BY NothingAstray, ClosedCells
<1>3. /\ M[Start(j)].item_length = l
      /\ p < o => new = p + L
      /\ ~(p < o) => new = p
  BY <1>1, <1>2, ShiftedSlot DEF IsClosed
<1>4. L # 0 /\ l # 0 => p + l <= o \/ o + L <= p
  BY DEF Sound, Tiling, SlotsOf, LeftOf, Live, Slot
<1>5. /\ \A c \in Cell \cap moved : M[c] = data_[c - L]
      /\ \A c \in Cell : /\ c \notin moved /\ c \notin o .. o + L - 1
                         /\ upper <= c
                         => M[c] = data_[c]
  <2>1. \A c \in own : c \in Nat /\ c < lower
    BY LiveFacts, SoundFacts DEF Cell
  <2>2. ASSUME NEW k \in Live PROVE Start(k) \in Nat /\ Start(k) < lower
    <3>1. k \in Array(header_)
      BY LiveFacts
    <3>2. Start(k) \in Cell /\ Start(k) + SLOT_SIZE <= lower
      BY <3>1, SoundFacts
    <3> HIDE DEF lower
    <3> QED
      BY <1>1, <3>2 DEF Cell
  <2>3. ASSUME NEW c \in Cell, c \notin moved, c \notin o .. o + L - 1, upper <= c
        PROVE  M[c] = data_[c]
    <3>1. c \in Nat /\ ~(c < lower)
      <4> HIDE DEF upper, lower
      <4> QED
        BY <1>1, <2>3 DEF Cell
    <3>2. c \notin own /\ \A k \in Live : c # Start(k)
      BY <2>1, <2>2, <3>1
    <3>3. c \notin Cells(Slot(i))
      BY <2>3 DEF Cells
    <3> QED
      BY <1>2, <2>3, <3>2, <3>3 DEF IsClosed
  <2> QED
    BY <1>2, <2>3 DEF IsClosed
<1>6. \A c \in MovedCells(i) : c \in Nat
  BY NothingAstray
<1>7. L # 0 => MovedCells(i) = upper .. o - 1
  BY AllLeftMove
<1> HIDE DEF upper, lower, M, o, L, p, l, new
<1>8. ASSUME NEW k \in 1 .. l PROVE M[new + k - 1] = data_[p + k - 1]
  <2> DEFINE c == p + k - 1
  <2>1. c \in Cell /\ upper <= c /\ l # 0 /\ c \in Nat /\ p <= c /\ c < p + l /\ c < DATA_SIZE
    BY <1>1 DEF Cell
  <2>2. (new = p + L => new + k - 1 = c + L) /\ (new = p => new + k - 1 = c)
    BY <1>1
  <2> HIDE DEF c
  <2>3. CASE L = 0
    <3>1. new = p
      BY <1>1, <1>3, <2>3
    <3>2. CASE c \in moved
      <4>1. M[c] = data_[c - L] /\ c - L = c
        BY <1>5, <2>1, <2>3, <3>2
      <4> QED
        BY <2>2, <3>1, <4>1 DEF c
    <3>3. CASE c \notin moved
      <4>1. c \notin o .. o + L - 1
        BY <1>1, <2>3
      <4>2. M[c] = data_[c]
        BY <1>5, <2>1, <3>3, <4>1
      <4> QED
        BY <2>2, <3>1, <4>2 DEF c
    <3> QED
      BY <3>2, <3>3
  <2>4. CASE L # 0 /\ p < o
    <3>1. p + l <= o
      BY <1>1, <1>4, <2>1, <2>4
    <3>2. c \in MovedCells(i)
      BY <1>1, <1>7, <2>1, <2>4, <3>1
    <3>3. c + L \in moved /\ c + L \in Cell /\ (c + L) - L = c
      BY <1>1, <2>1, <3>1, <3>2 DEF Cell
    <3>4. PICK d : d = c + L
      OBVIOUS
    <3>5. d \in Cell /\ d \in moved /\ d - L = c
      BY <3>3, <3>4
    <3> HIDE DEF moved
    <3>6. M[d] = data_[d - L]
      BY <1>5, <3>5
    <3> QED
      BY <1>3, <2>2, <2>4, <3>4, <3>5, <3>6 DEF c
  <2>5. CASE L # 0 /\ ~(p < o)
    <3>1. o + L <= p
      BY <1>1, <1>4, <2>1, <2>5
    <3>2. c \notin moved
      <4>1. ASSUME NEW b \in MovedCells(i) PROVE c # b + L
        BY <1>1, <1>7, <2>1, <2>5, <3>1
      <4> QED
        BY <4>1
    <3>3. c \notin o .. o + L - 1
      BY <1>1, <2>1, <3>1
    <3>4. M[c] = data_[c]
      BY <1>5, <2>1, <3>2, <3>3
    <3> QED
      BY <1>3, <2>2, <2>5, <3>4 DEF c
  <2> QED
    BY <2>3, <2>4, <2>5
<1>9. data_[Start(j)].item_offset = p /\ data_[Start(j)].item_length = l
  BY DEF p, l, Slot
<1>10. ContentOf(M, j) = ContentOf(data_, j)
  BY <1>3, <1>8, <1>9 DEF ContentOf, new
<1> QED
  BY <1>10 DEF M

-----------------------------------------------------------------------------
(* Every call is one of PageRecords. *)

LEMMA RefusedAlike ==
    ASSUME NEW op, NEW res, Refused(op, res)
    PROVE  Records!Refused(op, res)
BY DEF Refused, Ended, Records!Refused, Records!Ended, Array, Used, IsSlot, RecordIn, Slot

LEMMA InsertStep ==
    ASSUME IInv, NEW r \in Record, InsertRecord(r)
    PROVE  Records!InsertRecord(r)
<1> DEFINE a == AvailableSlot
           H == HeaderWithSlot
           n == header_.num_slots
<1>1. Running /\ InOrder /\ Sound(header_, data_)
  BY DEF InsertRecord, IInv, InOrder
<1>2. a = Records!Lowest /\ Records!Live = Live /\ Records!Highest(Live) = n
  BY <1>1, SlotIsLowest, SameRecords, SlotsAreHighest
<1>3. Records!Fits(Records!With(Records!Lowest, r)) <=> hasSpaceForRecord(r)
  BY <1>1, FitsInsert
<1>4. CASE ~hasSpaceForRecord(r) /\ Refused("insertRecord", "InsufficientSpace")
  BY <1>3, <1>4, RefusedAlike DEF Records!InsertRecord
<1>5. CASE /\ hasSpaceForRecord(r) /\ Used(data_, a)
           /\ header_' = H
           /\ Ended("insertRecord", "SlotInUse")
           /\ UNCHANGED <<data_, current, due>>
  <2>1. ~(header_.num_free_slots > 0)
    BY <1>1, <1>5, SlotFound DEF Live, UsedSlots
  <2>2. /\ a = n + 1 /\ Live = 1 .. n /\ H.num_slots = n + 1 /\ n \in Nat
        /\ H.free_space_lower_bound = header_.free_space_lower_bound + SLOT_SIZE
        /\ H.free_space_lower_bound \in Nat
        /\ H.free_space_upper_bound = header_.free_space_upper_bound
        /\ Len(r) <= H.free_space_upper_bound - H.free_space_lower_bound
    BY <1>1, <1>5, <2>1, SlotAdded, SpaceFacts, SoundFacts DEF Array
  <2>3. /\ header_.free_space_lower_bound = Start(n + 1)
        /\ header_.free_space_lower_bound \in Nat /\ header_.free_space_upper_bound \in 0 .. DATA_SIZE
        /\ Len(r) \in Nat
    BY <1>1, SoundFacts, RecordFacts DEF Sound
  <2> HIDE DEF a, n, H
  <2>4. Start(n + 1) \in Cell /\ header_.free_space_lower_bound <= Start(n + 1)
    BY <2>2, <2>3, SizeAssumption DEF Cell
  <2>5. data_[Start(n + 1)] \in Byte
    BY <1>1, <2>4, SoundFacts
  <2>6. 1 .. n + 1 = (1 .. n) \cup {n + 1}
    BY <2>2
  <2>7. {j \in 1 .. n + 1 : Used(data_, j) /\ IsSlot(data_, j)}
          = {j \in 1 .. n : Used(data_, j) /\ IsSlot(data_, j)}
    BY <2>5, <2>6 DEF IsSlot
  <2>8. Array(header_) = 1 .. n /\ Array(header_)' = 1 .. n + 1 /\ data_' = data_
    BY <1>5, <2>2 DEF Array, n
  <2>9. RecordsNow' = RecordsNow
    BY <2>7, <2>8 DEF RecordsNow, Used, IsSlot, RecordIn, Slot
  <2>10. Records!Lowest > Records!Highest(Records!Live)
    BY <1>2, <2>2
  <2> QED
    BY <1>3, <1>5, <2>9, <2>10
       DEF Records!InsertRecord, Records!Refused, Records!Ended, Ended, RecordsNow
<1>6. CASE /\ hasSpaceForRecord(r) /\ ~Used(data_, a)
           /\ header_' = HeaderFilled(H, r)
           /\ data_' = Filled(H, data_, a, r)
           /\ Ended("insertRecord", "ok")
  <2>1. /\ Sound(H, data_) /\ UsedSlots(H, data_) = Live
        /\ a \in Array(H) \ UsedSlots(H, data_)
        /\ Len(r) <= H.free_space_upper_bound - H.free_space_lower_bound
    BY <1>1, <1>6, WithSlotSound, SpaceFacts
  <2> HIDE DEF a, H
  <2>2. Sound(header_', data_') /\ UsedSlots(header_', data_') = Live \cup {a}
    BY <1>6, <2>1, FilledSound, FilledSlots
  <2>3. /\ ContentOf(data_', a) = r
        /\ \A j \in Live : ContentOf(data_', j) = ContentOf(data_, j)
    BY <1>6, <2>1, FilledContent
  <2>4. Contents(header_', data_') = Put(Contents(header_, data_), a, r)
    BY <2>1, <2>2, <2>3 DEF Contents, Put, Live
  <2>5. RecordsNow' = Records!With(Records!Lowest, r)
    BY <1>1, <1>2, <2>2, <2>4, RecordsAre, SameRecords
  <2> QED
    BY <1>3, <1>6, <2>5 DEF Records!InsertRecord, Records!Ended, Ended, RecordsNow
<1> QED
  BY <1>4, <1>5, <1>6 DEF InsertRecord

LEMMA NoRecordStep ==
    ASSUME InOrder, NEW op, NEW i \in SlotId \cup {Elsewhere}, NoRecord(op, i)
    PROVE  Records!NoSuchRecord(op, i)
<1>1. Sound(header_, data_)
  BY DEF InOrder
<1>2. /\ Records!Live = Live /\ Records!Highest(Live) = header_.num_slots
      /\ IsRecord(i) <=> i \in Live
      /\ Valid(i) /\ ~IsSlot(data_, i) => i > header_.num_slots
  BY <1>1, SameRecords, SlotsAreHighest, RecordIsLive
<1>3. i \notin Live
  BY <1>2 DEF NoRecord, IsRecord
<1> QED
  BY <1>2, <1>3, RefusedAlike DEF NoRecord, Records!NoSuchRecord

LEMMA DeleteStep ==
    ASSUME IInv, NEW i \in SlotId \cup {Elsewhere}, DeleteRecord(i), ~Stray
    PROVE  Records!DeleteRecord(i)
<1>1. Running /\ InOrder /\ Sound(header_, data_)
  BY DEF DeleteRecord, IInv, InOrder
<1>2. CASE /\ IsRecord(i) /\ ~MovesSlots(i)
           /\ data_' = Closed(i)
           /\ header_' = IF i = header_.num_slots
                         THEN Compacted(HeaderClosed(i), Closed(i))
                         ELSE HeaderClosed(i)
           /\ Ended("deleteRecord", "ok")
  <2>1. i \in Live
    BY <1>1, <1>2, RecordIsLive
  <2>2. /\ Sound(HeaderClosed(i), Closed(i))
        /\ UsedSlots(HeaderClosed(i), Closed(i)) = Live \ {i}
    BY <1>1, <1>2, <2>1, ClosedSound, ClosedSlots
  <2>3. Sound(header_', data_') /\ UsedSlots(header_', data_') = Live \ {i}
    BY <1>2, <2>2, CompactedSound
  <2>4. \A j \in Live \ {i} : ContentOf(data_', j) = ContentOf(data_, j)
    BY <1>1, <1>2, <2>1, OthersKept
  <2>5. RecordsNow = Contents(header_, data_) /\ RecordsNow' = Contents(header_', data_')
    BY <1>1, <2>3, RecordsAre
  <2>6. RecordsNow' = [j \in Live \ {i} |-> RecordsNow[j]]
    BY <2>3, <2>4, <2>5 DEF Contents, Live
  <2>7. Records!Live = Live
    BY <1>1, SameRecords
  <2> QED
    BY <1>2, <2>1, <2>6, <2>7 DEF Records!DeleteRecord, Records!Ended, Ended, RecordsNow
<1>3. CASE IsRecord(i) /\ MovesSlots(i)
  BY <1>1, <1>3, RecordIsLive, NothingAstray
<1>4. CASE NoRecord("deleteRecord", i)
  BY <1>1, <1>4, NoRecordStep DEF Records!DeleteRecord
<1> QED
  BY <1>2, <1>3, <1>4 DEF DeleteRecord

LEMMA UpdateStep ==
    ASSUME IInv, NEW i \in SlotId \cup {Elsewhere}, NEW r \in Record, UpdateRecord(i, r), ~Stray
    PROVE  Records!UpdateRecord(i, r)
<1>1. Running /\ InOrder /\ Sound(header_, data_)
  BY DEF UpdateRecord, IInv, InOrder
<1>2. Records!Live = Live
  BY <1>1, SameRecords
<1>3. ASSUME IsRecord(i)
      PROVE  /\ i \in Live
             /\ Records!Fits(Records!With(i, r)) <=> Len(r) <= getFreeSpace + Slot(i).item_length
  BY <1>1, <1>3, RecordIsLive, FitsUpdate
<1>4. CASE /\ IsRecord(i) /\ Len(r) > getFreeSpace + Slot(i).item_length
           /\ Refused("updateRecord", "InsufficientSpace")
  <2>1. ~(Len(r) <= getFreeSpace + Slot(i).item_length)
    <3>1. /\ Len(r) \in Nat /\ getFreeSpace \in Int /\ Slot(i).item_length \in Nat
      BY <1>1, <1>3, <1>4, RecordFacts, SoundFacts, LiveFacts DEF getFreeSpace
    <3> QED
      BY <1>4, <3>1
  <2> QED
    BY <1>2, <1>3, <1>4, <2>1, RefusedAlike DEF Records!UpdateRecord
<1>5. CASE /\ IsRecord(i) /\ Len(r) <= getFreeSpace + Slot(i).item_length
           /\ ~MovesSlots(i)
           /\ header_' = HeaderFilled(HeaderClosed(i), r)
           /\ data_' = Filled(HeaderClosed(i), Closed(i), i, r)
           /\ Ended("updateRecord", "ok")
  <2> DEFINE H == HeaderClosed(i)
             M == Closed(i)
  <2>1. /\ Sound(H, M) /\ UsedSlots(H, M) = Live \ {i} /\ i \in Live
        /\ i \in Array(H) \ UsedSlots(H, M)
        /\ Len(r) <= H.free_space_upper_bound - H.free_space_lower_bound
    BY <1>1, <1>3, <1>5, ClosedSound, ClosedSlots, ClosedSpace, LiveFacts
  <2>2. \A j \in Live \ {i} : ContentOf(M, j) = ContentOf(data_, j)
    BY <1>1, <2>1, OthersKept
  <2> HIDE DEF H, M
  <2>3. Sound(header_', data_') /\ UsedSlots(header_', data_') = Live
    <3>1. header_' = HeaderFilled(H, r) /\ data_' = Filled(H, M, i, r)
      BY <1>5 DEF H, M
    <3>2. Sound(header_', data_') /\ UsedSlots(header_', data_') = UsedSlots(H, M) \cup {i}
      BY <2>1, <3>1, FilledSound, FilledSlots
    <3> QED
      BY <2>1, <3>2
  <2>4. /\ ContentOf(data_', i) = r
        /\ \A j \in Live \ {i} : ContentOf(data_', j) = ContentOf(data_, j)
    BY <1>5, <2>1, <2>2, FilledContent DEF H, M
  <2>5. Contents(header_', data_') = Put(Contents(header_, data_), i, r)
    BY <2>1, <2>3, <2>4 DEF Contents, Put, Live
  <2>6. RecordsNow' = Records!With(i, r)
    BY <1>1, <2>3, <2>5, RecordsAre, SameRecords
  <2> QED
    BY <1>2, <1>3, <1>5, <2>6 DEF Records!UpdateRecord, Records!Ended, Ended, RecordsNow
<1>6. CASE IsRecord(i) /\ MovesSlots(i)
  BY <1>1, <1>3, <1>6, NothingAstray
<1>7. CASE NoRecord("updateRecord", i)
  BY <1>1, <1>7, NoRecordStep DEF Records!UpdateRecord
<1> QED
  BY <1>4, <1>5, <1>6, <1>7 DEF UpdateRecord

LEMMA GetStep ==
    ASSUME IInv, NEW i \in SlotId \cup {Elsewhere}, GetRecord(i)
    PROVE  Records!GetRecord(i)
<1>1. InOrder /\ Sound(header_, data_)
  BY DEF GetRecord, IInv, InOrder
<1>2. CASE IsRecord(i) /\ Refused("getRecord", "ok")
  BY <1>1, <1>2, RecordIsLive, SameRecords, RefusedAlike DEF Records!GetRecord
<1>3. CASE NoRecord("getRecord", i)
  BY <1>1, <1>3, NoRecordStep DEF Records!GetRecord
<1> QED
  BY <1>2, <1>3 DEF GetRecord

LEMMA InitRecords ==
    ASSUME Init
    PROVE  Records!Init
BY DEF Init, Records!Init, Array

(* What a deletion or an update does while a record lies astray is open.   *)
Open == Stray /\ outcome'.op \in {"deleteRecord", "updateRecord"}

LEMMA StepRecords ==
    ASSUME IInv, [Next]_vars
    PROVE  [Records!Next \/ Open]_Records!recordVars
<1>1. Records!Numbers = SlotId /\ Records!Elsewhere = Elsewhere
  BY DEF Records!Numbers, SlotId, Records!Elsewhere, Elsewhere
<1>2. ASSUME UNCHANGED <<header_, data_, outcome>> PROVE UNCHANGED Records!recordVars
  BY <1>2 DEF Records!recordVars, Array, Used, IsSlot, RecordIn, Slot
<1>3. CASE UNCHANGED vars
  BY <1>2, <1>3 DEF vars
<1>4. CASE Begin \/ Advance
  BY <1>2, <1>4 DEF Begin, Advance, MoveFrom
<1>5. ASSUME NEW r \in Record, InsertRecord(r) PROVE Records!Next
  BY <1>5, InsertStep DEF Records!Next
<1>6. ASSUME NEW i \in SlotId \cup {Elsewhere}, NEW r \in Record, UpdateRecord(i, r)
      PROVE  Records!Next \/ Open
  <2>1. outcome'.op = "updateRecord"
    BY <1>6 DEF UpdateRecord, NoRecord, Refused, Ended
  <2> QED
    BY <1>1, <1>6, <2>1, UpdateStep DEF Records!Next, Open
<1>7. ASSUME NEW i \in SlotId \cup {Elsewhere}, DeleteRecord(i)
      PROVE  Records!Next \/ Open
  <2>1. outcome'.op = "deleteRecord"
    BY <1>7 DEF DeleteRecord, NoRecord, Refused, Ended
  <2> QED
    BY <1>1, <1>7, <2>1, DeleteStep DEF Records!Next, Open
<1>8. ASSUME NEW i \in SlotId \cup {Elsewhere}, GetRecord(i) PROVE Records!Next
  BY <1>1, <1>8, GetStep DEF Records!Next
<1> QED
  BY <1>3, <1>4, <1>5, <1>6, <1>7, <1>8 DEF Next

(* Whatever is inserted, updated and deleted, a record stays what it was   *)
(* under its number and is refused only when the page is full, except that *)
(* nothing is said of a deletion or an update while an empty record lies   *)
(* astray in the free space (deleteRecord).                                *)
THEOREM PageImplemented == Spec => RecordsSafe
<1>1. Init => Records!Init
  BY InitRecords
<1>2. IInv /\ [Next]_vars => [Records!Next \/ Open]_Records!recordVars
  BY StepRecords
<1> QED
  BY <1>1, <1>2, Invariance, PTL DEF Spec, RecordsSafe, Open

-----------------------------------------------------------------------------
(* Without empty records nothing is ever left astray.                      *)

RecordsStored == \A i \in DOMAIN RecordsNow : RecordsNow[i] \in Record

LEMMA NoneAstray ==
    ASSUME <<>> \notin Record, Sound(header_, data_), RecordsStored
    PROVE  ~Stray
<1>1. ASSUME NEW i \in Live PROVE ~(Slot(i).item_offset < header_.free_space_upper_bound)
  <2>1. ContentOf(data_, i) \in Record
    BY RecordsAre DEF RecordsStored, Contents, Live
  <2>2. Slot(i).item_length # 0
    <3>1. Len(ContentOf(data_, i)) # 0
      BY <2>1, RecordAssumption, EmptySeq
    <3> QED
      BY <3>1, ContentFacts DEF Live, Slot
  <2>3. /\ header_.free_space_upper_bound \in Nat /\ Slot(i).item_offset \in Nat
        /\ header_.free_space_upper_bound <= Slot(i).item_offset
    BY <2>2, SoundFacts, LiveFacts
  <2> QED
    BY <2>3
<1> QED
  BY <1>1 DEF Stray

LEMMA StoredNext ==
    ASSUME RecordsStored, Records!Next
    PROVE  RecordsStored'
<1>1. DOMAIN RecordsNow = Records!Live
  BY DEF Records!Live, RecordsNow
<1>2. ASSUME NEW i, NEW r \in Record, RecordsNow' = Records!With(i, r)
      PROVE  RecordsStored'
  <2>1. Records!With(i, r) = [j \in Records!Live \cup {i} |-> IF j = i THEN r ELSE RecordsNow[j]]
    BY DEF Records!With, RecordsNow
  <2> QED
    BY <1>1, <1>2, <2>1 DEF RecordsStored
<1>3. ASSUME NEW i, RecordsNow' = [j \in Records!Live \ {i} |-> RecordsNow[j]]
      PROVE  RecordsStored'
  BY <1>1, <1>3 DEF RecordsStored
<1>4. ASSUME RecordsNow' = RecordsNow PROVE RecordsStored'
  BY <1>4 DEF RecordsStored
<1>5. ASSUME NEW op, NEW res, Records!Refused(op, res) PROVE RecordsStored'
  BY <1>4, <1>5 DEF Records!Refused, RecordsNow
<1>6. ASSUME NEW op, NEW i, Records!NoSuchRecord(op, i) PROVE RecordsStored'
  BY <1>5, <1>6 DEF Records!NoSuchRecord
<1>7. ASSUME NEW r \in Record, Records!InsertRecord(r) PROVE RecordsStored'
  BY <1>2, <1>5, <1>7 DEF Records!InsertRecord, RecordsNow
<1>8. ASSUME NEW i, NEW r \in Record, Records!UpdateRecord(i, r) PROVE RecordsStored'
  BY <1>2, <1>5, <1>6, <1>8 DEF Records!UpdateRecord, RecordsNow
<1>9. ASSUME NEW i, Records!DeleteRecord(i) PROVE RecordsStored'
  BY <1>3, <1>6, <1>9 DEF Records!DeleteRecord, RecordsNow
<1>10. ASSUME NEW i, Records!GetRecord(i) PROVE RecordsStored'
  BY <1>5, <1>6, <1>10 DEF Records!GetRecord
<1> QED
  BY <1>7, <1>8, <1>9, <1>10 DEF Records!Next

LEMMA WholeStep ==
    ASSUME <<>> \notin Record, IInv, RecordsStored, [Next]_vars
    PROVE  [Records!Next]_Records!recordVars /\ RecordsStored'
<1>1. CASE UNCHANGED vars
  BY <1>1 DEF vars, Records!recordVars, RecordsStored, RecordsNow, Array, Used, IsSlot, RecordIn, Slot
<1>2. CASE Next
  <2>1. Running
    BY <1>2 DEF Next, InsertRecord, UpdateRecord, DeleteRecord, GetRecord, Begin, Advance, MoveFrom
  <2>2. ~Stray
    BY <2>1, NoneAstray DEF IInv, InOrder
  <2>3. [Records!Next]_Records!recordVars
    BY <2>2, StepRecords DEF Open
  <2>4. CASE Records!Next
    BY <2>3, <2>4, StoredNext
  <2>5. CASE UNCHANGED Records!recordVars
    BY <2>3, <2>5 DEF Records!recordVars, RecordsStored, RecordsNow
  <2> QED
    BY <2>3, <2>4, <2>5
<1> QED
  BY <1>1, <1>2

LEMMA WholeInvariance ==
    ASSUME <<>> \notin Record
    PROVE  Spec => [](IInv /\ RecordsStored)
<1>1. Init => RecordsStored
  BY DEF Init, RecordsStored, RecordsNow, Array
<1>2. IInv /\ RecordsStored /\ [Next]_vars => RecordsStored'
  BY WholeStep
<1> QED
  BY <1>1, <1>2, InitOrder, StepOrder, PTL DEF Spec

(* ... and without empty records there is no exception.                    *)
THEOREM WholeRecordsKept ==
    ASSUME <<>> \notin Record
    PROVE  Spec => Records!Spec
<1>1. Init => Records!Init
  BY InitRecords
<1>2. IInv /\ RecordsStored /\ [Next]_vars => [Records!Next]_Records!recordVars
  BY WholeStep
<1> QED
  BY <1>1, <1>2, WholeInvariance, PTL DEF Spec, Records!Spec

(* page.h's promise that a record is found by its slot though its contents *)
(* move holds of a page that never held an empty record, so that what      *)
(* breaks it is just that (deleteRecord).                                  *)
THEOREM WholeOthersStay ==
    ASSUME <<>> \notin Record
    PROVE  Spec => OthersStay
<1> DEFINE Stay == outcome' = [op |-> "deleteRecord", res |-> "ok"] =>
                       \A i \in Live \cap Live' : RecordIn(Slot(i))' = RecordIn(Slot(i))
<1>1. ASSUME IInv, RecordsStored, NEW i \in SlotId \cup {Elsewhere}, DeleteRecord(i) PROVE Stay
  <2>1. InOrder /\ Sound(header_, data_)
    BY <1>1 DEF DeleteRecord, IInv, InOrder
  <2>2. ~Stray
    BY <1>1, <2>1, NoneAstray
  <2>3. SUFFICES ASSUME outcome' = [op |-> "deleteRecord", res |-> "ok"],
                        NEW j \in Live \cap Live'
                 PROVE  RecordIn(Slot(j))' = RecordIn(Slot(j))
    OBVIOUS
  <2>4. IsRecord(i) /\ data_' = Closed(i) /\ ~MovesSlots(i)
    BY <1>1, <2>3 DEF DeleteRecord, NoRecord, Refused, Ended
  <2>5. i \in Live
    BY <2>1, <2>4, RecordIsLive
  <2>6. i # j
    <3>1. IsClosed(i, data_')
      BY <2>1, <2>4, <2>5, ClosedCells
    <3>2. Start(i) \in Start(i) .. Start(i + 1) - 1
      BY <2>1, <2>5, LiveFacts, SoundFacts, SizeAssumption DEF Cell
    <3>3. data_'[Start(i)] = NUL
      BY <3>1, <3>2 DEF IsClosed
    <3> QED
      BY <2>3, <3>3 DEF Live, UsedSlots, Used
  <2>7. ContentOf(data_', j) = ContentOf(data_, j)
    BY <2>1, <2>2, <2>3, <2>4, <2>5, <2>6, OthersKept
  <2> QED
    BY <2>7 DEF ContentOf, RecordIn, Slot
<1>2. ASSUME UNCHANGED <<header_, data_>> PROVE Stay
  BY <1>2 DEF RecordIn, Slot
<1>3. ASSUME outcome'.op # "deleteRecord" PROVE Stay
  BY <1>3
<1>4. IInv /\ RecordsStored /\ [Next]_vars => [Stay]_vars
  <2> HIDE DEF Stay
  <2>1. ASSUME NEW r \in Record, InsertRecord(r) PROVE Stay
    BY <1>3, <2>1 DEF InsertRecord, Refused, Ended
  <2>2. ASSUME NEW i, NEW r \in Record, UpdateRecord(i, r) PROVE Stay
    BY <1>3, <2>2 DEF UpdateRecord, NoRecord, Refused, Ended
  <2>3. ASSUME NEW i, GetRecord(i) PROVE Stay
    BY <1>3, <2>3 DEF GetRecord, NoRecord, Refused, Ended
  <2>4. ASSUME Begin \/ Advance PROVE Stay
    BY <1>2, <2>4 DEF Begin, Advance, MoveFrom
  <2> QED
    BY <1>1, <2>1, <2>2, <2>3, <2>4 DEF Next
<1> QED
  BY <1>4, WholeInvariance, PTL DEF Spec, OthersStay
=============================================================================

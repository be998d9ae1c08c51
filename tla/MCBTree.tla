------------------------------ MODULE MCBTree ------------------------------
(***************************************************************************)
(* The instances of BTreeIndex that TLC checks.                            *)
(***************************************************************************)
EXTENDS BTreeIndex

(* Entries with different keys. *)
Distinct(n) == {<<k, 1>> : k \in 1 .. n}
SevenKeys == Distinct(7)
TenKeys == Distinct(10)
FourteenKeys == Distinct(14)
SixteenKeys == Distinct(16)

(* The pairs of entries that put these keys in this order. *)
InOrder(keys) ==
    UNION {{<<<<keys[i], 1>>, <<keys[j], 1>>>> : j \in i + 1 .. Len(keys)} : i \in DOMAIN keys}

AnyOrder == {}
Upwards == InOrder([i \in 1 .. 14 |-> i])

(* The first leaf fills up early, and has to be split at any time after.   *)
FirstLeafFull ==
    InOrder(<<1, 2, 6, 7, 3, 4, 8, 9, 10, 11, 12, 13, 14, 15, 16>>) \cup InOrder(<<4, 5>>)

(* Key 8 comes at any time, the others in descending order. *)
DownwardsButOne == InOrder(<<10, 9, 7, 6, 5, 4, 3, 2, 1>>)

(* One key with many records, as an index on a column with duplicates has. *)
OneKey == {<<1, r>> : r \in 1 .. 5}
OneKeyInOrder == {p \in OneKey \X OneKey : p[1][2] < p[2][2]}

(* A scan over several leaves, one within one key, and two whose arguments *)
(* startScan refuses.                                                      *)
AllKinds ==
    {<<2, "GTE", 6, "LT">>, <<4, "GT", 4, "LTE">>, <<5, "GTE", 4, "LTE">>, <<2, "LT", 6, "LTE">>}

(* Scans of everything, and of the keys above the first few. *)
Above == {<<4, "GT", 99, "LT">>}
Wide == {<<0, "GTE", 99, "LTE">>} \cup Above

(* Scans that look for one key. *)
Points == {<<k, "GTE", k, "LTE">> : k \in 1 .. 10}
=============================================================================

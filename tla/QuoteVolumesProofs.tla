-------------------------- MODULE QuoteVolumesProofs --------------------------
(***************************************************************************)
(* What the list of volumes guarantees its callers, for every range and    *)
(* every count: the runs quote volumes[0] first and rely on it being the   *)
(* largest.                                                                *)
(***************************************************************************)
EXTENDS QuoteVolumes, TLAPS

(* A distance is a U256 whatever its ends are, the wrapped ones included.  *)
LEMMA DistanceIsWord ==
    ASSUME NEW from \in Nat, NEW to \in Nat
    PROVE  Distance(from, to) \in 0..Word - 1
  BY WordAssumption DEF Distance

(* Floor division: the steps do not reach past the distance and fall short *)
(* of it by less than their number.                                        *)
LEMMA FloorDivision ==
    ASSUME NEW d \in Nat, NEW n \in Nat \ {0}
    PROVE  /\ d \div n \in Nat
           /\ (d \div n) * n <= d
           /\ d - (d \div n) * n < n
  OBVIOUS

LEMMA ProductMonotone ==
    ASSUME NEW s \in Nat, NEW x \in Nat, NEW y \in Nat, x <= y
    PROVE  s * x <= s * y /\ s * x \in Nat /\ s * y \in Nat
  OBVIOUS

(* The list is sorted, largest first (builder.rs:30, volumes.reverse()).   *)
THEOREM VolumesDescend ==
    ASSUME NEW from \in Nat, NEW to \in Nat, NEW count \in Nat \ {0},
           NEW i \in 1..count, NEW j \in 1..count, i <= j
    PROVE  volumes(from, to, count)[j] <= volumes(from, to, count)[i]
<1> DEFINE step == VolumeStep(from, to, count)
<1>1. step \in Nat
  BY DistanceIsWord, FloorDivision, WordAssumption DEF VolumeStep
<1>2. step * (count + 1 - j) <= step * (count + 1 - i)
  <2> HIDE DEF step
  <2> QED BY <1>1, ProductMonotone
<1> QED BY <1>2 DEF volumes

(* Every volume is within the distance, and the first one misses it by     *)
(* less than the count: builder.rs:23 loses the remainder of the division. *)
THEOREM VolumesWithinDistance ==
    ASSUME NEW from \in Nat, NEW to \in Nat, NEW count \in Nat \ {0},
           NEW i \in 1..count
    PROVE  /\ volumes(from, to, count)[i] \in 0..Distance(from, to)
           /\ Distance(from, to) - volumes(from, to, count)[1] < count
<1> DEFINE d == Distance(from, to)
           step == VolumeStep(from, to, count)
<1>1. d \in Nat
  BY DistanceIsWord, WordAssumption
<1>2. step \in Nat /\ step * count <= d /\ d - step * count < count
  <2> HIDE DEF d
  <2> QED BY <1>1, FloorDivision DEF VolumeStep, d
<1>3. step * (count + 1 - i) <= step * count /\ step * (count + 1 - i) \in Nat
  <2> HIDE DEF step
  <2> QED BY <1>2, ProductMonotone
<1>4. volumes(from, to, count)[i] = step * (count + 1 - i)
  BY DEF volumes
<1>5. volumes(from, to, count)[1] = step * count
  BY DEF volumes
<1> HIDE DEF d, step
<1>6. step * count \in Nat
  BY <1>2, ProductMonotone
<1> QED BY <1>1, <1>2, <1>3, <1>4, <1>5, <1>6 DEF d

-----------------------------------------------------------------------------
(* The corners of the arithmetic (builder.rs:20-25).                       *)

(* A volume depends on the two ends through their distance only: the list  *)
(* starts at zero whatever `from` is (line 25).                            *)
THEOREM VolumesIgnoreFrom ==
    ASSUME NEW from \in Nat, NEW to \in Nat, NEW count \in Nat \ {0}
    PROVE  volumes(from, to, count) = volumes(0, Distance(from, to), count)
<1>1. Distance(from, to) \in 0..Word - 1
  BY DistanceIsWord
<1>2. Distance(0, Distance(from, to)) = Distance(from, to)
  <2> DEFINE d == Distance(from, to)
  <2>1. d \in 0..Word - 1 => d % Word = d
    <3> HIDE DEF d
    <3> QED BY WordAssumption
  <2>2. Distance(0, d) = (d - 0) % Word
    BY DEF Distance
  <2>3. d - 0 = d
    <3> HIDE DEF d
    <3>1. d \in 0..Word - 1
      BY <1>1 DEF d
    <3> QED BY <3>1, WordAssumption
  <2> QED BY <1>1, <2>1, <2>2, <2>3
<1> QED BY <1>2 DEF volumes, VolumeStep

(* `to - from` (line 20) wraps when the ends are the wrong way round.      *)
THEOREM DistanceWraps ==
    ASSUME NEW from \in 0..Word - 1, NEW to \in 0..Word - 1
    PROVE  Distance(from, to) = IF from <= to THEN to - from ELSE Word - (from - to)
<1>1. CASE from <= to
  BY <1>1, WordAssumption DEF Distance
<1>2. CASE from > to
  <2>1. (to - from) % Word = (to - from + Word) % Word
    BY WordAssumption
  <2>2. to - from + Word \in 0..Word - 1
    BY <1>2, WordAssumption
  <2> QED BY <1>2, <2>1, <2>2, WordAssumption DEF Distance
<1> QED BY <1>1, <1>2, WordAssumption

LEMMA ProductStrict ==
    ASSUME NEW s \in Nat \ {0}, NEW x \in Nat, NEW y \in Nat, x < y
    PROVE  s * x < s * y
<1>1. s * (y - x) = s * y - s * x
  OBVIOUS
<1>2. s * (y - x) >= 1
  OBVIOUS
<1>3. s * x \in Int /\ s * y \in Int
  OBVIOUS
<1> QED BY <1>1, <1>2, <1>3

(* A range of fewer units than volumes gives nothing but zeros; any other  *)
(* gives sizes that are all different and none of them zero, so that the   *)
(* volumes of a run are as many quotes as it counts.                       *)
THEOREM VolumesDistinct ==
    ASSUME NEW from \in Nat, NEW to \in Nat, NEW count \in Nat \ {0}
    PROVE  /\ Distance(from, to) < count =>
                \A i \in 1..count : volumes(from, to, count)[i] = 0
           /\ Distance(from, to) >= count =>
                \A i, j \in 1..count :
                    /\ volumes(from, to, count)[i] > 0
                    /\ i < j => volumes(from, to, count)[j] < volumes(from, to, count)[i]
<1> DEFINE d == Distance(from, to)
           step == VolumeStep(from, to, count)
<1>1. d \in Nat /\ step = d \div count
  BY DistanceIsWord, WordAssumption DEF VolumeStep
<1>2. \A i \in 1..count : volumes(from, to, count)[i] = step * (count + 1 - i)
  BY DEF volumes
<1> HIDE DEF d, step
<1>3. CASE d < count
  <2>1. step = 0
    BY <1>1, <1>3
  <2>2. ASSUME NEW i \in 1..count
        PROVE  volumes(from, to, count)[i] = 0
    BY <1>2, <2>1
  <2>3. ~(d >= count)
    BY <1>1, <1>3
  <2> QED BY <2>2, <2>3 DEF d
<1>4. CASE d >= count
  <2>1. step \in Nat \ {0}
    BY <1>1, <1>4
  <2>2. \A i \in 1..count : step * (count + 1 - i) > 0
    BY <2>1, ProductStrict
  <2>3. \A i, j \in 1..count :
          i < j => step * (count + 1 - j) < step * (count + 1 - i)
    BY <2>1, ProductStrict
  <2> QED BY <1>1, <1>2, <1>4, <2>2, <2>3 DEF d
<1> QED BY <1>1, <1>3, <1>4
=============================================================================

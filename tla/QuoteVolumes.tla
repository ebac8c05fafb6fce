---------------------------- MODULE QuoteVolumes ----------------------------
(***************************************************************************)
(* The list of trade sizes every run_chain_* function quotes, as           *)
(* src/source/builder.rs builds it: `count` equal steps over the distance  *)
(* from `from` to `to`, counted from zero, and reversed at the end, so     *)
(* that the largest size comes first.                                      *)
(*                                                                         *)
(* Amounts are U256 in the code, whose subtraction wraps: Word stands for  *)
(* 2^256.                                                                  *)
(***************************************************************************)
EXTENDS Integers

CONSTANT Word

ASSUME WordAssumption == Word \in Nat \ {0}

(* `to - from` on U256.                                                    *)
Distance(from, to) == (to - from) % Word

(* `distance / U256::from(count)`: the remainder of the division is lost.  *)
VolumeStep(from, to, count) == Distance(from, to) \div count

(* Mutant of volumes: the vector is not reversed.                          *)
volumes_ascending(from, to, count) ==
    [i \in 1..count |-> VolumeStep(from, to, count) * i]

(* The vector after `volumes.reverse()`: position i of 1..count holds      *)
(* step * (count + 1 - i).  `start` is U256::ZERO whatever `from` is.      *)
volumes(from, to, count) ==
    [i \in 1..count |-> VolumeStep(from, to, count) * (count + 1 - i)]
=============================================================================

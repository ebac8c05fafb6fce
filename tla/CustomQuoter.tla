----------------------------- MODULE CustomQuoter -----------------------------
(***************************************************************************)
(* Quotes that come back as a revert (src/contracts/uni_v3_quoter.sol,     *)
(* revm_revert in src/core/db.rs, the decoders in src/source/abi.rs), and  *)
(* the two loops that compute with them: the arbitrage over two pools, and *)
(* the comparison with the official quoter.                                *)
(*                                                                         *)
(* The pool lets the quoter's callback revert with the two deltas of the   *)
(* swap, printed into the reason of the revert.  The decoder looks at      *)
(* nothing but the last 64 bytes of what a reverted call returns, so that  *)
(* a revert for any other reason is decoded as well.                       *)
(*                                                                         *)
(* Half stands for 2^127 and U128 for 2^128: abi_decode is told not to     *)
(* validate, and keeps the low 128 bits of every 256-bit word.  The chain  *)
(* stands still: module QuoteRuns has the blocks that arrive.              *)
(***************************************************************************)
EXTENDS QuoteVolumes

CONSTANTS
    Half,
    HalfBytes,   \* how many letters 128 bits hold
    Letters,     \* any text that fills the low 128 bits of a word, as a number
    Reason,      \* the lengths of the reasons that pools revert with
    Largest,     \* the largest amount that a pool moves
    MaxAmount, Count,   \* of the list of volumes
    TokenInFirst \* token_in < token_out

ASSUME HalfAssumption ==
    /\ Half \in Nat \ {0} /\ HalfBytes \in 1..(Half - 1)
    /\ Letters \in 1..(Half - 1)
    /\ Largest \in 0..(Half - 1)
    /\ MaxAmount \in Nat /\ MaxAmount < Word /\ Count \in Nat \ {0}
    /\ TokenInFirst \in BOOLEAN

(* The reasons of Uniswap V3 are of one to three letters ('AS', 'LOK',     *)
(* 'SPL', 'TF', ...); the fake tokens fail inside a call whose own reason  *)
(* the pool replaces by 'TF'.                                              *)
ASSUME ReasonAssumption == Reason \subseteq 1..HalfBytes

VARIABLES
    method,            \* "arbitrage" or "validate"
    index,             \* the volume under way
    leg,               \* 1 or 2, the quote of it that comes next
    token_out_amount,  \* what the first leg returned
    first, second,     \* history: what happened in the two legs
    profit,            \* what is reported after the second leg, 0 for no profit
    ended

vars == <<method, index, leg, token_out_amount, first, second, profit, ended>>

U128 == 2 * Half
vol  == volumes(0, MaxAmount, Count)

(* What a call of getAmountOut may come to: the callback is reached, with  *)
(* what the quoter would have paid and got; the pool reverts with a        *)
(* reason; it reverts with less than 64 bytes (a pool without code); the   *)
(* call ends without a revert (it is out of gas, or swaps nothing).        *)
Swap      == [kind : {"swap"}, paid : 0..Largest, got : 0..Largest]
Refusal   == [kind : {"reason"}, length : Reason]
Bare      == [kind |-> "bare"]
Unreverted == [kind |-> "unreverted"]
Outcome   == Swap \cup Refusal \cup {Bare, Unreverted}

(* A pool swaps no more than it is asked to, and does not swap nothing.    *)
Outcomes(amount) ==
    {o \in Outcome : o.kind = "swap" => amount # 0 /\ o.paid <= amount}

-----------------------------------------------------------------------------
(* Encoding and decoding.                                                  *)

(* The low 128 bits of an int256.                                          *)
Low(d) == IF d < 0 THEN U128 + d ELSE d

(* 128 bits read as an i128.                                               *)
Signed(x) == IF x < Half THEN x ELSE x - U128

(* uniswapV3SwapCallback: the pool asks for what it is paid and announces  *)
(* what it pays as a negative delta, token 0 first.                        *)
Deltas(o, zeroForOne) ==
    IF zeroForOne THEN <<Low(o.paid), Low(-o.got)>> ELSE <<Low(-o.got), Low(o.paid)>>

(* The last 64 bytes of a reason that is a text of n letters: its length   *)
(* and the letters, from the high end of the word.                         *)
Text(n) == <<n, IF n > HalfBytes THEN Letters ELSE 0>>

Last64(o, zeroForOne) ==
    IF o.kind = "swap" THEN Deltas(o, zeroForOne) ELSE Text(o.length)

(* Mutant of Decoded: the second delta is taken, whichever token it is of. *)
DecodedSecond(words) == Low(0 - Signed(words[2]))

(* Mutant of Decoded: the sign is left as it is.                           *)
DecodedSigned(words) ==
    LET a == Signed(words[1])
        b == Signed(words[2])
    IN IF a <= b THEN a ELSE b

(* decode_get_amount_out_response: the smaller of two i128, negated and    *)
(* made a u128.                                                            *)
Decoded(words) ==
    LET a == Signed(words[1])
        b == Signed(words[2])
    IN IF a <= b THEN Low(0 - a) ELSE Low(0 - b)

Decodes(o) == o.kind \in {"swap", "reason"}

(* get_amount_out_calldata, revm_revert and the decoder: the direction is  *)
(* that of the addresses.                                                  *)
AmountOut(o, inFirst) == Decoded(Last64(o, inFirst))

(* The official quoter returns what the swap paid out, and fails when the  *)
(* swap does; the decoder keeps the first of its four words.               *)
decode_quote_response(o) == Low(o.got)

-----------------------------------------------------------------------------

TypeOK ==
    /\ method \in {"arbitrage", "validate"}
    /\ index \in 1..(Count + 1)
    /\ leg \in {1, 2}
    /\ token_out_amount \in 0..(U128 - 1)
    /\ first \in Outcome /\ second \in Outcome
    /\ profit \in Int
    /\ ended \in {"running", "done", "failed", "panicked", "differ"}

Init ==
    /\ method \in {"arbitrage", "validate"}
    /\ index = 1 /\ leg = 1 /\ token_out_amount = 0
    /\ first = Unreverted /\ second = Unreverted
    /\ profit = 0
    /\ ended = "running"

Quoting(m, n) == ended = "running" /\ index <= Count /\ method = m /\ leg = n

(* No two amounts to decode: revm_revert or the decoder returns an error,  *)
(* or the slice of the last 64 bytes panics.                               *)
Stops(o) ==
    /\ ended' = IF o.kind = "bare" THEN "panicked" ELSE "failed"
    /\ UNCHANGED <<method, index, leg, token_out_amount, first, second, profit>>

FirstLeg(o) ==
    /\ Quoting("arbitrage", 1)
    /\ o \in Outcomes(vol[index])
    /\ \/ ~Decodes(o) /\ Stops(o)
       \/ /\ Decodes(o)
          /\ token_out_amount' = AmountOut(o, TokenInFirst)
          /\ first' = o /\ leg' = 2 /\ profit' = 0
          /\ UNCHANGED <<method, index, second, ended>>

(* Mutant of SecondLeg: the second pool is asked for the volume of the     *)
(* first.                                                                  *)
SecondLegSameVolume(o) ==
    /\ Quoting("arbitrage", 2)
    /\ o \in Outcomes(vol[index])
    /\ Decodes(o)
    /\ LET token_in_back == AmountOut(o, ~TokenInFirst)
       IN profit' = IF token_in_back > vol[index] THEN token_in_back - vol[index] ELSE 0
    /\ second' = o /\ leg' = 1 /\ index' = index + 1
    /\ UNCHANGED <<method, token_out_amount, first, ended>>

(* The second pool swaps back what the first returned; U256 is subtracted  *)
(* only from what is larger.                                               *)
SecondLeg(o) ==
    /\ Quoting("arbitrage", 2)
    /\ o \in Outcomes(token_out_amount)
    /\ \/ ~Decodes(o) /\ Stops(o)
       \/ /\ Decodes(o)
          /\ LET token_in_back == AmountOut(o, ~TokenInFirst)
             IN profit' = IF token_in_back > vol[index]
                          THEN token_in_back - vol[index] ELSE 0
          /\ second' = o /\ leg' = 1 /\ index' = index + 1
          /\ UNCHANGED <<method, token_out_amount, first, ended>>

(* The node quotes first, and its error ends the run; then the same swap   *)
(* is quoted by the custom quoter, and the two amounts are compared.       *)
Validate(o) ==
    /\ Quoting("validate", 1)
    /\ o \in Outcomes(vol[index])
    /\ \/ /\ o.kind # "swap" /\ ended' = "failed"
          /\ UNCHANGED index
       \/ /\ o.kind = "swap"
          /\ LET same == AmountOut(o, TokenInFirst) = decode_quote_response(o)
             IN /\ index' = IF same THEN index + 1 ELSE index
                /\ ended' = IF same THEN "running" ELSE "differ"
    /\ UNCHANGED <<method, leg, token_out_amount, first, second, profit>>

Finish ==
    /\ ended = "running" /\ index > Count
    /\ ended' = "done"
    /\ UNCHANGED <<method, index, leg, token_out_amount, first, second, profit>>

Next ==
    \/ \E o \in Outcome : FirstLeg(o) \/ SecondLeg(o) \/ Validate(o)
    \/ Finish

Spec == Init /\ [][Next]_vars

-----------------------------------------------------------------------------

(* A profit is reported only when both pools swapped, the second paying    *)
(* that much more than the volume for no more than the first had paid out: *)
(* no revert for another reason, in either leg, is ever taken for one.     *)
ProfitIsReal ==
    profit # 0 =>
        /\ first.kind = "swap" /\ second.kind = "swap"
        /\ first.paid <= vol[index - 1] /\ second.paid <= first.got
        /\ second.got = vol[index - 1] + profit /\ profit > 0

(* chain_validate.rs:87: on one state of the chain the two quoters and     *)
(* their decoders give the same amount.                                    *)
SameStateSameAmount == ended # "differ"
=============================================================================

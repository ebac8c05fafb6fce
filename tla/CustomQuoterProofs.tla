-------------------------- MODULE CustomQuoterProofs --------------------------
(***************************************************************************)
(* The decoder of reverted quotes, and what the loops that use it report,  *)
(* for every width of the words and every list of volumes.                 *)
(***************************************************************************)
EXTENDS CustomQuoter, QuoteVolumesProofs, TLAPS

(* A swap is decoded to what the pool pays out, whichever of the tokens    *)
(* comes first.                                                            *)
LEMMA SwapDecodes ==
    ASSUME NEW o \in Swap, NEW zeroForOne \in BOOLEAN
    PROVE  AmountOut(o, zeroForOne) = o.got
<1>1. o.kind = "swap" /\ o.paid \in 0..Largest /\ o.got \in 0..Largest
  BY DEF Swap
<1>2. Half \in Nat /\ Largest \in 0..(Half - 1)
  BY HalfAssumption
<1>3. Signed(Low(o.paid)) = o.paid
  BY <1>1, <1>2 DEF Signed, Low, U128
<1>4. Signed(Low(-o.got)) = -o.got
  BY <1>1, <1>2 DEF Signed, Low, U128
<1>5. CASE zeroForOne
  <2>1. Last64(o, zeroForOne) = <<Low(o.paid), Low(-o.got)>>
    BY <1>1, <1>5 DEF Last64, Deltas
  <2> QED BY <2>1, <1>1, <1>2, <1>3, <1>4 DEF AmountOut, Decoded, Low
<1>6. CASE ~zeroForOne
  <2>1. Last64(o, zeroForOne) = <<Low(-o.got), Low(o.paid)>>
    BY <1>1, <1>6 DEF Last64, Deltas
  <2> QED BY <2>1, <1>1, <1>2, <1>3, <1>4 DEF AmountOut, Decoded, Low
<1> QED BY <1>5, <1>6

(* A number of letters read as a number.                                   *)
LEMMA ShortText ==
    ASSUME NEW n \in 1..HalfBytes
    PROVE  Decoded(Text(n)) = 0
<1>1. Half \in Nat /\ HalfBytes \in Nat /\ HalfBytes < Half
  BY HalfAssumption
<1>2. n \in Nat /\ 0 < n /\ n <= HalfBytes
  BY <1>1
<1>3. n < Half /\ 0 < Half
  BY <1>1, <1>2
<1>4. Text(n) = <<n, 0>>
  BY <1>1, <1>2 DEF Text
<1>5. Signed(n) = n /\ Signed(0) = 0
  BY <1>3 DEF Signed
<1>6. ~(n <= 0) /\ Low(0 - 0) = 0
  BY <1>2 DEF Low
<1> HIDE DEF Signed
<1> QED BY <1>4, <1>5, <1>6 DEF Decoded

(* The reasons of the pools are decoded to an amount of zero.              *)
LEMMA RefusalDecodes ==
    ASSUME NEW o \in Refusal, NEW zeroForOne \in BOOLEAN
    PROVE  AmountOut(o, zeroForOne) = 0
<1>1. o.kind = "reason" /\ o.length \in 1..HalfBytes
  BY ReasonAssumption DEF Refusal
<1>2. AmountOut(o, zeroForOne) = Decoded(Text(o.length))
  BY <1>1 DEF AmountOut, Last64
<1> QED BY <1>1, <1>2, ShortText

(* What ReasonAssumption keeps out: a reason of more than HalfBytes        *)
(* letters would be decoded to an amount of almost 2^128 (abi.rs:51-53).   *)
THEOREM LongReasonIsHuge ==
    ASSUME NEW n \in (HalfBytes + 1)..(2 * HalfBytes), n < Letters
    PROVE  Decoded(Text(n)) = U128 - n
<1>1. /\ Half \in Nat /\ HalfBytes \in Nat \ {0}
      /\ Letters \in 1..(Half - 1) /\ n \in Nat \ {0}
  BY HalfAssumption
<1>2. Text(n) = <<n, Letters>>
  BY <1>1 DEF Text
<1>3. Signed(n) = n /\ Signed(Letters) = Letters
  BY <1>1 DEF Signed
<1>4. n <= Letters /\ Low(0 - n) = U128 - n
  BY <1>1 DEF Low, U128
<1> QED BY <1>2, <1>3, <1>4 DEF Decoded

-----------------------------------------------------------------------------

(* What both legs of an arbitrage are owed, as far as it has come: the     *)
(* amount the second leg is given is what the first paid out, or nothing.  *)
Held ==
    token_out_amount = (IF first.kind = "swap" THEN first.got ELSE 0)

FirstInBounds ==
    leg = 2 /\ index <= Count /\ first.kind = "swap" => first.paid <= vol[index]

NoTrades == method = "validate" => profit = 0 /\ leg = 1

QuoterInv ==
    TypeOK /\ Held /\ FirstInBounds /\ NoTrades /\ ProfitIsReal /\ SameStateSameAmount

LEMMA VolumesAreNatural ==
    ASSUME NEW i \in 1..Count
    PROVE  vol[i] \in Nat
<1>1. 0 \in Nat /\ MaxAmount \in Nat /\ Count \in Nat \ {0}
  BY HalfAssumption
<1>2. vol[i] \in 0..Distance(0, MaxAmount)
  BY <1>1, VolumesWithinDistance DEF vol
<1>3. Distance(0, MaxAmount) \in 0..Word - 1
  BY <1>1, DistanceIsWord
<1> QED BY <1>2, <1>3

(* An outcome that decodes gives what a swap paid out, or nothing.         *)
LEMMA QuoteOf ==
    ASSUME NEW o \in Outcome, Decodes(o), NEW zeroForOne \in BOOLEAN
    PROVE  /\ AmountOut(o, zeroForOne) = (IF o.kind = "swap" THEN o.got ELSE 0)
           /\ AmountOut(o, zeroForOne) \in 0..(U128 - 1)
<1>1. Half \in Nat \ {0} /\ Largest \in 0..(Half - 1)
  BY HalfAssumption
<1>2. CASE o.kind = "swap"
  <2>1. o \in Swap
    BY <1>2 DEF Outcome, Refusal, Bare, Unreverted
  <2> QED BY <1>1, <1>2, <2>1, SwapDecodes DEF Swap, U128
<1>3. CASE o.kind = "reason"
  <2>1. o \in Refusal
    BY <1>3 DEF Outcome, Swap, Bare, Unreverted
  <2> QED BY <1>1, <1>3, <2>1, RefusalDecodes DEF U128
<1> QED BY <1>2, <1>3 DEF Decodes

LEMMA SwapParts ==
    ASSUME NEW o \in Outcome, o.kind = "swap"
    PROVE  o \in Swap /\ o.paid \in Nat /\ o.got \in Nat
<1>1. Largest \in Nat
  BY HalfAssumption
<1>2. o \in Swap
  BY DEF Outcome, Refusal, Bare, Unreverted
<1> QED BY <1>1, <1>2 DEF Swap

LEMMA QuoterInit == Init => QuoterInv
<1> SUFFICES ASSUME Init PROVE QuoterInv
  OBVIOUS
<1>1. Half \in Nat \ {0} /\ Count \in Nat \ {0}
  BY HalfAssumption
<1>2. Unreverted \in Outcome /\ Unreverted.kind # "swap"
  BY DEF Outcome, Unreverted
<1> QED BY <1>1, <1>2
    DEF Init, QuoterInv, TypeOK, Held, FirstInBounds, NoTrades, ProfitIsReal,
        SameStateSameAmount, U128

LEMMA QuoterStep == QuoterInv /\ [Next]_vars => QuoterInv'
<1> SUFFICES ASSUME QuoterInv, [Next]_vars PROVE QuoterInv'
  OBVIOUS
<1> USE DEF QuoterInv
<1>0. Count \in Nat \ {0} /\ TokenInFirst \in BOOLEAN /\ (~TokenInFirst) \in BOOLEAN
  BY HalfAssumption
<1>1. ASSUME NEW o \in Outcome, FirstLeg(o) PROVE QuoterInv'
  <2>1. ended = "running" /\ index \in 1..Count /\ leg = 1 /\ method = "arbitrage"
    BY <1>0, <1>1 DEF FirstLeg, Quoting, TypeOK
  <2>2. CASE ~Decodes(o) /\ Stops(o)
    BY <1>0, <2>1, <2>2
      DEF Stops, TypeOK, Held, FirstInBounds, NoTrades, ProfitIsReal, SameStateSameAmount, vol
  <2>3. CASE Decodes(o) /\ ~(~Decodes(o) /\ Stops(o))
    <3>1. /\ token_out_amount' = AmountOut(o, TokenInFirst)
          /\ first' = o /\ leg' = 2 /\ profit' = 0
          /\ UNCHANGED <<method, index, second, ended>>
      BY <1>1, <2>3 DEF FirstLeg
    <3>2. /\ token_out_amount' = (IF o.kind = "swap" THEN o.got ELSE 0)
          /\ token_out_amount' \in 0..(U128 - 1)
      BY <1>0, <2>3, <3>1, QuoteOf
    <3>3. o.kind = "swap" => o.paid <= vol[index]
      BY <1>1 DEF FirstLeg, Outcomes
    <3>4. TypeOK'
      BY <1>0, <3>1, <3>2 DEF TypeOK
    <3>5. vol' = vol
      BY DEF vol
    <3> QED BY <2>1, <3>1, <3>2, <3>3, <3>4, <3>5
      DEF Held, FirstInBounds, NoTrades, ProfitIsReal, SameStateSameAmount
  <2> QED BY <1>1, <2>2, <2>3 DEF FirstLeg
<1>2. ASSUME NEW o \in Outcome, SecondLeg(o) PROVE QuoterInv'
  <2>1. ended = "running" /\ index \in 1..Count /\ leg = 2 /\ method = "arbitrage"
    BY <1>0, <1>2 DEF SecondLeg, Quoting, TypeOK
  <2>2. CASE ~Decodes(o) /\ Stops(o)
    BY <1>0, <2>1, <2>2
      DEF Stops, TypeOK, Held, FirstInBounds, NoTrades, ProfitIsReal, SameStateSameAmount, vol
  <2>3. CASE Decodes(o) /\ ~(~Decodes(o) /\ Stops(o))
    <3> DEFINE back == AmountOut(o, ~TokenInFirst)
               out  == IF o.kind = "swap" THEN o.got ELSE 0
    <3>1. /\ profit' = IF back > vol[index] THEN back - vol[index] ELSE 0
          /\ second' = o /\ leg' = 1 /\ index' = index + 1
          /\ UNCHANGED <<method, token_out_amount, first, ended>>
      BY <1>2, <2>3 DEF SecondLeg
    <3>2. back = out /\ out \in Nat
      BY <1>0, <2>3, QuoteOf, SwapParts
    <3>3. o.kind = "swap" => o.paid <= token_out_amount /\ token_out_amount # 0
      BY <1>2 DEF SecondLeg, Outcomes
    <3>4. vol[index] \in Nat
      BY <2>1, VolumesAreNatural
    <3>5. profit' = IF out > vol[index] THEN out - vol[index] ELSE 0
      BY <3>1, <3>2
    <3> HIDE DEF back, out
    <3>6. profit' \in Nat
      BY <3>2, <3>4, <3>5
    <3>7. TypeOK'
      BY <1>0, <2>1, <3>1, <3>6 DEF TypeOK
    <3>8. ProfitIsReal'
      <4> SUFFICES ASSUME profit' # 0
                   PROVE  /\ first'.kind = "swap" /\ second'.kind = "swap"
                          /\ first'.paid <= vol[index' - 1]
                          /\ second'.paid <= first'.got
                          /\ second'.got = vol[index' - 1] + profit' /\ profit' > 0
        BY DEF ProfitIsReal, vol
      <4>1. out > vol[index] /\ profit' = out - vol[index]
        BY <3>5
      <4>2. o.kind = "swap" /\ out = o.got
        BY <3>2, <3>4, <4>1 DEF out
      <4>3. first.kind = "swap" /\ o.paid <= first.got
        BY <3>3, <4>2 DEF Held
      <4>4. first.paid <= vol[index]
        BY <1>0, <2>1, <4>3 DEF FirstInBounds
      <4>5. index' - 1 = index
        BY <2>1, <3>1
      <4> QED BY <3>1, <3>2, <3>4, <4>1, <4>2, <4>3, <4>4, <4>5
    <3> QED BY <2>1, <3>1, <3>7, <3>8
      DEF Held, FirstInBounds, NoTrades, SameStateSameAmount
  <2> QED BY <1>2, <2>2, <2>3 DEF SecondLeg
<1>3. ASSUME NEW o \in Outcome, Validate(o) PROVE QuoterInv'
  <2>1. /\ ended = "running" /\ index \in 1..Count /\ leg = 1
        /\ method = "validate"
        /\ UNCHANGED <<method, leg, token_out_amount, first, second, profit>>
    BY <1>0, <1>3 DEF Validate, Quoting, TypeOK
  <2>2. profit = 0
    BY <2>1 DEF NoTrades
  <2>3. CASE o.kind # "swap"
    <3>1. ended' = "failed" /\ index' = index
      BY <1>3, <2>3 DEF Validate
    <3> QED BY <2>1, <2>2, <3>1
      DEF TypeOK, Held, FirstInBounds, NoTrades, ProfitIsReal, SameStateSameAmount
  <2>4. CASE o.kind = "swap"
    <3>1. o.got \in Nat
      BY <2>4, SwapParts
    <3>2. AmountOut(o, TokenInFirst) = o.got
      BY <1>0, <2>4, QuoteOf DEF Decodes
    <3>3. AmountOut(o, TokenInFirst) = decode_quote_response(o)
      BY <3>1, <3>2 DEF decode_quote_response, Low
    <3>4. index' = index + 1 /\ ended' = "running"
      BY <1>3, <2>4, <3>3 DEF Validate
    <3> QED BY <1>0, <2>1, <2>2, <3>4
      DEF TypeOK, Held, FirstInBounds, NoTrades, ProfitIsReal, SameStateSameAmount
  <2> QED BY <2>3, <2>4
<1>4. CASE Finish
  BY <1>0, <1>4
    DEF Finish, TypeOK, Held, FirstInBounds, NoTrades, ProfitIsReal, SameStateSameAmount, vol
<1>5. CASE UNCHANGED vars
  BY <1>5
    DEF vars, TypeOK, Held, FirstInBounds, NoTrades, ProfitIsReal, SameStateSameAmount, vol
<1> QED BY <1>1, <1>2, <1>3, <1>4, <1>5 DEF Next

LEMMA QuoterInvariant == Spec => []QuoterInv
<1> QED BY QuoterInit, QuoterStep, PTL DEF Spec

(* The amount passed from the first pool to the second is always a u128,   *)
(* whatever the reverted call returned.                                    *)
THEOREM QuoterTypeCorrect == Spec => []TypeOK
<1>1. QuoterInv => TypeOK
  BY DEF QuoterInv
<1> QED BY <1>1, QuoterInvariant, PTL

(* No reported profit rests on a revert that was not a quote.              *)
THEOREM ProfitsAreReal == Spec => []ProfitIsReal
<1>1. QuoterInv => ProfitIsReal
  BY DEF QuoterInv
<1> QED BY <1>1, QuoterInvariant, PTL

(* The assertion of the comparison holds on every state of the chain.      *)
THEOREM QuotersAgree == Spec => []SameStateSameAmount
<1>1. QuoterInv => SameStateSameAmount
  BY DEF QuoterInv
<1> QED BY <1>1, QuoterInvariant, PTL
=============================================================================

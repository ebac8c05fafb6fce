--------------------------- MODULE QuoteRunsProofs ---------------------------
(***************************************************************************)
(* For every chain, mock, footprint, fee and number of volumes: what the   *)
(* serial quote runs guarantee.                                            *)
(*                                                                         *)
(* The argument: a program is its setup followed by its quotes, so once    *)
(* something has been quoted the database changes only by fetching what it *)
(* lacked.  Whatever a quote found is therefore still there when the next  *)
(* one is made, and comes from a block that the node AlloyDB asks held     *)
(* during the run.                                                         *)
(***************************************************************************)
EXTENDS QuoteRuns, QuoteVolumesProofs, SequenceTheorems

Steps == SetupStep \cup QuoteStep

Fees == {"gas_price", "gas_price_again"}

Quotes == Path \cup Remote

(* The quotes that call the custom quoter, and the methods that make them. *)
Pools == {"pool_3000", "pool_500"}
QuoterMethod == {"revm_quoter", "arbitrage", "validate"}

-----------------------------------------------------------------------------
(* The programs.                                                           *)

LEMMA SetupSteps ==
    ASSUME NEW m \in Method
    PROVE  Setup[m] \in Seq(SetupStep)
<1>1. /\ Fork \in Seq(SetupStep)
      /\ Tokens \in Seq(SetupStep)
      /\ Custom \in Seq(SetupStep)
  BY DEF Fork, Tokens, Custom, Step, SetupStep
<1>2. ASSUME NEW a \in Seq(Contract) PROVE Load(a) \in Seq(SetupStep)
  BY DEF Load, Step, SetupStep
<1>3. /\ Load(<<quoter>>) \in Seq(SetupStep)
      /\ Load(<<quoter, pool_3000>>) \in Seq(SetupStep)
      /\ Load(<<ME, pool_3000>>) \in Seq(SetupStep)
      /\ Load(<<ME, pool_500, pool_3000>>) \in Seq(SetupStep)
  <2>1. /\ <<quoter>> \in Seq(Contract)
        /\ <<quoter, pool_3000>> \in Seq(Contract)
        /\ <<ME, pool_3000>> \in Seq(Contract)
        /\ <<ME, pool_500, pool_3000>> \in Seq(Contract)
    BY RunsAssumption
  <2> QED BY <2>1, <1>2
<1>4. CASE m = "call"
  BY <1>4 DEF Setup, Step, SetupStep
<1>5. CASE m = "anvil"
  BY <1>5 DEF Setup, Step, SetupStep
<1>6. CASE m = "revm"
  BY <1>6, <1>1, <1>3, ConcatProperties DEF Setup
<1>7. CASE m = "revm_cached"
  BY <1>7, <1>1, <1>3, ConcatProperties DEF Setup
<1>8. CASE m = "revm_quoter"
  BY <1>8, <1>1, <1>3, ConcatProperties DEF Setup
<1>9. CASE m = "arbitrage"
  <2>1. <<Step("init_cache_db", 0)>> \in Seq(SetupStep)
    BY DEF Step, SetupStep
  <2> QED BY <1>9, <1>1, <1>3, <2>1, ConcatProperties DEF Setup
<1>10. CASE m = "validate"
  <2>1. <<Step("gas_price_again", 110)>> \in Seq(SetupStep)
    BY DEF Step, SetupStep
  <2> QED BY <1>10, <1>1, <1>3, <2>1, ConcatProperties DEF Setup
<1> QED BY <1>4, <1>5, <1>6, <1>7, <1>8, <1>9, <1>10, RunsAssumption

LEMMA LoopSteps ==
    ASSUME NEW m \in Method
    PROVE  /\ Loop(m) \in Seq(QuoteStep)
           /\ First(m) \in Seq(QuoteStep)
<1> DEFINE w == Len(Body[m])
<1>1. /\ w \in {1, 2, 3}
      /\ \A i \in 1..w : Body[m][i] \in Quotes \cup {"assert_eq"}
  <2>1. Body[m] \in {<<"call">>, <<"quoter">>, <<"pool_3000">>,
                    <<"pool_500", "pool_3000">>,
                    <<"call_latest", "pool_3000", "assert_eq">>}
    BY RunsAssumption DEF Body
  <2> QED BY <2>1 DEF Quotes, Path, Remote
<1>2. Count \in Nat \ {0}
  BY RunsAssumption
<1>3. ASSUME NEW n \in 1..(Count * w)
      PROVE  /\ 1 + ((n - 1) % w) \in 1..w
             /\ 1 + ((n - 1) \div w) \in 1..Count
  <2> HIDE DEF w
  <2>1. CASE w = 1
    BY <2>1, <1>2
  <2>2. CASE w = 2
    BY <2>2, <1>2
  <2>3. CASE w = 3
    BY <2>3, <1>2
  <2> QED BY <1>1, <2>1, <2>2, <2>3
<1>4. Loop(m) \in [1..(Count * w) -> QuoteStep]
  BY <1>1, <1>3 DEF Loop, Step, QuoteStep, Quotes
<1>5. Count * w \in Nat
  <2> HIDE DEF w
  <2> QED BY <1>1, <1>2
<1>6. First(m) \in Seq(QuoteStep)
  <2>1. Body[m][1] \in Quotes
    BY RunsAssumption DEF Body, Quotes, Path, Remote
  <2>2. Step(Body[m][1], 1) \in QuoteStep
    BY <2>1, <1>2 DEF Step, QuoteStep, Quotes
  <2>3. <<Step(Body[m][1], 1)>> \in Seq(QuoteStep) /\ << >> \in Seq(QuoteStep)
    BY <2>2
  <2> QED BY <2>3 DEF First
<1> QED BY <1>4, <1>5, <1>6, SeqDef

IsQuote(step) == step.op \in Quotes \cup {"assert_eq"}

(* What the rest of a program is, whatever has been taken of it.           *)
LEMMA ProgramParts ==
    ASSUME NEW m \in Method
    PROVE  LET s == Setup[m]
               q == First(m) \o Loop(m)
           IN /\ s \in Seq(SetupStep) /\ q \in Seq(QuoteStep)
              /\ Program(m) \in Seq(Steps)
              /\ Len(Program(m)) = Len(s) + Len(q)
              /\ \A i \in 1..Len(s) : Program(m)[i] = s[i]
              /\ \A i \in 1..Len(q) : Program(m)[i + Len(s)] = q[i]
<1> DEFINE s == Setup[m]
           f == First(m)
           l == Loop(m)
<1>1. s \in Seq(SetupStep) /\ f \in Seq(QuoteStep) /\ l \in Seq(QuoteStep)
  BY SetupSteps, LoopSteps
<1>2. Program(m) = (s \o f) \o l
  BY DEF Program
<1> HIDE DEF s, f, l
<1>3. s \in Seq(Steps) /\ f \in Seq(Steps) /\ l \in Seq(Steps)
  BY <1>1, SeqMonotonic DEF Steps
<1>4. (s \o f) \o l = s \o (f \o l)
  BY <1>3, ConcatAssociative
<1>5. f \o l \in Seq(QuoteStep) /\ f \o l \in Seq(Steps)
  BY <1>1, <1>3, ConcatProperties
<1>6. /\ s \o (f \o l) \in Seq(Steps)
      /\ Len(s \o (f \o l)) = Len(s) + Len(f \o l)
      /\ \A i \in 1..(Len(s) + Len(f \o l)) :
           (s \o (f \o l))[i] = IF i <= Len(s) THEN s[i] ELSE (f \o l)[i - Len(s)]
  BY <1>3, <1>5, ConcatProperties
<1>7. Len(s) \in Nat /\ Len(f \o l) \in Nat
  BY <1>3, <1>5, LenProperties
<1>8. \A i \in 1..Len(f \o l) : (s \o (f \o l))[i + Len(s)] = (f \o l)[i]
  BY <1>6, <1>7
<1>9. \A i \in 1..Len(s) : (s \o (f \o l))[i] = s[i]
  BY <1>6, <1>7
<1> QED BY <1>1, <1>2, <1>4, <1>5, <1>6, <1>8, <1>9 DEF s, f, l

(* No setup comes after a quote, a fee is asked for before every eth_call  *)
(* and a block number before a pinned one, a comparison follows two        *)
(* quotes, and the first quote on a path is that of the largest volume.    *)
Ordered(p) ==
    \A i, j \in DOMAIN p : i < j /\ IsQuote(p[i]) => IsQuote(p[j])

Priced(p) ==
    \A j \in DOMAIN p : p[j].op \in Remote => \E i \in 1..(j - 1) : p[i].op \in Fees

Pinned(p) ==
    \A j \in DOMAIN p : p[j].op = "call" => \E i \in 1..(j - 1) : p[i].op = "block_number"

Compared(p) ==
    \A j \in DOMAIN p : p[j].op = "assert_eq" =>
        j > 2 /\ p[j - 1].op \in Quotes /\ p[j - 2].op \in Quotes

(* The node an eth_call goes to is not drawn anew after its block number   *)
(* was asked for.                                                          *)
Undisturbed(p) ==
    \A i, j \in DOMAIN p : p[i].op = "gas_price" /\ p[j].op = "call" =>
        i = 1 /\ \E b \in 1..(j - 1) : p[b].op = "block_number"

LargestFirst(p) ==
    \A j \in DOMAIN p : p[j].op \in Path =>
        p[j].arg = 1 \/ \E i \in 1..(j - 1) : p[i].op = p[j].op

(* The custom quoter is inserted before it is called, after all the rest   *)
(* of the setup.                                                           *)
QuoterLaid(p) ==
    \A j \in DOMAIN p : p[j].op \in Pools => \E i \in 1..(j - 1) : p[i].op = "mock_quoter"

QuoterLast(p) ==
    \A i, j \in DOMAIN p : i < j /\ p[i].op = "mock_quoter" => IsQuote(p[j])

(* A step is of one kind, which its name tells.                            *)
LEMMA StepKinds ==
    /\ \A x \in SetupStep : ~IsQuote(x) /\ x.op \notin Remote /\ x.op \notin Path
                            /\ x.op # "assert_eq"
    /\ \A x \in QuoteStep : IsQuote(x) /\ x.arg \in 1..Count
  BY DEF SetupStep, QuoteStep, IsQuote, Quotes, Path, Remote

LEMMA ProgramOrdered ==
    ASSUME NEW m \in Method
    PROVE  Ordered(Program(m))
<1> DEFINE P == Program(m)
           s == Setup[m]
           q == First(m) \o Loop(m)
<1>1. /\ s \in Seq(SetupStep) /\ q \in Seq(QuoteStep) /\ P \in Seq(Steps)
      /\ Len(P) = Len(s) + Len(q)
      /\ \A i \in 1..Len(s) : P[i] = s[i]
      /\ \A i \in 1..Len(q) : P[i + Len(s)] = q[i]
  BY ProgramParts
<1> HIDE DEF P, s, q
<1>2. Len(s) \in Nat /\ Len(q) \in Nat /\ DOMAIN P = 1..Len(P)
  BY <1>1, LenProperties
<1>3. \A i \in 1..Len(s) : ~IsQuote(P[i])
  BY <1>1, ElementOfSeq, StepKinds
<1>4. ASSUME NEW i \in 1..Len(P), i > Len(s) PROVE IsQuote(P[i])
  <2>1. i - Len(s) \in 1..Len(q)
    BY <1>1, <1>2, <1>4
  <2>2. P[(i - Len(s)) + Len(s)] = q[i - Len(s)]
    BY <2>1, <1>1
  <2>3. (i - Len(s)) + Len(s) = i
    BY <1>2
  <2>4. q[i - Len(s)] \in QuoteStep
    BY <1>1, <2>1, ElementOfSeq
  <2> QED BY <2>2, <2>3, <2>4, StepKinds
<1>5. Ordered(P)
  <2> SUFFICES ASSUME NEW i \in 1..Len(P), NEW j \in 1..Len(P), i < j, IsQuote(P[i])
               PROVE  IsQuote(P[j])
    BY <1>2 DEF Ordered
  <2>1. i > Len(s)
    BY <1>2, <1>3
  <2>2. j > Len(s)
    BY <1>2, <2>1
  <2> QED BY <2>2, <1>4
<1> QED BY <1>5 DEF P

Bodies == {<<"call">>, <<"quoter">>, <<"pool_3000">>, <<"pool_500", "pool_3000">>,
           <<"call_latest", "pool_3000", "assert_eq">>}

LEMMA BodyShape ==
    ASSUME NEW m \in Method
    PROVE  /\ Body[m] \in Bodies
           /\ Body[m] \in {<<"call">>, <<"call_latest", "pool_3000", "assert_eq">>}
                => m \in {"call", "anvil", "validate"}
           /\ First(m) # << >> => Len(Body[m]) = 1 /\ First(m) = <<Step(Body[m][1], 1)>>
  BY RunsAssumption DEF Body, Bodies, First

LEMMA LoopShape ==
    ASSUME NEW m \in Method
    PROVE  LET w == Len(Body[m])
               l == Loop(m)
           IN /\ Len(l) = Count * w
              /\ \A n \in 1..Len(l) :
                   /\ l[n].op \in {Body[m][i] : i \in 1..w}
                   /\ n <= w => l[n].arg = 1
                   /\ n > w => n - w \in 1..Len(l) /\ l[n - w].op = l[n].op
                   /\ w = 3 /\ l[n].op = Body[m][3] /\ Body[m][3] \notin {Body[m][1], Body[m][2]} =>
                        /\ n > 2
                        /\ l[n - 1].op = Body[m][2]
                        /\ l[n - 2].op = Body[m][1]
<1> DEFINE b == Body[m]
           w == Len(b)
           l == Loop(m)
<1>1. w \in {1, 2, 3}
  BY BodyShape DEF Bodies
<1>2. Count \in Nat \ {0}
  BY RunsAssumption
<1>3. l = [n \in 1..(Count * w) |->
             [op |-> b[1 + ((n - 1) % w)], arg |-> 1 + ((n - 1) \div w)]]
  BY DEF Loop, Step
<1> HIDE DEF b, w, l
<1>4. Count * w \in Nat
  BY <1>1, <1>2
<1>5. Len(l) = Count * w
  BY <1>3, <1>4
<1>6. ASSUME NEW n \in 1..(Count * w)
      PROVE  /\ l[n].op \in {b[i] : i \in 1..w}
             /\ n <= w => l[n].arg = 1
             /\ n > w => n - w \in 1..(Count * w) /\ l[n - w].op = l[n].op
             /\ w = 3 /\ l[n].op = b[3] /\ b[3] \notin {b[1], b[2]} =>
                  n > 2 /\ l[n - 1].op = b[2] /\ l[n - 2].op = b[1]
  <2>1. CASE w = 1
    BY <2>1, <1>2, <1>3
  <2>2. CASE w = 2
    <3>1. (n - 1) % 2 \in {0, 1}
      OBVIOUS
    <3>2. /\ l[n].op = b[1 + ((n - 1) % 2)]
          /\ l[n].arg = 1 + ((n - 1) \div 2)
      BY <2>2, <1>3
    <3>3. l[n].op \in {b[i] : i \in 1..w}
      <4>1. 1 + ((n - 1) % 2) \in 1..w
        BY <3>1, <2>2
      <4> QED BY <4>1, <3>2
    <3>4. n <= w => l[n].arg = 1
      <4>1. n \in Int /\ 1 <= n
        BY <1>4
      <4>2. n <= 2 => (n - 1) \div 2 = 0
        BY <4>1
      <4> QED BY <3>2, <2>2, <4>2
    <3>5. n > w => n - w \in 1..(Count * w) /\ l[n - w].op = l[n].op
      <4> SUFFICES ASSUME n > 2
                   PROVE  n - 2 \in 1..(Count * w) /\ l[n - 2].op = l[n].op
        BY <2>2
      <4>1. n - 2 \in 1..(Count * w)
        BY <1>4
      <4>2. l[n - 2].op = b[1 + ((n - 2 - 1) % 2)]
        BY <4>1, <2>2, <1>3
      <4>3. (n - 2 - 1) % 2 = (n - 1) % 2
        BY <4>1
      <4> QED BY <4>1, <4>2, <4>3, <3>2
    <3> QED BY <2>2, <3>3, <3>4, <3>5
  <2>3. CASE w = 3
    <3>1. (n - 1) % 3 \in {0, 1, 2}
      OBVIOUS
    <3>2. /\ l[n].op = b[1 + ((n - 1) % 3)]
          /\ l[n].arg = 1 + ((n - 1) \div 3)
      BY <2>3, <1>3
    <3>3. l[n].op \in {b[i] : i \in 1..w}
      BY <3>1, <3>2, <2>3
    <3>4. n <= w => l[n].arg = 1
      BY <3>2, <2>3
    <3>5. n > w => n - w \in 1..(Count * w) /\ l[n - w].op = l[n].op
      <4> SUFFICES ASSUME n > 3
                   PROVE  n - 3 \in 1..(Count * w) /\ l[n - 3].op = l[n].op
        BY <2>3
      <4>1. n - 3 \in 1..(Count * w)
        BY <1>4
      <4>2. l[n - 3].op = b[1 + ((n - 3 - 1) % 3)]
        BY <4>1, <2>3, <1>3
      <4>3. (n - 3 - 1) % 3 = (n - 1) % 3
        BY <4>1
      <4> QED BY <4>1, <4>2, <4>3, <3>2
    <3>6. ASSUME l[n].op = b[3], b[3] \notin {b[1], b[2]}
          PROVE  n > 2 /\ l[n - 1].op = b[2] /\ l[n - 2].op = b[1]
      <4>1. (n - 1) % 3 = 2
        <5>1. (n - 1) % 3 = 0 => l[n].op = b[1]
          BY <3>2
        <5>2. (n - 1) % 3 = 1 => l[n].op = b[2]
          BY <3>2
        <5> QED BY <3>1, <3>6, <5>1, <5>2
      <4>2. n > 2 /\ (n - 1 - 1) % 3 = 1 /\ (n - 2 - 1) % 3 = 0
        BY <4>1
      <4>3. n - 1 \in 1..(Count * w) /\ n - 2 \in 1..(Count * w)
        BY <4>2, <1>4
      <4>4. l[n - 1].op = b[1 + 1] /\ l[n - 2].op = b[1 + 0]
        BY <4>2, <4>3, <2>3, <1>3
      <4> QED BY <4>2, <4>4
    <3> QED BY <3>3, <3>4, <3>5, <3>6
  <2> QED BY <1>1, <2>1, <2>2, <2>3
<1> QED BY <1>5, <1>6 DEF b, w, l

(* The quotes of a program: First, then Loop.                              *)
LEMMA QuotesShape ==
    ASSUME NEW m \in Method
    PROVE  LET q == First(m) \o Loop(m)
           IN \A k \in 1..Len(q) :
                /\ q[k].op \in Remote => m \in {"call", "anvil", "validate"}
                /\ q[k].op = "call" => m \in {"call", "anvil"}
                /\ q[k].op \in Pools => m \in QuoterMethod
                /\ q[k].op = "assert_eq" =>
                     k > 2 /\ q[k - 1].op \in Quotes /\ q[k - 2].op \in Quotes
                /\ q[k].op \in Path =>
                     q[k].arg = 1 \/ \E i \in 1..(k - 1) : q[i].op = q[k].op
<1> DEFINE f == First(m)
           l == Loop(m)
           b == Body[m]
           w == Len(b)
           q == f \o l
<1>1. f \in Seq(QuoteStep) /\ l \in Seq(QuoteStep)
  BY LoopSteps
<1>2. /\ b \in Bodies
      /\ b \in {<<"call">>, <<"call_latest", "pool_3000", "assert_eq">>}
           => m \in {"call", "anvil", "validate"}
      /\ b = <<"call">> => m \in {"call", "anvil"}
      /\ b \notin {<<"call">>, <<"quoter">>} => m \in QuoterMethod
      /\ f # << >> => w = 1 /\ f = <<Step(b[1], 1)>>
  BY BodyShape, RunsAssumption DEF Body, QuoterMethod
<1>3. w \in {1, 2, 3}
  BY <1>2 DEF Bodies
<1>4. /\ Len(l) = Count * w
      /\ \A n \in 1..Len(l) :
           /\ l[n].op \in {b[i] : i \in 1..w}
           /\ n <= w => l[n].arg = 1
           /\ n > w => n - w \in 1..Len(l) /\ l[n - w].op = l[n].op
           /\ w = 3 /\ l[n].op = b[3] /\ b[3] \notin {b[1], b[2]} =>
                n > 2 /\ l[n - 1].op = b[2] /\ l[n - 2].op = b[1]
  BY LoopShape
<1> HIDE DEF f, l, b, w
<1>5. /\ Len(q) = Len(f) + Len(l)
      /\ \A i \in 1..Len(q) : q[i] = IF i <= Len(f) THEN f[i] ELSE l[i - Len(f)]
  BY <1>1, ConcatProperties
<1>6. Len(f) \in {0, 1} /\ Len(l) \in Nat
      /\ (Len(f) = 1 => w = 1 /\ f[1] = Step(b[1], 1))
  <2>1. CASE f = << >>
    BY <2>1, <1>1, LenProperties
  <2>2. CASE f # << >>
    BY <2>2, <1>1, <1>2, LenProperties
  <2> QED BY <2>1, <2>2
<1> HIDE DEF q
<1>7. ASSUME NEW k \in 1..Len(q)
      PROVE  q[k].op \in {b[i] : i \in 1..w}
  <2>1. CASE k <= Len(f)
    <3>1. k = 1 /\ w = 1 /\ q[k] = Step(b[1], 1)
      BY <2>1, <1>5, <1>6
    <3> QED BY <3>1 DEF Step
  <2>2. CASE k > Len(f)
    <3>1. k - Len(f) \in 1..Len(l) /\ q[k] = l[k - Len(f)]
      BY <2>2, <1>5, <1>6
    <3> QED BY <3>1, <1>4
  <2> QED BY <2>1, <2>2, <1>5, <1>6
<1>8. ASSUME NEW k \in 1..Len(q)
      PROVE  /\ q[k].op \in Remote => m \in {"call", "anvil", "validate"}
             /\ q[k].op = "call" => m \in {"call", "anvil"}
             /\ q[k].op \in Pools => m \in QuoterMethod
  <2>1. CASE b = <<"call">>
    BY <2>1, <1>2, <1>7 DEF w, Pools
  <2>2. CASE b = <<"call_latest", "pool_3000", "assert_eq">>
    BY <2>2, <1>2, <1>7 DEF w
  <2>3. CASE b = <<"quoter">>
    BY <2>3, <1>7 DEF w, Remote, Pools
  <2>4. CASE b \in {<<"pool_3000">>, <<"pool_500", "pool_3000">>}
    BY <2>4, <1>2, <1>7 DEF w, Remote
  <2> QED BY <2>1, <2>2, <2>3, <2>4, <1>2 DEF Bodies
<1>9. ASSUME NEW k \in 1..Len(q), q[k].op = "assert_eq"
      PROVE  k > 2 /\ q[k - 1].op \in Quotes /\ q[k - 2].op \in Quotes
  <2>1. b = <<"call_latest", "pool_3000", "assert_eq">>
    BY <1>2, <1>7, <1>9 DEF Bodies, w
  <2>2. w = 3 /\ Len(f) = 0
    BY <2>1, <1>6 DEF w
  <2>3. q[k] = l[k] /\ k \in 1..Len(l)
    BY <2>2, <1>5, <1>6
  <2>4. k > 2 /\ l[k - 1].op = "pool_3000" /\ l[k - 2].op = "call_latest"
    BY <2>1, <2>2, <2>3, <1>4, <1>9
  <2>5. q[k - 1] = l[k - 1] /\ q[k - 2] = l[k - 2]
    BY <2>2, <2>3, <2>4, <1>5, <1>6
  <2> QED BY <2>4, <2>5 DEF Quotes, Path, Remote
<1>10. ASSUME NEW k \in 1..Len(q), q[k].arg # 1
       PROVE  \E i \in 1..(k - 1) : q[i].op = q[k].op
  <2>1. k > Len(f)
    BY <1>5, <1>6, <1>10 DEF Step
  <2>2. k - Len(f) \in 1..Len(l) /\ q[k] = l[k - Len(f)]
    BY <2>1, <1>5, <1>6
  <2>3. k - Len(f) > w
    BY <2>2, <1>4, <1>10, <1>3, <1>6
  <2>4. k - Len(f) - w \in 1..Len(l) /\ l[k - Len(f) - w].op = q[k].op
    BY <2>2, <2>3, <1>4
  <2>5. k - w \in 1..(k - 1) /\ k - w \in 1..Len(q) /\ k - w > Len(f)
    BY <2>3, <2>4, <1>3, <1>5, <1>6
  <2>6. q[k - w] = l[(k - w) - Len(f)] /\ (k - w) - Len(f) = k - Len(f) - w
    BY <2>5, <1>3, <1>5, <1>6
  <2> QED BY <2>4, <2>5, <2>6
<1> QED BY <1>8, <1>9, <1>10 DEF q, f, l

(* The methods that make eth_calls ask for the gas price first, and those  *)
(* that pin a block for its number next.                                   *)
LEMMA SetupHeads ==
    ASSUME NEW m \in Method
    PROVE  /\ m \in {"call", "anvil", "validate"} =>
                Len(Setup[m]) > 0 /\ Setup[m][1].op \in Fees
           /\ m \in {"call", "anvil"} =>
                Len(Setup[m]) = 2 /\ Setup[m][2].op = "block_number"
<1>1. CASE m = "call"
  BY <1>1 DEF Setup, Step, Fees
<1>2. CASE m = "anvil"
  BY <1>2 DEF Setup, Step, Fees
<1>3. CASE m = "validate"
  <2> DEFINE again == <<Step("gas_price_again", 110)>>
             load == Load(<<ME, pool_3000>>)
  <2>1. Setup[m] = ((Fork \o again) \o load) \o Custom
    BY <1>3 DEF Setup
  <2>2. /\ Fork \in Seq(SetupStep) /\ Custom \in Seq(SetupStep)
        /\ again \in Seq(SetupStep)
        /\ Len(Fork) = 2 /\ Fork[1].op = "gas_price"
    BY DEF Fork, Custom, Step, SetupStep
  <2>3. load \in Seq(SetupStep)
    <3>1. <<ME, pool_3000>> \in Seq(Contract)
      BY RunsAssumption
    <3> QED BY <3>1 DEF Load, Step, SetupStep
  <2> HIDE DEF again, load
  <2>4. /\ Fork \o again \in Seq(SetupStep) /\ Len(Fork \o again) >= 2
        /\ (Fork \o again)[1] = Fork[1]
    <3>1. Len(again) \in Nat
      BY <2>2, LenProperties
    <3>2. /\ Fork \o again \in Seq(SetupStep)
          /\ Len(Fork \o again) = Len(Fork) + Len(again)
          /\ \A i \in 1..(Len(Fork) + Len(again)) :
               (Fork \o again)[i] = IF i <= Len(Fork) THEN Fork[i]
                                     ELSE again[i - Len(Fork)]
      BY <2>2, ConcatProperties
    <3> QED BY <2>2, <3>1, <3>2
  <2>5. /\ (Fork \o again) \o load \in Seq(SetupStep)
        /\ Len((Fork \o again) \o load) >= 2
        /\ ((Fork \o again) \o load)[1] = Fork[1]
    BY <2>3, <2>4, ConcatProperties, LenProperties
  <2>6. Len(Setup[m]) >= 2 /\ Setup[m][1] = Fork[1]
    BY <2>1, <2>2, <2>5, ConcatProperties, LenProperties
  <2> QED BY <1>3, <2>2, <2>6 DEF Fees
<1> QED BY <1>1, <1>2, <1>3

(* The custom quoter is inserted last of all, and by the methods that use  *)
(* it.                                                                     *)
LEMMA SetupTails ==
    ASSUME NEW m \in Method
    PROVE  LET s == Setup[m]
           IN /\ \A i \in 1..Len(s) : s[i].op = "mock_quoter" => i = Len(s)
              /\ m \in QuoterMethod => Len(s) > 0 /\ s[Len(s)].op = "mock_quoter"
<1> DEFINE Plain == {x \in SetupStep : x.op # "mock_quoter"}
<1>1. /\ Fork \in Seq(Plain) /\ Tokens \in Seq(Plain)
      /\ <<Step("init_cache_db", 0)>> \in Seq(Plain)
      /\ <<Step("gas_price_again", 110)>> \in Seq(Plain)
  BY DEF Fork, Tokens, Step, SetupStep
<1>2. /\ Load(<<quoter>>) \in Seq(Plain)
      /\ Load(<<quoter, pool_3000>>) \in Seq(Plain)
      /\ Load(<<ME, pool_3000>>) \in Seq(Plain)
      /\ Load(<<ME, pool_500, pool_3000>>) \in Seq(Plain)
  <2>1. ASSUME NEW a \in Seq(Contract) PROVE Load(a) \in Seq(Plain)
    BY DEF Load, Step, SetupStep
  <2>2. /\ <<quoter>> \in Seq(Contract)
        /\ <<quoter, pool_3000>> \in Seq(Contract)
        /\ <<ME, pool_3000>> \in Seq(Contract)
        /\ <<ME, pool_500, pool_3000>> \in Seq(Contract)
    BY RunsAssumption
  <2> QED BY <2>1, <2>2
<1>3. Setup[m] \in Seq(Plain) => \A i \in 1..Len(Setup[m]) : Setup[m][i].op # "mock_quoter"
  BY ElementOfSeq
<1>4. ASSUME NEW x \in Seq(Plain), Setup[m] = x \o Custom
      PROVE  /\ \A i \in 1..Len(Setup[m]) :
                  Setup[m][i].op = "mock_quoter" => i = Len(Setup[m])
             /\ Len(Setup[m]) > 0 /\ Setup[m][Len(Setup[m])].op = "mock_quoter"
  <2>1. /\ Custom \in Seq(SetupStep) /\ Len(Custom) = 2
        /\ Custom[1].op = "mock_tokens" /\ Custom[2].op = "mock_quoter"
    BY DEF Custom, Step, SetupStep
  <2>2. x \in Seq(SetupStep)
    BY SeqMonotonic
  <2> HIDE DEF Plain
  <2>3. /\ Len(Setup[m]) = Len(x) + 2 /\ Len(x) \in Nat
        /\ \A i \in 1..(Len(x) + 2) :
             Setup[m][i] = IF i <= Len(x) THEN x[i] ELSE Custom[i - Len(x)]
    <3>1. Len(x) \in Nat
      BY <2>2, LenProperties
    <3>2. /\ Len(x \o Custom) = Len(x) + Len(Custom)
          /\ \A i \in 1..(Len(x) + Len(Custom)) :
               (x \o Custom)[i] = IF i <= Len(x) THEN x[i] ELSE Custom[i - Len(x)]
      BY <2>1, <2>2, ConcatProperties
    <3> QED BY <1>4, <2>1, <3>1, <3>2
  <2>4. \A i \in 1..Len(x) : x[i].op # "mock_quoter"
    <3>1. \A i \in 1..Len(x) : x[i] \in Plain
      BY ElementOfSeq
    <3> QED BY <3>1 DEF Plain
  <2>5. Setup[m][Len(x) + 1] = Custom[1] /\ Setup[m][Len(x) + 2] = Custom[2]
    BY <2>3
  <2>6. ASSUME NEW i \in 1..(Len(x) + 2)
        PROVE  i \in 1..Len(x) \/ i = Len(x) + 1 \/ i = Len(x) + 2
    BY <2>3
  <2>7. ASSUME NEW i \in 1..Len(x) PROVE Setup[m][i].op # "mock_quoter"
    BY <2>3, <2>4
  <2> QED BY <2>1, <2>3, <2>5, <2>6, <2>7
<1>5. CASE m \in {"call", "anvil"}
  <2>1. Setup[m] \in Seq(Plain)
    <3>1. CASE m = "call"
      BY <3>1 DEF Setup, Step, SetupStep
    <3>2. CASE m = "anvil"
      BY <3>2 DEF Setup, Step, SetupStep
    <3> QED BY <1>5, <3>1, <3>2
  <2> QED BY <1>3, <1>5, <2>1 DEF QuoterMethod
<1>6. CASE m = "revm"
  <2>1. Setup[m] \in Seq(Plain)
    BY <1>6, <1>1, <1>2, ConcatProperties DEF Setup
  <2> QED BY <1>3, <1>6, <2>1 DEF QuoterMethod
<1>7. CASE m = "revm_cached"
  <2>1. Setup[m] \in Seq(Plain)
    BY <1>7, <1>1, <1>2, ConcatProperties DEF Setup
  <2> QED BY <1>3, <1>7, <2>1 DEF QuoterMethod
<1>8. CASE m = "revm_quoter"
  <2>1. Fork \o Load(<<ME, pool_3000>>) \in Seq(Plain)
    BY <1>1, <1>2, ConcatProperties
  <2> QED BY <1>4, <1>8, <2>1 DEF Setup
<1>9. CASE m = "arbitrage"
  <2>1. <<Step("init_cache_db", 0)>> \o Load(<<ME, pool_500, pool_3000>>) \in Seq(Plain)
    BY <1>1, <1>2, ConcatProperties
  <2> QED BY <1>4, <1>9, <2>1 DEF Setup
<1>10. CASE m = "validate"
  <2>1. (Fork \o <<Step("gas_price_again", 110)>>) \o Load(<<ME, pool_3000>>) \in Seq(Plain)
    BY <1>1, <1>2, ConcatProperties
  <2> QED BY <1>4, <1>10, <2>1 DEF Setup
<1> QED BY <1>5, <1>6, <1>7, <1>8, <1>9, <1>10, RunsAssumption

LEMMA ProgramShape ==
    ASSUME NEW m \in Method
    PROVE  /\ Priced(Program(m)) /\ Pinned(Program(m)) /\ Undisturbed(Program(m))
           /\ Compared(Program(m)) /\ LargestFirst(Program(m))
           /\ QuoterLaid(Program(m)) /\ QuoterLast(Program(m))
<1> DEFINE P == Program(m)
           s == Setup[m]
           q == First(m) \o Loop(m)
<1>1. /\ s \in Seq(SetupStep) /\ q \in Seq(QuoteStep) /\ P \in Seq(Steps)
      /\ Len(P) = Len(s) + Len(q)
      /\ \A i \in 1..Len(s) : P[i] = s[i]
      /\ \A i \in 1..Len(q) : P[i + Len(s)] = q[i]
  BY ProgramParts
<1>2. \A k \in 1..Len(q) :
        /\ q[k].op \in Remote => m \in {"call", "anvil", "validate"}
        /\ q[k].op = "call" => m \in {"call", "anvil"}
        /\ q[k].op \in Pools => m \in QuoterMethod
        /\ q[k].op = "assert_eq" =>
             k > 2 /\ q[k - 1].op \in Quotes /\ q[k - 2].op \in Quotes
        /\ q[k].op \in Path =>
             q[k].arg = 1 \/ \E i \in 1..(k - 1) : q[i].op = q[k].op
  BY QuotesShape
<1>3. /\ m \in {"call", "anvil", "validate"} => Len(s) > 0 /\ s[1].op \in Fees
      /\ m \in {"call", "anvil"} => Len(s) = 2 /\ s[2].op = "block_number"
  BY SetupHeads
<1>12. /\ \A i \in 1..Len(s) : s[i].op = "mock_quoter" => i = Len(s)
       /\ m \in QuoterMethod => Len(s) > 0 /\ s[Len(s)].op = "mock_quoter"
  BY SetupTails
<1> HIDE DEF P, s, q
<1>4. /\ Len(s) \in Nat /\ Len(q) \in Nat
      /\ DOMAIN P = 1..(Len(s) + Len(q))
  BY <1>1, LenProperties
<1>10. ASSUME NEW i \in 1..Len(s) PROVE P[i] = s[i]
  BY <1>1
<1>11. ASSUME NEW i \in 1..Len(q) PROVE P[i + Len(s)] = q[i]
  BY <1>1
<1>5. ASSUME NEW j \in DOMAIN P, P[j].op \in Quotes \cup {"assert_eq"}
      PROVE  j - Len(s) \in 1..Len(q) /\ P[j] = q[j - Len(s)]
  <2>1. j > Len(s)
    <3> SUFFICES ASSUME j <= Len(s) PROVE FALSE
      BY <1>4
    <3>1. P[j] \in SetupStep
      BY <1>1, <1>4, ElementOfSeq
    <3> QED BY <3>1, <1>5, StepKinds DEF IsQuote
  <2>2. j - Len(s) \in 1..Len(q) /\ (j - Len(s)) + Len(s) = j
    BY <2>1, <1>1, <1>4
  <2> QED BY <2>2, <1>1
<1>6. Priced(P)
  <2> SUFFICES ASSUME NEW j \in DOMAIN P, P[j].op \in Remote
               PROVE  \E i \in 1..(j - 1) : P[i].op \in Fees
    BY DEF Priced
  <2>1. j - Len(s) \in 1..Len(q) /\ P[j] = q[j - Len(s)]
    BY <1>5 DEF Quotes
  <2>2. Len(s) > 0 /\ s[1].op \in Fees
    BY <2>1, <1>2, <1>3
  <2>3. P[1].op \in Fees
    <3>1. 1 \in 1..Len(s)
      BY <2>2, <1>4
    <3> QED BY <3>1, <2>2, <1>10
  <2>4. 1 \in 1..(j - 1)
    BY <2>1, <2>2, <1>4
  <2> QED BY <2>3, <2>4
<1>15. Undisturbed(P)
  <2> SUFFICES ASSUME NEW i \in DOMAIN P, NEW j \in DOMAIN P,
                      P[i].op = "gas_price", P[j].op = "call"
               PROVE  i = 1 /\ \E b \in 1..(j - 1) : P[b].op = "block_number"
    BY DEF Undisturbed
  <2>1. j - Len(s) \in 1..Len(q) /\ P[j] = q[j - Len(s)]
    BY <1>5 DEF Quotes, Remote
  <2>2. Len(s) = 2 /\ s[2].op = "block_number"
    BY <2>1, <1>2, <1>3
  <2>3. 2 \in 1..(j - 1) /\ P[2].op = "block_number"
    BY <2>1, <2>2, <1>4, <1>10
  <2>4. i <= 2
    <3> SUFFICES ASSUME i > 2 PROVE FALSE
      BY <1>4, <2>2
    <3>1. i - 2 \in 1..Len(q) /\ (i - 2) + Len(s) = i
      BY <1>4, <2>2
    <3>2. P[i] = q[i - 2] /\ q[i - 2] \in QuoteStep
      BY <1>1, <1>11, <3>1, ElementOfSeq
    <3>3. IsQuote(P[i])
      BY <3>2, StepKinds
    <3> QED BY <3>3 DEF IsQuote, Quotes, Path, Remote
  <2> QED BY <1>4, <2>3, <2>4
<1>7. Pinned(P)
  <2> SUFFICES ASSUME NEW j \in DOMAIN P, P[j].op = "call"
               PROVE  \E i \in 1..(j - 1) : P[i].op = "block_number"
    BY DEF Pinned
  <2>1. j - Len(s) \in 1..Len(q) /\ P[j] = q[j - Len(s)]
    BY <1>5 DEF Quotes, Remote
  <2>2. Len(s) = 2 /\ s[2].op = "block_number"
    BY <2>1, <1>2, <1>3
  <2>3. 2 \in 1..(j - 1) /\ P[2].op = "block_number"
    BY <2>1, <2>2, <1>4, <1>10, <1>11
  <2> QED BY <2>3
<1>8. Compared(P)
  <2> SUFFICES ASSUME NEW j \in DOMAIN P, P[j].op = "assert_eq"
               PROVE  j > 2 /\ P[j - 1].op \in Quotes /\ P[j - 2].op \in Quotes
    BY DEF Compared
  <2> DEFINE k == j - Len(s)
  <2>0. j \in Int /\ Len(s) \in Int /\ j = k + Len(s)
    BY <1>4
  <2>1. k \in 1..Len(q) /\ P[j] = q[k]
    BY <1>5
  <2>2. k > 2 /\ q[k - 1].op \in Quotes /\ q[k - 2].op \in Quotes
    BY <2>1, <1>2
  <2>3. P[(k - 1) + Len(s)] = q[k - 1] /\ P[(k - 2) + Len(s)] = q[k - 2]
    <3> HIDE DEF k
    <3>1. k - 1 \in 1..Len(q) /\ k - 2 \in 1..Len(q)
      BY <2>1, <2>2, <1>4
    <3> QED BY <3>1, <1>11
  <2>4. (k - 1) + Len(s) = j - 1 /\ (k - 2) + Len(s) = j - 2 /\ j > 2
    <3> HIDE DEF k
    <3> QED BY <2>0, <2>1, <2>2, <1>4
  <2> QED BY <2>2, <2>3, <2>4
<1>9. LargestFirst(P)
  <2> SUFFICES ASSUME NEW j \in DOMAIN P, P[j].op \in Path, P[j].arg # 1
               PROVE  \E i \in 1..(j - 1) : P[i].op = P[j].op
    BY DEF LargestFirst
  <2> DEFINE k == j - Len(s)
  <2>0. j \in Int /\ Len(s) \in Int /\ j = k + Len(s)
    BY <1>4
  <2>1. k \in 1..Len(q) /\ P[j] = q[k]
    BY <1>5 DEF Quotes
  <2>2. PICK i \in 1..(k - 1) : q[i].op = q[k].op
    BY <2>1, <1>2
  <2>3. i + Len(s) \in 1..(j - 1)
    <3> HIDE DEF k
    <3> QED BY <2>0, <2>1, <2>2, <1>4
  <2>4. P[i + Len(s)] = q[i]
    <3>1. i \in 1..Len(q)
      <4> HIDE DEF k
      <4> QED BY <2>1, <2>2, <1>4
    <3> QED BY <3>1, <1>11
  <2> QED BY <2>1, <2>2, <2>3, <2>4
<1>13. QuoterLaid(P)
  <2> SUFFICES ASSUME NEW j \in DOMAIN P, P[j].op \in Pools
               PROVE  \E i \in 1..(j - 1) : P[i].op = "mock_quoter"
    BY DEF QuoterLaid
  <2>1. j - Len(s) \in 1..Len(q) /\ P[j] = q[j - Len(s)]
    BY <1>5 DEF Quotes, Path, Pools
  <2>2. Len(s) > 0 /\ s[Len(s)].op = "mock_quoter"
    BY <2>1, <1>2, <1>12
  <2>3. Len(s) \in 1..Len(s)
    BY <2>2, <1>4
  <2>4. P[Len(s)].op = "mock_quoter" /\ Len(s) \in 1..(j - 1)
    BY <2>1, <2>2, <2>3, <1>4, <1>10
  <2> QED BY <2>4
<1>14. QuoterLast(P)
  <2> SUFFICES ASSUME NEW i \in DOMAIN P, NEW j \in DOMAIN P, i < j,
                      P[i].op = "mock_quoter"
               PROVE  IsQuote(P[j])
    BY DEF QuoterLast
  <2>1. i >= Len(s)
    <3> SUFFICES ASSUME i < Len(s) PROVE FALSE
      BY <1>4
    <3>1. i \in 1..Len(s)
      BY <1>4
    <3> QED BY <3>1, <1>4, <1>10, <1>12
  <2>2. j - Len(s) \in 1..Len(q) /\ (j - Len(s)) + Len(s) = j
    BY <2>1, <1>4
  <2>3. P[j] = q[j - Len(s)]
    BY <2>2, <1>11
  <2>4. q[j - Len(s)] \in QuoteStep
    BY <2>2, <1>1, ElementOfSeq
  <2> QED BY <2>3, <2>4, StepKinds
<1> QED BY <1>6, <1>7, <1>8, <1>9, <1>13, <1>14, <1>15 DEF P

-----------------------------------------------------------------------------
(* Facts about the constants.                                              *)

LEMMA VolFacts ==
    /\ 1 \in 1..Count
    /\ \A i \in 1..Count : vol[i] \in Amount /\ vol[i] <= vol[1]
<1>1. MaxAmount \in Nat /\ Count \in Nat \ {0} /\ 1 \in 1..Count
  BY ForkDBAssumption, RunsAssumption
<1>2. Distance(0, MaxAmount) = MaxAmount
  BY <1>1, WordAssumption, RunsAssumption DEF Distance
<1>3. ASSUME NEW i \in 1..Count PROVE vol[i] \in Amount /\ vol[i] <= vol[1]
  <2>1. vol[i] \in 0..Distance(0, MaxAmount)
    BY <1>1, VolumesWithinDistance DEF vol
  <2>2. vol[i] <= vol[1]
    BY <1>1, VolumesDescend DEF vol
  <2> QED BY <1>2, <2>1, <2>2 DEF Amount
<1> QED BY <1>1, <1>3

LEMMA ReadsAreKeys ==
    ASSUME NEW p \in Path, NEW i \in 1..Count
    PROVE  Reads[p][vol[i]] \in SUBSET Key
  BY VolFacts, RunsAssumption DEF Footprint

LEMMA OutInAnswer ==
    ASSUME NEW p \in Path, NEW i \in 1..Count, NEW db \in DB, NEW op \in Quotes
    PROVE  [op |-> op, index |-> i, out |-> AmountOut(db, Reads[p][vol[i]])] \in Answer
<1>1. AmountOut(db, Reads[p][vol[i]]) \in [Reads[p][vol[i]] -> Value]
  BY ReadsAreKeys, ForkDBAssumption DEF AmountOut, DB
<1>2. vol[i] \in Amount
  BY VolFacts
<1>3. AmountOut(db, Reads[p][vol[i]])
        \in UNION {[Reads[q][a] -> Value] : q \in Path, a \in Amount}
  <2> DEFINE o == AmountOut(db, Reads[p][vol[i]])
             v == vol[i]
  <2>1. o \in [Reads[p][v] -> Value] /\ v \in Amount
    BY <1>1, <1>2
  <2> HIDE DEF o, v
  <2>2. o \in UNION {[Reads[q][a] -> Value] : q \in Path, a \in Amount}
    <3> DEFINE F == [Reads[p][v] -> Value]
    <3>1. F \in {[Reads[q][a] -> Value] : q \in Path, a \in Amount}
      BY <2>1
    <3>2. o \in F
      BY <2>1
    <3> HIDE DEF F
    <3> QED BY <3>1, <3>2
  <2> QED BY <2>2 DEF o
<1> QED BY <1>3 DEF Answer, Quotes

LEMMA ChainIsDB == ASSUME NEW b \in Block PROVE Chain[b] \in DB
  BY ForkDBAssumption DEF DB

LEMMA FetchInDB ==
    ASSUME NEW db \in DB, NEW k \in Key, NEW b \in Block
    PROVE  Fetch(db, k, b) \in DB
  BY ForkDBAssumption DEF Fetch, DB

(* The counter draws one of the nodes.                                     *)
LEMMA DrawnIsProvider == counter \in Nat => Drawn \in Provider
<1>1. Providers \in Nat \ {0}
  BY RunsAssumption
<1> QED BY <1>1 DEF Drawn, Provider

(* What the nodes know, and how it grows.                                  *)
LEMMA HeldBlocks ==
    ASSUME TypeOK, NEW p \in Provider
    PROVE  /\ head[p] \in Block /\ head[p] \in Nat /\ since[p] \in Nat
           /\ since[p] <= head[p]
           /\ Held(p) \subseteq Block /\ head[p] \in Held(p)
           /\ BaseFee[head[p]] \in Nat
<1>1. /\ head[p] \in Block /\ since[p] \in Block /\ since[p] <= head[p]
      /\ LastBlock \in Nat
  BY ForkDBAssumption DEF TypeOK
<1>2. head[p] \in Nat /\ since[p] \in Nat /\ head[p] <= LastBlock
  BY <1>1 DEF Block
<1> QED BY <1>1, <1>2, RunsAssumption DEF Held, Block

(* A run that goes on began where it began, and its nodes forget nothing.  *)
Going ==
    /\ since' = since
    /\ \A p \in Provider : Held(p) \subseteq Held(p)'

LEMMA NewBlockGoes ==
    ASSUME TypeOK, NEW p \in Provider, NewBlock(p)
    PROVE  Going
<1> SUFFICES ASSUME NEW n \in Provider PROVE Held(n) \subseteq since[n]..head'[n]
  BY DEF NewBlock, run, Going, Held
<1>1. head[n] \in Nat /\ since[n] \in Nat /\ head'[n] \in {head[n], head[n] + 1}
  BY HeldBlocks DEF NewBlock, TypeOK
<1> QED BY <1>1 DEF Held

LEMMA SameGoes ==
    ASSUME UNCHANGED <<head, since>>
    PROVE  Going
  BY DEF Going, Held

(* Taking the step at the head of the program.                             *)
LEMMA Taken ==
    ASSUME todo \in Seq(Steps), todo # << >>, todo' = Tail(todo)
    PROVE  /\ todo' \in Seq(Steps)
           /\ Len(todo) \in Nat \ {0} /\ Len(todo') = Len(todo) - 1
           /\ DOMAIN todo = 1..Len(todo) /\ DOMAIN todo' = 1..Len(todo')
           /\ \A i \in DOMAIN todo' : i + 1 \in DOMAIN todo /\ todo'[i] = todo[i + 1]
           /\ Head(todo) = todo[1] /\ Head(todo) \in Steps
<1>1. /\ Head(todo) \in Steps /\ Tail(todo) \in Seq(Steps)
      /\ Len(Tail(todo)) = Len(todo) - 1
      /\ \A i \in 1..Len(Tail(todo)) : Tail(todo)[i] = todo[i + 1]
  BY HeadTailProperties
<1>2. Len(todo) \in Nat \ {0} /\ DOMAIN todo = 1..Len(todo)
      /\ DOMAIN todo' = 1..Len(todo')
  BY <1>1, EmptySeq, LenProperties
<1>3. Head(todo) = todo[1]
  OBVIOUS
<1> QED BY <1>1, <1>2, <1>3

(* What a step at the head asks for.                                       *)
LEMMA HeadStep ==
    ASSUME NEW x \in Steps
    PROVE  /\ x.op \in Quotes \cup {"assert_eq"} => x.arg \in 1..Count
           /\ x.op = "init_account" => x.arg \in Contract
           /\ x.op = "gas_price_again" => x.arg \in {100, 110}
  BY DEF Steps, SetupStep, QuoteStep, Quotes, Path, Remote

-----------------------------------------------------------------------------
(* Type correctness.                                                       *)

LEMMA InitTypeOK == Init => TypeOK
<1> SUFFICES ASSUME Init PROVE TypeOK
  OBVIOUS
<1>1. Empty \in DB
  BY DEF Empty, DB
<1>2. 0 \in Block /\ 0 <= 0 /\ 0 \in Provider
  BY ForkDBAssumption, RunsAssumption DEF Block, Provider
<1> QED BY <1>1, <1>2 DEF Init, TypeOK

LEMMA AskedType ==
    ASSUME TypeOK, NEW p \in Provider, Asked(p)
    PROVE  served' \in [Provider -> Nat]
  BY DEF TypeOK, Asked

LEMMA CalledType ==
    ASSUME TypeOK, NEW b \in Block, Called(b), ended = "running", todo # << >>,
           Head(todo).op \in Remote
    PROVE  TypeOK'
<1>1. todo \in Seq(Steps) /\ Head(todo) \in Steps
  BY HeadTailProperties DEF TypeOK, Steps
<1>2. Head(todo).arg \in 1..Count
  BY <1>1, HeadStep DEF Quotes
<1>3. served' \in [Provider -> Nat]
  BY AskedType DEF Called, TypeOK
<1>4. CASE Stop("refused") /\ UNCHANGED answers
  BY <1>3, <1>4 DEF Called, Stop, TypeOK
<1>5. CASE Stop("undecodable") /\ UNCHANGED answers
  BY <1>3, <1>5 DEF Called, Stop, TypeOK
<1>6. CASE Record(AmountOut(Chain[b], Reads["quoter"][vol[Head(todo).arg]])) /\ Advance
  <2>1. [op |-> Head(todo).op, index |-> Head(todo).arg,
         out |-> AmountOut(Chain[b], Reads["quoter"][vol[Head(todo).arg]])] \in Answer
    BY <1>2, OutInAnswer, ChainIsDB DEF Quotes, Path
  <2>2. answers' \in Seq(Answer)
    BY <2>1, <1>6, AppendProperties DEF Record, TypeOK
  <2>3. todo' \in Seq(Steps)
    BY <1>1, <1>6, Taken DEF Advance
  <2> QED BY <1>3, <1>6, <2>2, <2>3 DEF Called, Advance, TypeOK, Steps
<1> QED BY <1>4, <1>5, <1>6 DEF Called

LEMMA NextTypeOK == TypeOK /\ [Next]_vars => TypeOK'
<1> SUFFICES ASSUME TypeOK, [Next]_vars PROVE TypeOK'
  OBVIOUS
<1>1. /\ todo \in Seq(Steps)
      /\ todo # << >> => Head(todo) \in Steps /\ Tail(todo) \in Seq(Steps)
  BY HeadTailProperties DEF TypeOK, Steps
<1>2. Drawn \in Provider
  BY DrawnIsProvider DEF TypeOK
<1>3. \A p \in Provider : BaseFee[head[p]] \in Nat
  BY HeldBlocks
<1>4. ASSUME NEW p \in Provider, NewBlock(p) PROVE TypeOK'
  <2>1. head[p] + 1 \in Block
    BY <1>4, HeldBlocks, ForkDBAssumption DEF NewBlock, Block
  <2>2. \A n \in Provider : since[n] <= head'[n]
    BY <1>4, HeldBlocks DEF NewBlock, TypeOK
  <2> QED BY <1>4, <2>1, <2>2 DEF NewBlock, run, TypeOK
<1>5. ASSUME NEW m \in Method, Start(m) PROVE TypeOK'
  <2>1. Empty \in DB
    BY DEF Empty, DB
  <2>2. 0 \in Provider
    BY RunsAssumption DEF Provider
  <2>3. todo' \in Seq(SetupStep \cup QuoteStep)
    BY <1>5, ProgramParts DEF Start, Steps
  <2>4. 0 \in Block /\ \A p \in Provider : head[p] <= head[p]
    BY HeldBlocks, ForkDBAssumption DEF Block
  <2> QED BY <1>5, <2>1, <2>2, <2>3, <2>4 DEF Start, Blank, TypeOK
<1>6. CASE GasPrice
  BY <1>1, <1>2, <1>3, <1>6, AskedType DEF GasPrice, At, Advance, TypeOK, Steps
<1>7. CASE GasPriceAgain
  <2>1. Head(todo).arg \in {100, 110}
    BY <1>1, <1>7, HeadStep DEF GasPriceAgain, At
  <2>2. base_fee' \in Nat
    BY <1>3, <1>7, <2>1 DEF GasPriceAgain, TypeOK
  <2> QED BY <1>1, <1>7, <2>2, AskedType DEF GasPriceAgain, At, Advance, TypeOK, Steps
<1>8. CASE GetBlockNumber
  BY <1>1, <1>8, AskedType DEF GetBlockNumber, At, Advance, TypeOK, Steps
<1>9. CASE InitCacheDB
  <2>1. Empty \in DB
    BY DEF Empty, DB
  <2> QED BY <1>1, <1>2, <1>9, <2>1 DEF InitCacheDB, At, Advance, TypeOK, Steps
<1>10. CASE InitAccount
  <2>1. Head(todo).arg \in Contract /\ todo # << >>
    BY <1>1, <1>10, HeadStep DEF InitAccount, At
  <2>2. counter' \in Nat /\ todo' \in Seq(Steps)
    BY <1>1, <1>10, <2>1 DEF InitAccount, Advance, TypeOK
  <2>3. CASE /\ disk[Head(todo).arg] # Vacant
             /\ cache' = [cache EXCEPT ![Head(todo).arg] = disk[Head(todo).arg]]
             /\ UNCHANGED <<disk, served>>
    BY <1>10, <2>1, <2>2, <2>3 DEF InitAccount, Advance, TypeOK, DB, Key, Steps
  <2>4. CASE /\ disk' = [disk EXCEPT ![Head(todo).arg] = Chain[head[Drawn]][Head(todo).arg]]
             /\ cache' = Fetch(cache, Head(todo).arg, head[Drawn])
             /\ Asked(Drawn)
    <3>1. Head(todo).arg \in Key /\ Chain[head[Drawn]][Head(todo).arg] \in Value
      BY <1>2, <2>1, HeldBlocks, ForkDBAssumption DEF Key
    <3>2. cache' \in DB
      BY <1>2, <2>4, <3>1, HeldBlocks, FetchInDB DEF TypeOK
    <3>3. served' \in [Provider -> Nat]
      BY <1>2, <2>4, AskedType
    <3> QED BY <1>10, <2>1, <2>2, <2>4, <3>1, <3>2, <3>3
            DEF InitAccount, Advance, TypeOK, Steps
  <2> QED BY <1>10, <2>3, <2>4 DEF InitAccount
<1>11. ASSUME NEW keys, Insert(keys), todo # << >>, ended = "running",
              \A k \in keys : Mock[k] # Vacant
       PROVE  TypeOK'
  <2>1. cache' \in DB
    BY <1>11, ForkDBAssumption DEF Insert, TypeOK, DB
  <2> QED BY <1>1, <1>11, <2>1 DEF Insert, Advance, TypeOK, Steps
<1>12. CASE MockTokens \/ MockQuoter
  BY <1>11, <1>12 DEF MockTokens, MockQuoter, At, Mocked
<1>13. CASE FetchLatest
  <2>1. PICK k \in Missing(cache, Needs) : cache' = Fetch(cache, k, head[db_provider])
    BY <1>13 DEF FetchLatest
  <2>2. Head(todo).op \in Path /\ Head(todo) \in Steps
    BY <1>1, <1>13 DEF FetchLatest, AtLocal, At
  <2>3. k \in Key
    BY <2>1, <2>2, HeadStep, ReadsAreKeys DEF Missing, Needs, Quotes
  <2>4. cache' \in DB
    BY <2>1, <2>3, HeldBlocks, FetchInDB DEF TypeOK
  <2>5. served' \in [Provider -> Nat]
    BY <1>13, AskedType DEF FetchLatest, TypeOK
  <2> QED BY <1>13, <2>4, <2>5 DEF FetchLatest, TypeOK
<1>14. CASE LocalQuote
  <2>1. Head(todo).op \in Path /\ Head(todo) \in Steps /\ todo # << >>
    BY <1>1, <1>14 DEF LocalQuote, AtLocal, At
  <2>2. Head(todo).arg \in 1..Count
    BY <2>1, HeadStep DEF Quotes
  <2>3. [op |-> Head(todo).op, index |-> Head(todo).arg,
         out |-> AmountOut(cache, Needs)] \in Answer
    BY <2>1, <2>2, OutInAnswer DEF Needs, TypeOK, Quotes
  <2>4. answers' \in Seq(Answer)
    BY <1>14, <2>3, AppendProperties DEF LocalQuote, Record, TypeOK
  <2> QED BY <1>1, <1>14, <2>1, <2>4 DEF LocalQuote, Advance, TypeOK, Steps
<1>15. CASE LocalUndecodable
  BY <1>15 DEF LocalUndecodable, Stop, TypeOK
<1>16. CASE CallPinned
  <2>1. pin \in Block
    BY DEF TypeOK
  <2> QED BY <1>16, <2>1, CalledType DEF CallPinned, At, Remote
<1>17. CASE CallLatest
  <2>1. head[provider] \in Block
    BY DEF TypeOK
  <2> QED BY <1>17, <2>1, CalledType DEF CallLatest, At, Remote
<1>18. CASE AssertEq
  BY <1>1, <1>18 DEF AssertEq, At, Advance, Stop, TypeOK, Steps
<1>19. CASE Finish
  BY <1>19 DEF Finish, Stop, TypeOK
<1>20. CASE GiveUp
  BY <1>20 DEF GiveUp, Stop, TypeOK
<1>21. CASE UNCHANGED vars
  BY <1>21 DEF vars, run, TypeOK
<1> QED BY <1>4, <1>5, <1>6, <1>7, <1>8, <1>9, <1>10, <1>12, <1>13, <1>14,
           <1>15, <1>16, <1>17, <1>18, <1>19, <1>20, <1>21 DEF Next, Run

(* The runs stay in their types, whatever the chain does between steps.    *)
THEOREM TypeCorrect == Spec => []TypeOK
  BY InitTypeOK, NextTypeOK, PTL DEF Spec

-----------------------------------------------------------------------------
(* What a step does to the program and the answers.                        *)

Same == UNCHANGED <<todo, answers>>

(* A step of the setup, or the comparison.                                 *)
Prepared == todo # << >> /\ Advance /\ UNCHANGED answers /\ Head(todo).op \notin Quotes

Answered ==
    /\ todo # << >> /\ Advance /\ Head(todo).op \in Quotes
    /\ \E out : answers' = Append(answers,
           [op |-> Head(todo).op, index |-> Head(todo).arg, out |-> out])

Started == \E m \in Method : todo' = Program(m) /\ answers' = << >>

LEMMA CalledKind ==
    ASSUME NEW b, Called(b), todo # << >>, Head(todo).op \in Remote
    PROVE  Same \/ Answered
  BY DEF Called, Same, Answered, Record, Stop, Quotes

LEMMA StepKind ==
    ASSUME [Next]_vars
    PROVE  Same \/ Prepared \/ Answered \/ Started
<1>1. CASE UNCHANGED vars \/ \E p \in Provider : NewBlock(p)
  BY <1>1 DEF NewBlock, vars, run, Same
<1>2. CASE \E m \in Method : Start(m)
  BY <1>2 DEF Start, Blank, Started
<1>3. CASE GasPrice \/ GasPriceAgain \/ GetBlockNumber \/ InitCacheDB
  BY <1>3 DEF GasPrice, GasPriceAgain, GetBlockNumber, InitCacheDB, At, Prepared,
              Quotes, Path, Remote
<1>4. CASE InitAccount
  BY <1>4 DEF InitAccount, At, Prepared, Quotes, Path, Remote
<1>5. CASE MockTokens \/ MockQuoter
  BY <1>5 DEF MockTokens, MockQuoter, Insert, At, Prepared, Quotes, Path, Remote
<1>6. CASE FetchLatest \/ LocalUndecodable \/ Finish \/ GiveUp
  BY <1>6 DEF FetchLatest, LocalUndecodable, Finish, GiveUp, Stop, Same
<1>7. CASE LocalQuote
  BY <1>7 DEF LocalQuote, AtLocal, At, Record, Answered, Quotes
<1>8. CASE CallPinned \/ CallLatest
  BY <1>8, CalledKind DEF CallPinned, CallLatest, At, Remote
<1>9. CASE AssertEq
  BY <1>9 DEF AssertEq, At, Stop, Same, Prepared, Quotes, Path, Remote
<1> QED BY <1>1, <1>2, <1>3, <1>4, <1>5, <1>6, <1>7, <1>8, <1>9 DEF Next, Run

LEMMA AnswerAdded ==
    ASSUME TypeOK, Answered
    PROVE  /\ Len(answers) \in Nat /\ Len(answers') = Len(answers) + 1
           /\ DOMAIN answers = 1..Len(answers) /\ DOMAIN answers' = 1..(Len(answers) + 1)
           /\ \A n \in DOMAIN answers : answers'[n] = answers[n]
           /\ answers'[Len(answers) + 1].op = Head(todo).op
           /\ answers'[Len(answers) + 1].index = Head(todo).arg
<1>1. PICK a : answers' = Append(answers, a)
               /\ a.op = Head(todo).op /\ a.index = Head(todo).arg
  BY DEF Answered
<1>2. answers \in Seq(Answer)
  BY DEF TypeOK
<1> QED BY <1>1, <1>2, LenProperties

-----------------------------------------------------------------------------
(* What is left of the program.                                            *)

(* Nothing of the setup is left once something was quoted.                 *)
SetupFirst ==
    /\ Ordered(todo)
    /\ answers # << >> => \A j \in DOMAIN todo : IsQuote(todo[j])

(* Two quotes come before a comparison.                                    *)
ComparedLeft ==
    \A j \in DOMAIN todo : todo[j].op = "assert_eq" =>
        /\ j + Len(answers) > 2
        /\ j > 1 => todo[j - 1].op \in Quotes
        /\ j > 2 => todo[j - 2].op \in Quotes

Quoted(given, p) == \E n \in DOMAIN given : given[n].op = p

(* The first quote on a path is that of the largest volume.                *)
LargestLeft ==
    \A j \in DOMAIN todo : todo[j].op \in Path =>
        \/ todo[j].arg = 1
        \/ Quoted(answers, todo[j].op)
        \/ \E i \in 1..(j - 1) : todo[i].op = todo[j].op

LEMMA StartedProgram ==
    ASSUME Started
    PROVE  SetupFirst' /\ ComparedLeft' /\ LargestLeft'
<1>1. PICK m \in Method : todo' = Program(m) /\ answers' = << >>
  BY DEF Started
<1>2. /\ Ordered(todo') /\ Compared(todo') /\ LargestFirst(todo')
      /\ todo' \in Seq(Steps)
  BY <1>1, ProgramOrdered, ProgramShape, ProgramParts
<1>3. SetupFirst'
  BY <1>1, <1>2 DEF SetupFirst
<1>4. ComparedLeft'
  <2>1. Len(answers') = 0 /\ DOMAIN todo' = 1..Len(todo') /\ Len(todo') \in Nat
    BY <1>1, <1>2, LenProperties, EmptySeq
  <2> QED BY <1>2, <2>1 DEF ComparedLeft, Compared
<1>5. LargestLeft'
  BY <1>2 DEF LargestLeft, LargestFirst
<1> QED BY <1>3, <1>4, <1>5

LEMMA SetupFirstStep ==
    ASSUME TypeOK, SetupFirst, [Next]_vars
    PROVE  SetupFirst'
<1>1. CASE Same
  BY <1>1 DEF Same, SetupFirst, Ordered
<1>2. CASE Started
  BY <1>2, StartedProgram
<1>3. ASSUME todo # << >>, Advance,
             answers' = answers \/ IsQuote(Head(todo))
      PROVE  SetupFirst'
  <2>1. /\ Len(todo) \in Nat \ {0}
        /\ DOMAIN todo = 1..Len(todo) /\ DOMAIN todo' = 1..(Len(todo) - 1)
        /\ \A i \in DOMAIN todo' : i + 1 \in DOMAIN todo /\ todo'[i] = todo[i + 1]
        /\ Head(todo) = todo[1]
    BY <1>3, Taken DEF Advance, TypeOK, Steps
  <2>2. Ordered(todo')
    <3> SUFFICES ASSUME NEW i \in DOMAIN todo', NEW j \in DOMAIN todo', i < j,
                        IsQuote(todo'[i])
                 PROVE  IsQuote(todo'[j])
      BY DEF Ordered
    <3>1. i + 1 \in DOMAIN todo /\ j + 1 \in DOMAIN todo /\ i + 1 < j + 1
      BY <2>1
    <3> QED BY <2>1, <3>1 DEF SetupFirst, Ordered
  <2>3. ASSUME IsQuote(todo[1]), NEW j \in DOMAIN todo' PROVE IsQuote(todo'[j])
    <3>1. j + 1 \in DOMAIN todo /\ 1 \in DOMAIN todo /\ 1 < j + 1
      BY <2>1
    <3> QED BY <2>1, <2>3, <3>1 DEF SetupFirst, Ordered
  <2>4. ASSUME answers' # << >>, NEW j \in DOMAIN todo' PROVE IsQuote(todo'[j])
    BY <1>3, <2>1, <2>3, <2>4 DEF SetupFirst
  <2> QED BY <2>2, <2>4 DEF SetupFirst
<1> QED BY <1>1, <1>2, <1>3, StepKind DEF Prepared, Answered, IsQuote

LEMMA ComparedLeftStep ==
    ASSUME TypeOK, ComparedLeft, [Next]_vars
    PROVE  ComparedLeft'
<1>1. CASE Same
  BY <1>1 DEF Same, ComparedLeft
<1>2. CASE Started
  BY <1>2, StartedProgram
<1>3. ASSUME todo # << >>, Advance, Len(answers) \in Nat,
             \/ Head(todo).op \notin Quotes /\ answers' = answers
             \/ Len(answers') = Len(answers) + 1
      PROVE  ComparedLeft'
  <2>1. /\ Len(todo) \in Nat \ {0}
        /\ DOMAIN todo = 1..Len(todo) /\ DOMAIN todo' = 1..(Len(todo) - 1)
        /\ \A i \in DOMAIN todo' : i + 1 \in DOMAIN todo /\ todo'[i] = todo[i + 1]
        /\ Head(todo) = todo[1]
    BY <1>3, Taken DEF Advance, TypeOK, Steps
  <2> SUFFICES ASSUME NEW j \in DOMAIN todo', todo'[j].op = "assert_eq"
               PROVE  /\ j + Len(answers') > 2
                      /\ j > 1 => todo'[j - 1].op \in Quotes
                      /\ j > 2 => todo'[j - 2].op \in Quotes
    BY DEF ComparedLeft
  <2>2. /\ j + 1 + Len(answers) > 2
        /\ todo[j].op \in Quotes
        /\ j + 1 > 2 => todo[j - 1].op \in Quotes
    <3>1. j + 1 \in DOMAIN todo /\ todo[j + 1].op = "assert_eq" /\ j + 1 > 1
      BY <2>1
    <3>2. (j + 1) - 1 = j /\ (j + 1) - 2 = j - 1
      BY <2>1
    <3> QED BY <3>1, <3>2 DEF ComparedLeft
  <2>3. j > 1 => todo'[j - 1] = todo[j]
    <3> SUFFICES ASSUME j > 1 PROVE todo'[j - 1] = todo[j]
      OBVIOUS
    <3>1. j - 1 \in DOMAIN todo' /\ (j - 1) + 1 = j
      BY <2>1
    <3> QED BY <2>1, <3>1
  <2>4. j > 2 => todo'[j - 2] = todo[j - 1]
    <3> SUFFICES ASSUME j > 2 PROVE todo'[j - 2] = todo[j - 1]
      OBVIOUS
    <3>1. j - 2 \in DOMAIN todo' /\ (j - 2) + 1 = j - 1
      BY <2>1
    <3> QED BY <2>1, <3>1
  <2>5. j + Len(answers') > 2
    <3>1. CASE Len(answers') = Len(answers) + 1
      BY <3>1, <2>1, <2>2, <1>3
    <3>2. CASE Head(todo).op \notin Quotes /\ answers' = answers
      <4>1. todo[1].op \notin Quotes
        BY <3>2, <2>1
      <4>2. j # 1
        BY <2>2, <4>1
      <4>3. j # 2
        BY <2>2, <4>1
      <4> QED BY <4>2, <4>3, <3>2, <2>1, <1>3
    <3> QED BY <3>1, <3>2, <1>3
  <2>6. j > 1 => todo'[j - 1].op \in Quotes
    BY <2>2, <2>3
  <2>7. j > 2 => todo'[j - 2].op \in Quotes
    BY <2>1, <2>2, <2>4
  <2> QED BY <2>5, <2>6, <2>7
<1>4. answers \in Seq(Answer) /\ Len(answers) \in Nat
  BY LenProperties DEF TypeOK
<1>5. CASE Prepared
  BY <1>3, <1>4, <1>5 DEF Prepared
<1>6. CASE Answered
  BY <1>3, <1>4, <1>6, AnswerAdded DEF Answered
<1> QED BY <1>1, <1>2, <1>5, <1>6, StepKind

LEMMA LargestLeftStep ==
    ASSUME TypeOK, LargestLeft, [Next]_vars
    PROVE  LargestLeft'
<1>1. CASE Same
  BY <1>1 DEF Same, LargestLeft, Quoted
<1>2. CASE Started
  BY <1>2, StartedProgram
<1>3. ASSUME todo # << >>, Advance,
             \A p : Quoted(answers, p) => Quoted(answers', p),
             Head(todo).op \in Path => Quoted(answers', Head(todo).op)
      PROVE  LargestLeft'
  <2>1. /\ Len(todo) \in Nat \ {0}
        /\ DOMAIN todo = 1..Len(todo) /\ DOMAIN todo' = 1..(Len(todo) - 1)
        /\ \A i \in DOMAIN todo' : i + 1 \in DOMAIN todo /\ todo'[i] = todo[i + 1]
        /\ Head(todo) = todo[1]
    BY <1>3, Taken DEF Advance, TypeOK, Steps
  <2> SUFFICES ASSUME NEW j \in DOMAIN todo', todo'[j].op \in Path, todo'[j].arg # 1,
                      ~Quoted(answers', todo'[j].op)
               PROVE  \E i \in 1..(j - 1) : todo'[i].op = todo'[j].op
    BY DEF LargestLeft
  <2>2. j + 1 \in DOMAIN todo /\ todo'[j] = todo[j + 1] /\ (j + 1) - 1 = j
    BY <2>1
  <2>3. PICK i \in 1..j : todo[i].op = todo[j + 1].op
    BY <1>3, <2>2 DEF LargestLeft
  <2>4. i # 1
    BY <1>3, <2>1, <2>2, <2>3
  <2>5. i - 1 \in 1..(j - 1) /\ i - 1 \in DOMAIN todo' /\ (i - 1) + 1 = i
    BY <2>1, <2>3, <2>4
  <2> QED BY <2>1, <2>2, <2>3, <2>5
<1>4. CASE Prepared
  BY <1>3, <1>4 DEF Prepared, Quoted, Quotes
<1>5. CASE Answered
  <2>1. \A p : Quoted(answers, p) => Quoted(answers', p)
    BY <1>5, AnswerAdded DEF Quoted
  <2>2. Quoted(answers', Head(todo).op)
    BY <1>5, AnswerAdded DEF Quoted
  <2> QED BY <1>3, <1>5, <2>1, <2>2 DEF Answered
<1> QED BY <1>1, <1>2, <1>4, <1>5, StepKind

-----------------------------------------------------------------------------
(* The fee a run was told and the block it pinned.                         *)

FeeKnown == \E b \in Held(provider) : base_fee >= BaseFee[b]
PinKnown == pin \in Held(provider)

(* An eth_call is made with a fee and a block number that its node gave    *)
(* during the run.                                                         *)
FeeLeft == FeeKnown \/ Priced(todo)
PinLeft == (PinKnown \/ Pinned(todo)) /\ Undisturbed(todo)

Passes(ops) == todo # << >> /\ Advance /\ Head(todo).op \notin ops

FeeEffect ==
    \/ FeeKnown'
    \/ UNCHANGED <<base_fee, provider>> /\ (todo' = todo \/ Passes(Fees))

PinEffect ==
    \/ PinKnown'
    \/ UNCHANGED <<pin, provider>> /\ (todo' = todo \/ Passes({"block_number"}))
    \/ Head(todo).op = "gas_price" /\ Passes({"block_number"})

LEMMA FeeAndPin ==
    ASSUME TypeOK, [Next]_vars
    PROVE  Started \/ (Going /\ FeeEffect /\ PinEffect)
<1> USE DEF FeeEffect, PinEffect
<1>0. /\ provider \in Provider /\ Drawn \in Provider
      /\ BaseFee[head[provider]] \in Nat /\ head[provider] \in Held(provider)
      /\ BaseFee[head[Drawn]] \in Nat /\ head[Drawn] \in Held(Drawn)
  BY HeldBlocks, DrawnIsProvider DEF TypeOK
<1>1. CASE UNCHANGED vars \/ \E p \in Provider : NewBlock(p)
  BY <1>1, NewBlockGoes, SameGoes DEF NewBlock, vars, run
<1>2. CASE \E m \in Method : Start(m)
  BY <1>2 DEF Start, Blank, Started
<1>3. CASE GasPrice
  <2>1. Going /\ UNCHANGED <<head, since>> /\ todo # << >> /\ Head(todo).op = "gas_price"
    BY <1>3, SameGoes DEF GasPrice, At, Advance
  <2>2. FeeKnown'
    <3>1. provider' = Drawn /\ base_fee' = BaseFee[head[Drawn]]
      BY <1>3 DEF GasPrice
    <3>2. base_fee' >= BaseFee[head[Drawn]]
      BY <1>0, <3>1
    <3> QED BY <1>0, <2>1, <3>1, <3>2 DEF FeeKnown, Held
  <2>3. Passes({"block_number"})
    BY <1>3, <2>1 DEF GasPrice, Passes
  <2> QED BY <2>1, <2>2, <2>3
<1>4. CASE GasPriceAgain
  <2>1. Head(todo) \in Steps /\ Head(todo).op = "gas_price_again" /\ todo # << >>
    BY <1>4, HeadTailProperties DEF GasPriceAgain, At, TypeOK, Steps
  <2>2. base_fee' >= BaseFee[head[provider]]
    <3>1. Head(todo).arg \in {100, 110}
      BY <2>1, HeadStep
    <3>2. base_fee' = (BaseFee[head[provider]] * Head(todo).arg) \div 100
      BY <1>4 DEF GasPriceAgain
    <3>3. CASE Head(todo).arg = 100
      BY <1>0, <3>2, <3>3
    <3>4. CASE Head(todo).arg = 110
      BY <1>0, <3>2, <3>4
    <3> QED BY <3>1, <3>3, <3>4
  <2>3. Going /\ UNCHANGED <<head, since, provider, pin>> /\ Passes({"block_number"})
    BY <1>4, <2>1, SameGoes DEF GasPriceAgain, Advance, Passes
  <2>4. FeeKnown'
    BY <1>0, <2>2, <2>3 DEF FeeKnown, Held
  <2> QED BY <2>3, <2>4
<1>5. CASE GetBlockNumber
  <2>1. Going /\ UNCHANGED <<head, since, provider, base_fee>> /\ Passes(Fees)
    BY <1>5, SameGoes DEF GetBlockNumber, At, Advance, Passes, Fees
  <2>2. PinKnown'
    BY <1>0, <1>5, <2>1 DEF GetBlockNumber, PinKnown, Held
  <2> QED BY <2>1, <2>2
<1>6. CASE InitCacheDB \/ InitAccount
  BY <1>6, SameGoes DEF InitCacheDB, InitAccount, At, Advance, Passes, Fees
<1>7. CASE MockTokens \/ MockQuoter
  BY <1>7, SameGoes DEF MockTokens, MockQuoter, Insert, At, Advance, Passes, Fees
<1>8. CASE FetchLatest \/ LocalUndecodable \/ Finish \/ GiveUp
  BY <1>8, SameGoes DEF FetchLatest, LocalUndecodable, Finish, GiveUp, Stop
<1>9. CASE LocalQuote
  BY <1>9, SameGoes DEF LocalQuote, AtLocal, At, Advance, Passes, Fees, Path
<1>10. CASE CallPinned \/ CallLatest
  <2>1. todo # << >> /\ Head(todo).op \in Remote
    BY <1>10 DEF CallPinned, CallLatest, At, Remote
  <2>2. /\ UNCHANGED <<head, since, base_fee, pin, provider>>
        /\ todo' = todo \/ Advance
    BY <1>10 DEF CallPinned, CallLatest, Called, Advance, Stop
  <2> QED BY <2>1, <2>2, SameGoes DEF Passes, Fees, Remote
<1>11. CASE AssertEq
  BY <1>11, SameGoes DEF AssertEq, At, Advance, Stop, Passes, Fees
<1> QED BY <1>1, <1>2, <1>3, <1>4, <1>5, <1>6, <1>7, <1>8, <1>9, <1>10, <1>11
        DEF Next, Run

(* What some earlier step of the program has still to provide, and what    *)
(* that step provides when it is taken.                                    *)
LEMMA LeftAfterStep ==
    ASSUME NEW ops, NEW wants,
           todo \in Seq(Steps), Passes(ops),
           \A j \in DOMAIN todo : todo[j].op \in wants =>
               \E i \in 1..(j - 1) : todo[i].op \in ops
    PROVE  \A j \in DOMAIN todo' : todo'[j].op \in wants =>
               \E i \in 1..(j - 1) : todo'[i].op \in ops
<1>1. /\ Len(todo) \in Nat \ {0}
      /\ DOMAIN todo = 1..Len(todo) /\ DOMAIN todo' = 1..(Len(todo) - 1)
      /\ \A i \in DOMAIN todo' : i + 1 \in DOMAIN todo /\ todo'[i] = todo[i + 1]
      /\ Head(todo) = todo[1]
  BY Taken DEF Passes, Advance
<1> SUFFICES ASSUME NEW j \in DOMAIN todo', todo'[j].op \in wants
             PROVE  \E i \in 1..(j - 1) : todo'[i].op \in ops
  OBVIOUS
<1>2. j + 1 \in DOMAIN todo /\ todo'[j] = todo[j + 1] /\ (j + 1) - 1 = j
  BY <1>1
<1>3. PICK i \in 1..j : todo[i].op \in ops
  BY <1>2
<1>4. i # 1
  BY <1>1, <1>3 DEF Passes
<1>5. i - 1 \in 1..(j - 1) /\ i - 1 \in DOMAIN todo' /\ (i - 1) + 1 = i
  BY <1>1, <1>3, <1>4
<1> QED BY <1>1, <1>3, <1>5

LEMMA UndisturbedStep ==
    ASSUME TypeOK, Undisturbed(todo), [Next]_vars
    PROVE  Undisturbed(todo')
<1>1. CASE Same
  BY <1>1 DEF Same
<1>2. CASE Started
  BY <1>2, ProgramShape DEF Started
<1>3. ASSUME todo # << >>, Advance PROVE Undisturbed(todo')
  <2>1. /\ DOMAIN todo = 1..Len(todo) /\ DOMAIN todo' = 1..Len(todo')
        /\ Len(todo') \in Nat
        /\ \A i \in DOMAIN todo' : i + 1 \in DOMAIN todo /\ todo'[i] = todo[i + 1]
    BY <1>3, Taken DEF Advance, TypeOK, Steps
  <2>2. \A i, j \in DOMAIN todo' : ~(todo'[i].op = "gas_price" /\ todo'[j].op = "call")
    <3> SUFFICES ASSUME NEW i \in DOMAIN todo', NEW j \in DOMAIN todo',
                        todo'[i].op = "gas_price", todo'[j].op = "call"
                 PROVE  FALSE
      OBVIOUS
    <3>1. i + 1 = 1
      BY <2>1 DEF Undisturbed
    <3> QED BY <2>1, <3>1
  <2> QED BY <2>2 DEF Undisturbed
<1> QED BY <1>1, <1>2, <1>3, StepKind DEF Prepared, Answered

LEMMA FeePinLeftStep ==
    ASSUME TypeOK, FeeLeft, PinLeft, [Next]_vars
    PROVE  FeeLeft' /\ PinLeft'
<1>0. todo \in Seq(Steps) /\ provider \in Provider /\ Undisturbed(todo')
  BY UndisturbedStep DEF PinLeft, TypeOK, Steps
<1>1. CASE Started
  <2>1. Priced(todo') /\ Pinned(todo')
    BY <1>1, ProgramShape DEF Started
  <2> QED BY <1>0, <2>1 DEF FeeLeft, PinLeft
<1>2. CASE Going /\ FeeEffect /\ PinEffect
  <2>1. FeeLeft'
    <3>1. CASE FeeKnown /\ UNCHANGED <<base_fee, provider>>
      <4>1. PICK b \in Held(provider) : base_fee >= BaseFee[b]
        BY <3>1 DEF FeeKnown
      <4>2. b \in Held(provider)'
        BY <1>0, <1>2, <3>1 DEF Going, Held
      <4> QED BY <3>1, <4>1, <4>2 DEF FeeKnown, FeeLeft, Held
    <3>2. CASE Priced(todo) /\ todo' = todo
      BY <3>2 DEF FeeLeft
    <3>3. CASE Priced(todo) /\ Passes(Fees)
      <4>1. Priced(todo')
        BY <1>0, <3>3, LeftAfterStep DEF Priced
      <4> QED BY <4>1 DEF FeeLeft
    <3> QED BY <1>2, <3>1, <3>2, <3>3 DEF FeeLeft, FeeEffect
  <2>2. (PinKnown \/ Pinned(todo))'
    <3>1. CASE PinKnown /\ UNCHANGED <<pin, provider>>
      BY <1>0, <1>2, <3>1 DEF PinKnown, Going, Held
    <3>2. CASE Pinned(todo) /\ todo' = todo
      BY <3>2
    <3>3. ASSUME Passes({"block_number"}),
                 \A j \in DOMAIN todo : todo[j].op = "call" =>
                     \E i \in 1..(j - 1) : todo[i].op = "block_number"
          PROVE  Pinned(todo')
      <4>1. \A j \in DOMAIN todo : todo[j].op \in {"call"} =>
               \E i \in 1..(j - 1) : todo[i].op \in {"block_number"}
        BY <3>3
      <4>2. \A j \in DOMAIN todo' : todo'[j].op \in {"call"} =>
               \E i \in 1..(j - 1) : todo'[i].op \in {"block_number"}
        BY <1>0, <3>3, <4>1, LeftAfterStep
      <4> QED BY <4>2 DEF Pinned
    <3>4. CASE Pinned(todo) /\ Passes({"block_number"})
      BY <3>3, <3>4 DEF Pinned
    <3>5. CASE Head(todo).op = "gas_price" /\ Passes({"block_number"})
      <4>1. 1 \in DOMAIN todo /\ todo[1].op = "gas_price"
        BY <1>0, <3>5, EmptySeq, LenProperties DEF Passes
      <4>2. \A j \in DOMAIN todo : todo[j].op = "call" =>
               \E i \in 1..(j - 1) : todo[i].op = "block_number"
        BY <4>1 DEF PinLeft, Undisturbed
      <4> QED BY <3>3, <3>5, <4>2
    <3> QED BY <1>2, <3>1, <3>2, <3>4, <3>5 DEF PinLeft, PinEffect
  <2> QED BY <1>0, <2>1, <2>2 DEF PinLeft
<1> QED BY <1>1, <1>2, FeeAndPin

(* The margin lasts one block: if no more than one reached the node in the *)
(* run, the fee the run offers covers that of every block the node held.   *)
LEMMA MarginCovers ==
    ASSUME TypeOK, FeeKnown, head[provider] <= since[provider] + 1,
           NEW b \in Held(provider)
    PROVE  MaxFee >= BaseFee[b]
<1>1. PICK c \in Held(provider) : base_fee >= BaseFee[c]
  BY DEF FeeKnown
<1>2. /\ b \in Block /\ c \in Block /\ b \in Nat /\ c \in Nat /\ base_fee \in Nat
      /\ b = c \/ b = c + 1 \/ c = b + 1
  <2>1. /\ provider \in Provider /\ head[provider] \in Nat /\ since[provider] \in Nat
        /\ b \in Block /\ c \in Block /\ base_fee \in Nat
    BY <1>1, HeldBlocks DEF TypeOK
  <2>2. /\ b \in since[provider]..head[provider]
        /\ c \in since[provider]..head[provider]
    BY <1>1 DEF Held
  <2> QED BY <2>1, <2>2
<1>3. BaseFee[b] \in Nat /\ BaseFee[c] \in Nat
  BY <1>2, RunsAssumption
<1>4. 7 * BaseFee[b] <= 8 * BaseFee[c] \/ 8 * BaseFee[b] <= 9 * BaseFee[c]
  <2>1. CASE b = c
    BY <2>1, <1>3
  <2>2. CASE b = c + 1
    BY <2>2, <1>2, FeeAssumption
  <2>3. CASE c = b + 1
    BY <2>3, <1>2, FeeAssumption
  <2> QED BY <1>2, <2>1, <2>2, <2>3
<1>5. (base_fee * 12) \div 10 >= BaseFee[b]
  <2> DEFINE x == BaseFee[b]
             y == BaseFee[c]
             z == base_fee
  <2>1. x \in Nat /\ y \in Nat /\ z \in Nat /\ y <= z /\ (7 * x <= 8 * y \/ 8 * x <= 9 * y)
    BY <1>1, <1>2, <1>3, <1>4
  <2> HIDE DEF x, y, z
  <2>2. 10 * x <= z * 12
    BY <2>1
  <2>3. (z * 12) \div 10 >= x
    BY <2>1, <2>2
  <2> QED BY <2>3 DEF x, z
<1> QED BY <1>5 DEF MaxFee

-----------------------------------------------------------------------------
(* What a step does to the database and the answers.                       *)

Entry(out) == [op |-> Head(todo).op, index |-> Head(todo).arg, out |-> out]

(* Nothing that matters here.                                              *)
Quiet == UNCHANGED <<answers, cache, pin, provider, db_provider>>

Fetching ==
    /\ UNCHANGED <<answers, pin, provider, db_provider>>
    /\ \E k \in Key : cache[k] = Vacant /\ cache' = Fetch(cache, k, head[db_provider])

SettingUp ==
    /\ UNCHANGED answers
    /\ todo # << >> /\ ~IsQuote(Head(todo))
    /\ \A k \in Slot : cache'[k] \in {cache[k], Vacant, Mock[k]}
    /\ db_provider' = db_provider \/ cache' = Empty

(* The quote out of the step at the head is recorded.                      *)
Quoting(out) ==
    /\ todo # << >> /\ answers' = Append(answers, Entry(out))
    /\ UNCHANGED <<cache, pin, provider, db_provider>>
    /\ \/ /\ Head(todo).op \in Path
          /\ Missing(cache, Needs) = {} /\ out = AmountOut(cache, Needs)
       \/ /\ Head(todo).op \in Remote
          /\ \E b \in Held(provider) :
               /\ out = AmountOut(Chain[b], Reads["quoter"][vol[Head(todo).arg]])
               /\ Head(todo).op = "call" => b = pin

Restarted == cache' = Empty /\ answers' = << >>

LEMMA CalledQuoting ==
    ASSUME NEW b \in Held(provider), Called(b), todo # << >>, Head(todo).op \in Remote,
           Head(todo).op = "call" => b = pin
    PROVE  Quiet \/ \E out : Quoting(out)
  BY DEF Called, Quiet, Quoting, Record, Entry

LEMMA StepEffect ==
    ASSUME TypeOK, PinLeft, [Next]_vars
    PROVE  \/ Restarted
           \/ /\ Going
              /\ Quiet \/ Fetching \/ SettingUp \/ \E out : Quoting(out)
<1>1. CASE UNCHANGED vars \/ \E p \in Provider : NewBlock(p)
  BY <1>1, NewBlockGoes, SameGoes DEF NewBlock, vars, run, Quiet
<1>2. CASE \E m \in Method : Start(m)
  BY <1>2 DEF Start, Blank, Restarted
<1>3. CASE GasPriceAgain
  BY <1>3, SameGoes DEF GasPriceAgain, Advance, Quiet
<1>4. CASE GasPrice \/ GetBlockNumber \/ InitCacheDB
  BY <1>4, SameGoes DEF GasPrice, GetBlockNumber, InitCacheDB, At, Advance, SettingUp,
                        IsQuote, Quotes, Path, Remote, Empty, Key
<1>5. CASE InitAccount
  <2>1. /\ Going /\ UNCHANGED <<answers, db_provider>>
        /\ todo # << >> /\ ~IsQuote(Head(todo))
    BY <1>5, SameGoes DEF InitAccount, At, Advance, IsQuote, Quotes, Path, Remote
  <2>2. Head(todo).arg \in Contract
    BY <1>5, <2>1, HeadStep, HeadTailProperties DEF InitAccount, At, TypeOK, Steps
  <2>3. \A k \in Slot : cache'[k] = cache[k]
    <3>1. \A k \in Slot : k # Head(todo).arg /\ k \in Key
      BY <2>2, RunsAssumption DEF Key
    <3> QED BY <1>5, <3>1 DEF InitAccount, Fetch, TypeOK, DB
  <2> QED BY <2>1, <2>3 DEF SettingUp
<1>6. CASE MockTokens \/ MockQuoter
  BY <1>6, SameGoes DEF MockTokens, MockQuoter, Insert, At, Advance, SettingUp, IsQuote, Quotes,
                    Path, Remote, Key
<1>7. CASE FetchLatest
  <2>1. PICK k \in Missing(cache, Needs) : cache' = Fetch(cache, k, head[db_provider])
    BY <1>7 DEF FetchLatest
  <2>2. Head(todo).op \in Path /\ Head(todo) \in Steps
    BY <1>7, HeadTailProperties DEF FetchLatest, AtLocal, At, TypeOK, Steps
  <2>3. k \in Key /\ cache[k] = Vacant
    BY <2>1, <2>2, HeadStep, ReadsAreKeys DEF Missing, Needs, Quotes
  <2> QED BY <1>7, <2>1, <2>3, SameGoes DEF FetchLatest, Fetching
<1>8. CASE LocalQuote
  <2>1. todo # << >> /\ Head(todo).op \in Path
    BY <1>8 DEF LocalQuote, AtLocal, At
  <2>2. Quoting(AmountOut(cache, Needs))
    BY <1>8, <2>1 DEF LocalQuote, Record, Quoting, Entry
  <2> QED BY <1>8, <2>2, SameGoes DEF LocalQuote, Advance
<1>9. CASE CallPinned
  <2>1. todo \in Seq(Steps) /\ todo # << >> /\ Head(todo).op = "call"
    BY <1>9 DEF CallPinned, At, TypeOK, Steps
  <2>2. PinKnown
    <3>1. Len(todo) \in Nat \ {0} /\ DOMAIN todo = 1..Len(todo) /\ Head(todo) = todo[1]
      BY <2>1, EmptySeq, LenProperties
    <3> QED BY <2>1, <3>1 DEF PinLeft, Pinned
  <2>3. Quiet \/ \E out : Quoting(out)
    BY <1>9, <2>1, <2>2, CalledQuoting DEF CallPinned, PinKnown, Remote
  <2> QED BY <1>9, <2>3, SameGoes DEF CallPinned, Called, Advance, Stop
<1>10. CASE CallLatest
  <2>1. /\ todo # << >> /\ Head(todo).op = "call_latest"
        /\ head[provider] \in Held(provider)
    BY <1>10, HeldBlocks DEF CallLatest, At, TypeOK
  <2>3. Quiet \/ \E out : Quoting(out)
    BY <1>10, <2>1, CalledQuoting DEF CallLatest, Remote
  <2> QED BY <1>10, <2>3, SameGoes DEF CallLatest, Called, Advance, Stop
<1>11. CASE LocalUndecodable \/ AssertEq \/ Finish \/ GiveUp
  BY <1>11, SameGoes DEF LocalUndecodable, AssertEq, Finish, GiveUp, Advance, Stop, Quiet
<1> QED BY <1>1, <1>2, <1>3, <1>4, <1>5, <1>6, <1>7, <1>8, <1>9, <1>10, <1>11
        DEF Next, Run

-----------------------------------------------------------------------------
(* The invariants on the database and the answers.                         *)

(* A slot in the cache is mocked or from a block that AlloyDB's node held  *)
(* during the run.                                                         *)
CacheInRun ==
    \A k \in Slot :
        cache[k] \in {Vacant, Mock[k]} \cup {Chain[b][k] : b \in Held(db_provider)}

(* What a local quote found is still there.                                *)
AnswersKept ==
    \A n \in Local :
        /\ \A k \in DOMAIN answers[n].out :
             k \in Key /\ cache[k] # Vacant /\ answers[n].out[k] = cache[k]
        /\ Missing(cache, Reads[answers[n].op][vol[1]]) = {}

(* Every quote found prices of the two nodes a run reads them from.        *)
InRun == Held(provider) \cup Held(db_provider)

PricesInRun ==
    \A n \in DOMAIN answers : \A k \in PoolSlot \cap DOMAIN answers[n].out :
        answers[n].out[k] \in {Chain[b][k] : b \in InRun}

(* The condition under which the first quote on a path reads for all.      *)
LargerReadsMore == \A p \in Path : Nested(Reads[p])

LEMMA QuotingAdds ==
    ASSUME TypeOK, NEW out, Quoting(out)
    PROVE  /\ Len(answers) \in Nat
           /\ DOMAIN answers = 1..Len(answers) /\ DOMAIN answers' = 1..(Len(answers) + 1)
           /\ \A n \in DOMAIN answers : answers'[n] = answers[n]
           /\ answers'[Len(answers) + 1] = Entry(out)
           /\ todo # << >> /\ Head(todo) \in Steps /\ Head(todo).arg \in 1..Count
           /\ UNCHANGED <<cache, pin, provider, db_provider>>
<1>1. answers \in Seq(Answer) /\ answers' = Append(answers, Entry(out))
  BY DEF TypeOK, Quoting
<1>2. /\ Len(answers) \in Nat /\ DOMAIN answers = 1..Len(answers)
      /\ DOMAIN answers' = 1..(Len(answers) + 1)
      /\ \A n \in DOMAIN answers : answers'[n] = answers[n]
      /\ answers'[Len(answers) + 1] = Entry(out)
  BY <1>1, LenProperties
<1>3. todo # << >> /\ Head(todo) \in Steps
  BY HeadTailProperties DEF Quoting, TypeOK, Steps
<1>4. Head(todo).arg \in 1..Count
  BY <1>3, HeadStep DEF Quoting, Quotes
<1> QED BY <1>2, <1>3, <1>4 DEF Quoting

(* No step of the setup comes after a quote.                               *)
LEMMA NoSetupAfterQuote ==
    ASSUME TypeOK, SetupFirst, SettingUp
    PROVE  answers = << >> /\ answers' = << >>
<1>1. todo \in Seq(Steps) /\ todo # << >>
  BY DEF TypeOK, Steps, SettingUp
<1>2. 1 \in DOMAIN todo /\ Head(todo) = todo[1]
  BY <1>1, EmptySeq, LenProperties
<1> QED BY <1>2 DEF SettingUp, SetupFirst

LEMMA CacheInRunStep ==
    ASSUME TypeOK, PinLeft, CacheInRun, [Next]_vars
    PROVE  CacheInRun'
<1>0. db_provider \in Provider
  BY DEF TypeOK
<1>1. CASE Restarted \/ cache' = Empty
  BY <1>1 DEF Restarted, CacheInRun, Empty, Key
<1>2. ASSUME Going, db_provider' = db_provider
      PROVE  /\ Held(db_provider) \subseteq Held(db_provider)'
             /\ \A k : {Chain[b][k] : b \in Held(db_provider)}
                       \subseteq {Chain[b][k] : b \in Held(db_provider)'}
  <2>1. Held(db_provider) \subseteq Held(db_provider)'
    BY <1>0, <1>2 DEF Going, Held
  <2> QED BY <2>1
<1>3. ASSUME Going, UNCHANGED <<cache, db_provider>>
      PROVE  CacheInRun'
  BY <1>2, <1>3 DEF CacheInRun
<1>4. ASSUME Going, Fetching
      PROVE  CacheInRun'
  <2>1. PICK f \in Key : cache[f] = Vacant /\ cache' = Fetch(cache, f, head[db_provider])
    BY <1>4 DEF Fetching
  <2>2. cache'[f] = Chain[head[db_provider]][f] /\ head[db_provider] \in Held(db_provider)
    BY <1>0, <2>1, HeldBlocks DEF Fetch, TypeOK, DB
  <2>3. \A k \in Slot : k # f => cache'[k] = cache[k]
    BY <2>1 DEF Fetch, TypeOK, DB, Key
  <2>4. ASSUME NEW k \in Slot
        PROVE  cache'[k] \in {Vacant, Mock[k]} \cup {Chain[b][k] : b \in Held(db_provider)'}
    <3>0. db_provider' = db_provider
      BY <1>4 DEF Fetching
    <3>1. CASE k = f
      BY <1>2, <1>4, <2>2, <3>0, <3>1
    <3>2. CASE k # f
      BY <1>2, <1>4, <2>3, <3>0, <3>2 DEF CacheInRun
    <3> QED BY <3>1, <3>2
  <2> QED BY <2>4 DEF CacheInRun
<1>5. ASSUME Going, SettingUp, db_provider' = db_provider
      PROVE  CacheInRun'
  BY <1>2, <1>5 DEF CacheInRun, SettingUp
<1> QED BY <1>1, <1>3, <1>4, <1>5, StepEffect DEF Quiet, Quoting, SettingUp

LEMMA AnswersKeptStep ==
    ASSUME TypeOK, PinLeft, SetupFirst, LargestLeft, AnswersKept, [Next]_vars
    PROVE  AnswersKept'
<1>1. CASE Restarted \/ SettingUp
  <2>1. answers' = << >>
    BY <1>1, NoSetupAfterQuote DEF Restarted
  <2> QED BY <2>1 DEF AnswersKept, Local
<1>2. CASE Quiet
  BY <1>2 DEF Quiet, AnswersKept, Local
<1>3. CASE Fetching
  <2>1. PICK f \in Key : cache[f] = Vacant /\ cache' = Fetch(cache, f, head[db_provider])
    BY <1>3 DEF Fetching
  <2>2. \A k \in Key : k # f => cache'[k] = cache[k]
    BY <2>1 DEF Fetch, TypeOK, DB
  <2>3. cache'[f] # Vacant
    <3>1. head[db_provider] \in Block
      BY DEF TypeOK
    <3> QED BY <2>1, <3>1, ForkDBAssumption DEF Fetch, TypeOK, DB
  <2> SUFFICES ASSUME NEW n \in Local
               PROVE  /\ \A k \in DOMAIN answers[n].out :
                           k \in Key /\ cache'[k] # Vacant /\ answers[n].out[k] = cache'[k]
                      /\ Missing(cache', Reads[answers[n].op][vol[1]]) = {}
    BY <1>3 DEF Fetching, AnswersKept, Local
  <2>4. \A k \in DOMAIN answers[n].out :
           k \in Key /\ cache'[k] # Vacant /\ answers[n].out[k] = cache'[k]
    BY <2>1, <2>2 DEF AnswersKept
  <2>5. Reads[answers[n].op][vol[1]] \subseteq Key
    BY ReadsAreKeys, VolFacts DEF Local
  <2>6. Missing(cache', Reads[answers[n].op][vol[1]]) = {}
    BY <2>1, <2>2, <2>3, <2>5 DEF AnswersKept, Missing
  <2> QED BY <2>4, <2>6
<1>4. ASSUME NEW out, Quoting(out) PROVE AnswersKept'
  <2>1. /\ Len(answers) \in Nat
        /\ DOMAIN answers = 1..Len(answers) /\ DOMAIN answers' = 1..(Len(answers) + 1)
        /\ \A n \in DOMAIN answers : answers'[n] = answers[n]
        /\ answers'[Len(answers) + 1] = Entry(out)
        /\ todo # << >> /\ Head(todo) \in Steps /\ Head(todo).arg \in 1..Count
        /\ cache' = cache
    BY <1>4, QuotingAdds
  <2> SUFFICES ASSUME NEW n \in DOMAIN answers', answers'[n].op \in Path
               PROVE  /\ \A k \in DOMAIN answers'[n].out :
                           k \in Key /\ cache[k] # Vacant /\ answers'[n].out[k] = cache[k]
                      /\ Missing(cache, Reads[answers'[n].op][vol[1]]) = {}
    BY <2>1 DEF AnswersKept, Local
  <2>2. CASE n \in DOMAIN answers
    BY <2>1, <2>2 DEF AnswersKept, Local
  <2>3. CASE n = Len(answers) + 1
    <3>1. answers'[n] = Entry(out) /\ Head(todo).op \in Path
      BY <2>1, <2>3 DEF Entry
    <3>2. Missing(cache, Needs) = {} /\ out = AmountOut(cache, Needs)
      BY <1>4, <3>1 DEF Quoting, Path, Remote
    <3>3. Needs \in SUBSET Key
      BY <2>1, <3>1, ReadsAreKeys DEF Needs
    <3>4. \A k \in DOMAIN out : k \in Key /\ cache[k] # Vacant /\ out[k] = cache[k]
      BY <3>2, <3>3 DEF AmountOut, Missing
    <3>5. CASE Head(todo).arg = 1
      <4>1. Needs = Reads[Head(todo).op][vol[1]]
        BY <3>5 DEF Needs
      <4>2. answers'[n].op = Head(todo).op /\ answers'[n].out = out
        BY <3>1 DEF Entry
      <4>3. Missing(cache, Reads[answers'[n].op][vol[1]]) = {}
        BY <3>2, <4>1, <4>2
      <4> QED BY <3>4, <4>2, <4>3
    <3>6. CASE Quoted(answers, Head(todo).op)
      <4>1. PICK m \in DOMAIN answers : answers[m].op = Head(todo).op
        BY <3>6 DEF Quoted
      <4> QED BY <3>1, <3>4, <4>1 DEF Entry, AnswersKept, Local
    <3>7. Head(todo).arg = 1 \/ Quoted(answers, Head(todo).op)
      <4>1. 1 \in DOMAIN todo /\ Head(todo) = todo[1]
        BY <2>1, EmptySeq, LenProperties DEF TypeOK
      <4>2. ~\E i \in 1..(1 - 1) : todo[i].op = todo[1].op
        OBVIOUS
      <4> QED BY <3>1, <4>1, <4>2 DEF LargestLeft
    <3> QED BY <3>5, <3>6, <3>7
  <2> QED BY <2>1, <2>2, <2>3
<1> QED BY <1>1, <1>2, <1>3, <1>4, StepEffect

LEMMA PricesInRunStep ==
    ASSUME TypeOK, PinLeft, SetupFirst, CacheInRun, PricesInRun, [Next]_vars
    PROVE  PricesInRun'
<1>1. CASE Restarted
  BY <1>1 DEF Restarted, PricesInRun
<1>2. ASSUME Going, UNCHANGED <<provider, db_provider>>
      PROVE  InRun \subseteq InRun'
  BY <1>2 DEF TypeOK, Going, InRun, Held
<1>3. ASSUME Going, UNCHANGED <<answers, provider, db_provider>>
      PROVE  PricesInRun'
  BY <1>2, <1>3 DEF PricesInRun
<1>5. CASE SettingUp
  BY <1>5, NoSetupAfterQuote DEF PricesInRun
<1>4. ASSUME Going, NEW out, Quoting(out)
      PROVE  PricesInRun'
  <2>1. /\ Len(answers) \in Nat
        /\ DOMAIN answers = 1..Len(answers) /\ DOMAIN answers' = 1..(Len(answers) + 1)
        /\ \A n \in DOMAIN answers : answers'[n] = answers[n]
        /\ answers'[Len(answers) + 1] = Entry(out)
        /\ todo # << >> /\ Head(todo) \in Steps /\ Head(todo).arg \in 1..Count
    BY <1>4, QuotingAdds
  <2>4. UNCHANGED <<provider, db_provider>>
    BY <1>4 DEF Quoting
  <2>2. ASSUME NEW k \in PoolSlot \cap DOMAIN out
        PROVE  out[k] \in {Chain[b][k] : b \in InRun}
    <3>0. k \in Slot /\ Mock[k] = Vacant
      BY RunsAssumption
    <3>1. CASE Head(todo).op \in Path /\ Missing(cache, Needs) = {}
               /\ out = AmountOut(cache, Needs)
      <4>1. k \in Needs /\ cache[k] # Vacant /\ out[k] = cache[k]
        BY <3>1 DEF AmountOut, Missing
      <4> QED BY <3>0, <4>1 DEF CacheInRun, InRun
    <3>2. ASSUME NEW b \in Held(provider),
                 out = AmountOut(Chain[b], Reads["quoter"][vol[Head(todo).arg]])
          PROVE  out[k] \in {Chain[c][k] : c \in InRun}
      <4>1. b \in Block /\ k \in Key
        BY <3>0, HeldBlocks DEF TypeOK, Key
      <4>2. Chain[b][k] # Vacant
        BY <4>1, ForkDBAssumption
      <4> QED BY <3>2, <4>2 DEF AmountOut, InRun
    <3> QED BY <1>4, <3>1, <3>2 DEF Quoting
  <2>3. ASSUME NEW n \in DOMAIN answers', NEW k \in PoolSlot \cap DOMAIN answers'[n].out
        PROVE  answers'[n].out[k] \in {Chain[b][k] : b \in InRun}
    <3>1. CASE n \in DOMAIN answers
      BY <2>1, <2>3, <3>1 DEF PricesInRun
    <3>2. CASE n = Len(answers) + 1
      <4>1. answers'[n].out = out
        BY <2>1, <3>2 DEF Entry
      <4> QED BY <2>2, <2>3, <4>1
    <3> QED BY <2>1, <3>1, <3>2
  <2> QED BY <1>2, <1>4, <2>3, <2>4 DEF PricesInRun
<1> QED BY <1>1, <1>3, <1>4, <1>5, StepEffect DEF Quiet, Fetching

LEMMA PinnedExactStep ==
    ASSUME TypeOK, PinLeft, SetupFirst, PinnedExact, [Next]_vars
    PROVE  PinnedExact'
<1>1. CASE Restarted \/ SettingUp
  <2>1. answers' = << >>
    BY <1>1, NoSetupAfterQuote DEF Restarted
  <2> QED BY <2>1 DEF PinnedExact
<1>2. CASE Quiet \/ Fetching
  BY <1>2 DEF Quiet, Fetching, PinnedExact
<1>3. ASSUME NEW out, Quoting(out) PROVE PinnedExact'
  <2>1. /\ Len(answers) \in Nat
        /\ DOMAIN answers = 1..Len(answers) /\ DOMAIN answers' = 1..(Len(answers) + 1)
        /\ \A n \in DOMAIN answers : answers'[n] = answers[n]
        /\ answers'[Len(answers) + 1] = Entry(out)
        /\ pin' = pin
    BY <1>3, QuotingAdds
  <2>2. Head(todo).op = "call" =>
          out = AmountOut(Chain[pin], Reads["quoter"][vol[Head(todo).arg]])
    BY <1>3 DEF Quoting, Path
  <2>3. ASSUME NEW n \in DOMAIN answers', answers'[n].op = "call"
        PROVE  answers'[n].out =
                 AmountOut(Chain[pin], Reads["quoter"][vol[answers'[n].index]])
    <3>1. CASE n \in DOMAIN answers
      BY <2>1, <2>3, <3>1 DEF PinnedExact
    <3>2. CASE n = Len(answers) + 1
      <4>1. /\ Head(todo).op = "call" /\ answers'[n].out = out
            /\ answers'[n].index = Head(todo).arg
        BY <2>1, <2>3, <3>2 DEF Entry
      <4> QED BY <2>2, <4>1
    <3> QED BY <2>1, <3>1, <3>2
  <2> QED BY <2>1, <2>3 DEF PinnedExact, vol
<1> QED BY <1>1, <1>2, <1>3, StepEffect

-----------------------------------------------------------------------------
(* How a run may end.                                                      *)

LEMMA RefusedStep ==
    ASSUME TypeOK, FeeLeft, PinLeft, RefusedNeedsTwoBlocks, [Next]_vars
    PROVE  RefusedNeedsTwoBlocks'
<1>0. /\ provider \in Provider /\ head[provider] \in Nat /\ since[provider] \in Nat
      /\ head[provider] \in Held(provider) /\ Held(provider) \subseteq Block
  BY HeldBlocks DEF TypeOK
<1>1. CASE Run
  <2>1. ASSUME NEW b \in Held(provider), Called(b), FeeKnown
        PROVE  RefusedNeedsTwoBlocks'
    <3>1. CASE MaxFee < BaseFee[b] /\ Stop("refused")
      <4>1. BaseFee[b] \in Nat /\ MaxFee \in Nat
        <5>1. b \in Block /\ base_fee \in Nat
          BY <1>0, <2>1 DEF TypeOK
        <5> QED BY <5>1, RunsAssumption DEF MaxFee
      <4>2. ~(head[provider] <= since[provider] + 1)
        BY <2>1, <3>1, <4>1, MarginCovers
      <4>3. UNCHANGED <<head, since, provider>>
        BY <2>1, <3>1 DEF Called, Stop
      <4> QED BY <1>0, <4>2, <4>3 DEF RefusedNeedsTwoBlocks
    <3>2. CASE Advance
      BY <2>1, <3>2 DEF Called, RefusedNeedsTwoBlocks, Advance
    <3>3. CASE Stop("undecodable")
      BY <3>3 DEF RefusedNeedsTwoBlocks, Stop
    <3> QED BY <2>1, <3>1, <3>2, <3>3 DEF Called
  <2>2. ASSUME At("call") \/ At("call_latest")
        PROVE  1 \in DOMAIN todo /\ Head(todo) = todo[1] /\ Head(todo).op \in Remote
    BY <2>2, EmptySeq, LenProperties DEF At, TypeOK, Remote
  <2>3. (At("call") \/ At("call_latest")) => FeeKnown
    BY <2>2 DEF FeeLeft, Priced
  <2>4. At("call") => PinKnown
    BY <2>2 DEF PinLeft, Pinned, At
  <2>5. CASE CallPinned
    BY <2>1, <2>3, <2>4, <2>5 DEF CallPinned, PinKnown
  <2>6. CASE CallLatest
    BY <1>0, <2>1, <2>3, <2>6 DEF CallLatest
  <2>7. CASE GasPrice \/ GasPriceAgain \/ GetBlockNumber \/ InitCacheDB
    BY <2>7 DEF GasPrice, GasPriceAgain, GetBlockNumber, InitCacheDB, At, Advance,
                RefusedNeedsTwoBlocks
  <2>8. CASE InitAccount \/ MockTokens \/ MockQuoter
    BY <2>8 DEF InitAccount, MockTokens, MockQuoter, Insert, At, Advance,
                RefusedNeedsTwoBlocks
  <2>9. CASE FetchLatest \/ LocalQuote
    BY <2>9 DEF FetchLatest, LocalQuote, AtLocal, At, Advance, RefusedNeedsTwoBlocks
  <2>10. CASE LocalUndecodable \/ AssertEq \/ Finish
    BY <2>10 DEF LocalUndecodable, AssertEq, Finish, At, Advance, Stop, RefusedNeedsTwoBlocks
  <2> QED BY <1>1, <2>5, <2>6, <2>7, <2>8, <2>9, <2>10 DEF Run
<1>2. ASSUME NEW p \in Provider, NewBlock(p) PROVE RefusedNeedsTwoBlocks'
  <2>1. head[provider] <= head'[provider] /\ head'[provider] \in Nat
    BY <1>0, <1>2 DEF NewBlock, TypeOK
  <2> QED BY <1>0, <1>2, <2>1 DEF NewBlock, run, RefusedNeedsTwoBlocks
<1>3. CASE GiveUp \/ \E m \in Method : Start(m)
  BY <1>3 DEF GiveUp, Start, Stop, RefusedNeedsTwoBlocks
<1>4. CASE UNCHANGED vars
  BY <1>4 DEF vars, run, RefusedNeedsTwoBlocks
<1> QED BY <1>1, <1>2, <1>3, <1>4 DEF Next

PriceMoved ==
    \E b \in Held(provider), c \in Held(db_provider) :
        \E k \in PoolSlot : Chain[b][k] # Chain[c][k]

(* If the two nodes never disagreed on a price, no price moved on either of*)
(* them.                                                                   *)
LEMMA NodesAgree ==
    ASSUME TypeOK, ~PriceMoved, NEW k \in PoolSlot, NEW b \in InRun, NEW c \in InRun
    PROVE  Chain[b][k] = Chain[c][k]
<1>1. head[provider] \in Held(provider) /\ head[db_provider] \in Held(db_provider)
  BY HeldBlocks DEF TypeOK
<1>2. \A x \in Held(provider), y \in Held(db_provider) : Chain[x][k] = Chain[y][k]
  BY DEF PriceMoved
<1>3. ASSUME NEW x \in InRun PROVE Chain[x][k] = Chain[head[provider]][k]
  BY <1>1, <1>2, <1>3 DEF InRun
<1> QED BY <1>3

(* As long as no price moves, every quote of the run finds the same ones.  *)
LEMMA PanicStep ==
    ASSUME TypeOK, ComparedLeft, PricesInRun, PanicNeedsMovedPrice, [Next]_vars
    PROVE  PanicNeedsMovedPrice'
<1>1. CASE AssertEq
  <2>1. CASE Advance
    BY <1>1, <2>1 DEF AssertEq, At, Advance, PanicNeedsMovedPrice
  <2>2. CASE Stop("panicked") /\ PriceMoved
    BY <1>1, <2>2 DEF AssertEq, Stop, PriceMoved, PanicNeedsMovedPrice, Held
  <2>3. ASSUME ~PriceMoved PROVE Advance
    <3>1. 1 \in DOMAIN todo /\ todo[1].op = "assert_eq"
      BY <1>1, EmptySeq, LenProperties DEF AssertEq, At, TypeOK
    <3>2. Len(answers) \in Nat /\ DOMAIN answers = 1..Len(answers)
      BY LenProperties DEF TypeOK
    <3>3. Len(answers) \in DOMAIN answers /\ Len(answers) - 1 \in DOMAIN answers
      BY <3>1, <3>2 DEF ComparedLeft
    <3>4. \A m, n \in DOMAIN answers :
             \A k \in PoolSlot \cap DOMAIN answers[m].out \cap DOMAIN answers[n].out :
                 answers[m].out[k] = answers[n].out[k]
      BY <2>3, NodesAgree DEF PricesInRun
    <3>5. SamePrice(answers[Len(answers)].out, answers[Len(answers) - 1].out)
      BY <3>3, <3>4 DEF SamePrice
    <3> QED BY <1>1, <3>5 DEF AssertEq
  <2> QED BY <1>1, <2>1, <2>2, <2>3 DEF AssertEq
<1>2. CASE Run /\ ~AssertEq
  <2>1. CASE CallPinned \/ CallLatest
    BY <2>1 DEF CallPinned, CallLatest, Called, At, Advance, Stop, PanicNeedsMovedPrice
  <2>2. CASE GasPrice \/ GasPriceAgain \/ GetBlockNumber \/ InitCacheDB
    BY <2>2 DEF GasPrice, GasPriceAgain, GetBlockNumber, InitCacheDB, At, Advance,
                PanicNeedsMovedPrice
  <2>3. CASE InitAccount \/ MockTokens \/ MockQuoter
    BY <2>3 DEF InitAccount, MockTokens, MockQuoter, Insert, At, Advance,
                PanicNeedsMovedPrice
  <2>4. CASE FetchLatest \/ LocalQuote \/ LocalUndecodable \/ Finish
    BY <2>4 DEF FetchLatest, LocalQuote, LocalUndecodable, Finish, AtLocal, At, Advance,
                Stop, PanicNeedsMovedPrice
  <2> QED BY <1>2, <2>1, <2>2, <2>3, <2>4 DEF Run
<1>3. ASSUME NEW p \in Provider, NewBlock(p) PROVE PanicNeedsMovedPrice'
  <2>1. /\ UNCHANGED <<ended, provider, db_provider>>
        /\ provider \in Provider /\ db_provider \in Provider
    BY <1>3 DEF NewBlock, run, TypeOK
  <2>2. Held(provider) \subseteq Held(provider)' /\ Held(db_provider) \subseteq Held(db_provider)'
    BY <1>3, <2>1, NewBlockGoes DEF Going, Held
  <2> QED BY <2>1, <2>2 DEF PanicNeedsMovedPrice
<1>4. CASE GiveUp \/ \E m \in Method : Start(m)
  BY <1>4 DEF GiveUp, Start, Stop, PanicNeedsMovedPrice
<1>5. CASE UNCHANGED vars
  BY <1>5 DEF vars, run, PanicNeedsMovedPrice, Held
<1> QED BY <1>1, <1>2, <1>3, <1>4, <1>5 DEF Next

-----------------------------------------------------------------------------
(* The accounts: what the disk and the database hold of them.              *)

(* What the disk holds was on the chain once.                              *)
DiskFromChain ==
    \A k \in Contract : disk[k] \in {Vacant} \cup {Chain[b][k] : b \in Block}

(* The blocks the nodes held during the run: the bytecode may come from any*)
(* of them.                                                                *)
Reached == UNION {Held(p) : p \in Provider}

LEMMA ReachedGrows ==
    ASSUME Going
    PROVE  Reached \subseteq Reached'
  BY DEF Going, Reached, Held

(* An account in the cache is mocked, from the disk or from a block of the *)
(* run.                                                                    *)
AccountsInRun ==
    \A k \in Contract :
        cache[k] \in {Vacant, Mock[k], disk[k]} \cup {Chain[b][k] : b \in Reached}

QuoterIn == Mock[custom_quoter] \in {Vacant, cache[custom_quoter]}

(* The custom quoter is in the cache, or its insertion is still to come    *)
(* before the first call of it.                                            *)
QuoterReady ==
    /\ QuoterLast(todo)
    /\ \/ QuoterLaid(todo)
       \/ QuoterIn /\ \A j \in DOMAIN todo : IsQuote(todo[j])

DiskEffect ==
    \/ UNCHANGED disk
    \/ \E k \in Contract, p \in Provider :
          disk[k] = Vacant /\ disk' = [disk EXCEPT ![k] = Chain[head[p]][k]]

CacheEffect ==
    \A k \in Contract :
        cache'[k] \in {cache[k], Vacant, Mock[k], disk[k]}
                        \cup {Chain[head[p]][k] : p \in Provider}

TodoEffect ==
    \/ todo' = todo /\ \A k \in Contract : cache[k] # Vacant => cache'[k] = cache[k]
    \/ Passes({"mock_quoter"}) /\ (cache' = cache \/ ~IsQuote(Head(todo)))
    \/ todo # << >> /\ Advance /\ Head(todo).op = "mock_quoter" /\ QuoterIn'

LEMMA AccountEffect ==
    ASSUME TypeOK, [Next]_vars
    PROVE  \/ Started /\ Restarted /\ UNCHANGED disk
           \/ Going /\ DiskEffect /\ CacheEffect /\ TodoEffect
<1>0. Drawn \in Provider /\ db_provider \in Provider
  BY DrawnIsProvider DEF TypeOK
<1> USE DEF DiskEffect, CacheEffect, TodoEffect
<1>1. CASE UNCHANGED vars \/ \E p \in Provider : NewBlock(p)
  BY <1>1, NewBlockGoes, SameGoes DEF NewBlock, vars, run
<1>2. CASE \E m \in Method : Start(m)
  BY <1>2 DEF Start, Blank, Restarted, Started
<1>3. CASE GasPrice \/ GasPriceAgain \/ GetBlockNumber
  BY <1>3, SameGoes DEF GasPrice, GasPriceAgain, GetBlockNumber, At, Advance, Passes
<1>4. CASE InitCacheDB
  BY <1>4, SameGoes DEF InitCacheDB, At, Advance, Passes, IsQuote, Quotes, Path, Remote,
                    Empty, Key
<1>5. CASE InitAccount
  <2>1. Head(todo).arg \in Contract /\ todo # << >> /\ Head(todo).op = "init_account"
    BY <1>5, HeadStep, HeadTailProperties DEF InitAccount, At, TypeOK, Steps
  <2>2. Passes({"mock_quoter"}) /\ ~IsQuote(Head(todo))
    BY <1>5, <2>1 DEF InitAccount, Passes, IsQuote, Quotes, Path, Remote
  <2>3. Going
    BY <1>5, SameGoes DEF InitAccount, Advance
  <2>4. DiskEffect
    BY <1>0, <1>5, <2>1 DEF InitAccount
  <2>5. CacheEffect
    BY <1>0, <1>5, <2>1 DEF InitAccount, Fetch, TypeOK, DB, Key
  <2> QED BY <2>2, <2>3, <2>4, <2>5
<1>6. CASE MockTokens \/ MockQuoter
  <2>1. Going /\ DiskEffect
    BY <1>6, SameGoes DEF MockTokens, MockQuoter, Insert, Advance
  <2>2. CacheEffect
    BY <1>6 DEF MockTokens, MockQuoter, Insert, Key
  <2>3. CASE MockTokens
    BY <2>1, <2>2, <2>3 DEF MockTokens, Insert, At, Passes, IsQuote, Quotes, Path, Remote
  <2>4. CASE MockQuoter
    <3>1. QuoterIn'
      <4>1. custom_quoter \in Key
        BY RunsAssumption DEF Key
      <4>2. cache' = [k \in Key |-> IF k \in {custom_quoter} \cap Mocked THEN Mock[k] ELSE cache[k]]
        BY <2>4 DEF MockQuoter, Insert
      <4>3. CASE Mock[custom_quoter] = Vacant
        BY <4>3 DEF QuoterIn
      <4>4. CASE Mock[custom_quoter] # Vacant
        BY <4>1, <4>2, <4>4 DEF QuoterIn, Mocked
      <4> QED BY <4>3, <4>4
    <3> QED BY <2>1, <2>2, <2>4, <3>1 DEF MockQuoter, Insert, At
  <2> QED BY <1>6, <2>3, <2>4
<1>7. CASE FetchLatest
  <2>1. PICK k \in Missing(cache, Needs) : cache' = Fetch(cache, k, head[db_provider])
    BY <1>7 DEF FetchLatest
  <2>2. cache[k] = Vacant
    BY <2>1 DEF Missing
  <2>3. Going /\ UNCHANGED <<disk, todo>>
    BY <1>7, SameGoes DEF FetchLatest
  <2>4. CacheEffect /\ \A c \in Contract : cache[c] # Vacant => cache'[c] = cache[c]
    BY <1>0, <2>1, <2>2 DEF Fetch, TypeOK, DB, Key
  <2> QED BY <2>3, <2>4
<1>8. CASE LocalQuote
  BY <1>8, SameGoes DEF LocalQuote, AtLocal, At, Advance, Passes, Path
<1>9. CASE CallPinned \/ CallLatest
  <2>1. todo # << >> /\ Head(todo).op \in Remote
    BY <1>9 DEF CallPinned, CallLatest, At, Remote
  <2>2. UNCHANGED <<head, since, disk, cache>> /\ (todo' = todo \/ Advance)
    BY <1>9 DEF CallPinned, CallLatest, Called, Advance, Stop
  <2> QED BY <2>1, <2>2, SameGoes DEF Passes, Remote
<1>10. CASE AssertEq
  BY <1>10, SameGoes DEF AssertEq, At, Advance, Stop, Passes
<1>11. CASE LocalUndecodable \/ Finish \/ GiveUp
  BY <1>11, SameGoes DEF LocalUndecodable, Finish, GiveUp, Stop
<1> QED BY <1>1, <1>2, <1>3, <1>4, <1>5, <1>6, <1>7, <1>8, <1>9, <1>10, <1>11
        DEF Next, Run

LEMMA DiskStep ==
    ASSUME TypeOK, DiskFromChain, [Next]_vars
    PROVE  DiskFromChain'
<1>1. CASE UNCHANGED disk
  BY <1>1 DEF DiskFromChain
<1>2. ASSUME NEW k \in Contract, NEW p \in Provider,
             disk' = [disk EXCEPT ![k] = Chain[head[p]][k]]
      PROVE  DiskFromChain'
  BY <1>2 DEF DiskFromChain, TypeOK
<1> QED BY <1>1, <1>2, AccountEffect DEF DiskEffect

LEMMA AccountsInRunStep ==
    ASSUME TypeOK, AccountsInRun, [Next]_vars
    PROVE  AccountsInRun'
<1>1. CASE Restarted
  BY <1>1 DEF Restarted, AccountsInRun, Empty, Key
<1>2. CASE Going /\ DiskEffect /\ CacheEffect
  <2> SUFFICES ASSUME NEW k \in Contract
               PROVE  cache'[k] \in {Vacant, Mock[k], disk'[k]}
                                      \cup {Chain[b][k] : b \in Reached'}
    BY DEF AccountsInRun
  <2>1. Reached \subseteq Reached' /\ \A p \in Provider : head[p] \in Reached
    BY <1>2, ReachedGrows, HeldBlocks DEF Reached
  <2>2. disk[k] \in {Vacant, disk'[k]}
    BY <1>2 DEF DiskEffect, TypeOK
  <2>3. {Chain[b][k] : b \in Reached} \subseteq {Chain[b][k] : b \in Reached'}
    BY <2>1
  <2>4. cache[k] \in {Vacant, Mock[k], disk'[k]} \cup {Chain[b][k] : b \in Reached'}
    BY <2>2, <2>3 DEF AccountsInRun
  <2>5. {Chain[head[p]][k] : p \in Provider} \subseteq {Chain[b][k] : b \in Reached'}
    BY <2>1
  <2> QED BY <1>2, <2>2, <2>4, <2>5 DEF CacheEffect
<1> QED BY <1>1, <1>2, AccountEffect

LEMMA QuoterReadyStep ==
    ASSUME TypeOK, QuoterReady, [Next]_vars
    PROVE  QuoterReady'
<1>0. todo \in Seq(Steps) /\ custom_quoter \in Contract
  BY RunsAssumption DEF TypeOK, Steps
<1>1. CASE Started
  <2>1. QuoterLast(todo') /\ QuoterLaid(todo')
    BY <1>1, ProgramShape DEF Started
  <2> QED BY <2>1 DEF QuoterReady
<1>2. CASE todo' = todo /\ \A k \in Contract : cache[k] # Vacant => cache'[k] = cache[k]
  BY <1>0, <1>2, ForkDBAssumption DEF QuoterReady, QuoterIn
<1>3. ASSUME todo # << >>, Advance
      PROVE  /\ Len(todo) \in Nat \ {0} /\ Head(todo) = todo[1]
             /\ DOMAIN todo = 1..Len(todo) /\ DOMAIN todo' = 1..(Len(todo) - 1)
             /\ \A i \in DOMAIN todo' : i + 1 \in DOMAIN todo /\ todo'[i] = todo[i + 1]
             /\ QuoterLast(todo')
  <2>1. /\ Len(todo) \in Nat \ {0} /\ Head(todo) = todo[1]
        /\ DOMAIN todo = 1..Len(todo) /\ DOMAIN todo' = 1..(Len(todo) - 1)
        /\ \A i \in DOMAIN todo' : i + 1 \in DOMAIN todo /\ todo'[i] = todo[i + 1]
    BY <1>0, <1>3, Taken DEF Advance
  <2>2. QuoterLast(todo')
    <3> SUFFICES ASSUME NEW i \in DOMAIN todo', NEW j \in DOMAIN todo', i < j,
                        todo'[i].op = "mock_quoter"
                 PROVE  IsQuote(todo'[j])
      BY DEF QuoterLast
    <3>1. i + 1 \in DOMAIN todo /\ j + 1 \in DOMAIN todo /\ i + 1 < j + 1
      BY <2>1
    <3> QED BY <2>1, <3>1 DEF QuoterReady, QuoterLast
  <2> QED BY <2>1, <2>2
<1>4. CASE Passes({"mock_quoter"}) /\ (cache' = cache \/ ~IsQuote(Head(todo)))
  <2>1. todo # << >> /\ Advance
    BY <1>4 DEF Passes
  <2>2. CASE QuoterLaid(todo)
    <3>1. \A j \in DOMAIN todo : todo[j].op \in Pools =>
              \E i \in 1..(j - 1) : todo[i].op \in {"mock_quoter"}
      BY <2>2 DEF QuoterLaid
    <3>2. \A j \in DOMAIN todo' : todo'[j].op \in Pools =>
              \E i \in 1..(j - 1) : todo'[i].op \in {"mock_quoter"}
      BY <1>0, <1>4, <3>1, LeftAfterStep
    <3>3. QuoterLaid(todo')
      BY <3>2 DEF QuoterLaid
    <3> QED BY <1>3, <2>1, <3>3 DEF QuoterReady
  <2>3. CASE QuoterIn /\ \A j \in DOMAIN todo : IsQuote(todo[j])
    <3>1. IsQuote(Head(todo)) /\ \A j \in DOMAIN todo' : IsQuote(todo'[j])
      BY <1>3, <2>1, <2>3
    <3>2. QuoterIn'
      BY <1>4, <2>3, <3>1 DEF QuoterIn
    <3> QED BY <1>3, <2>1, <3>1, <3>2 DEF QuoterReady
  <2> QED BY <2>2, <2>3 DEF QuoterReady
<1>5. CASE todo # << >> /\ Advance /\ Head(todo).op = "mock_quoter" /\ QuoterIn'
  <2>1. ASSUME NEW j \in DOMAIN todo' PROVE IsQuote(todo'[j])
    <3>1. 1 \in DOMAIN todo /\ j + 1 \in DOMAIN todo /\ 1 < j + 1
      BY <1>3, <1>5
    <3> QED BY <1>3, <1>5, <3>1 DEF QuoterReady, QuoterLast
  <2> QED BY <1>3, <1>5, <2>1 DEF QuoterReady
<1> QED BY <1>1, <1>2, <1>4, <1>5, AccountEffect DEF TodoEffect

(* What the run relies on: a mock has code; what it mocks besides the      *)
(* custom quoter has code on the chain too; and the official quoter does   *)
(* not call the custom one.                                                *)
MocksHold ==
    /\ \A k \in Contract : Mock[k] # Zero
    /\ \A k \in Contract \ {custom_quoter} :
         Mock[k] # Vacant => \A b \in Block : Chain[b][k] # Zero
    /\ \A a \in Amount : custom_quoter \notin Reads["quoter"][a]

LEMMA UndecodableStep ==
    ASSUME MocksHold, TypeOK, DiskFromChain, CacheInRun, AccountsInRun, QuoterReady,
           UndecodableNeedsEmpty, [Next]_vars
    PROVE  UndecodableNeedsEmpty'
<1>0. \A p \in Provider : Held(p) \subseteq Block
  BY HeldBlocks
<1>1. CASE UNCHANGED vars \/ \E p \in Provider : NewBlock(p)
  <2>1. UNCHANGED <<ended, todo, disk>> /\ Going
    BY <1>1, NewBlockGoes, SameGoes DEF NewBlock, vars, run
  <2>2. UNCHANGED Needs
    BY <2>1 DEF Needs
  <2> QED BY <2>1, <2>2 DEF UndecodableNeedsEmpty, Going, Held
<1>2. CASE LocalUndecodable
  <2>1. /\ todo \in Seq(Steps) /\ todo # << >> /\ Head(todo).op \in Path
        /\ Missing(cache, Needs) = {} /\ ~Answers(cache, Needs)
        /\ UNCHANGED <<head, since, todo, disk>>
    BY <1>2 DEF LocalUndecodable, AtLocal, At, Stop, TypeOK, Steps
  <2>2. PICK k \in Vital(Needs) : cache[k] \in {Vacant, Zero}
    BY <2>1 DEF Answers
  <2>3. cache[k] = Zero /\ Zero # Vacant
    BY <2>1, <2>2, ForkDBAssumption DEF Missing, Vital
  <2>4. UNCHANGED Needs
    BY <2>1 DEF Needs
  <2>5. CASE k \in Live
    <3>1. k \in Slot /\ Mock[k] = Vacant
      BY <2>5, ForkDBAssumption
    <3>2. \E b \in Held(db_provider) : Chain[b][k] = Zero
      BY <2>3, <3>1 DEF CacheInRun
    <3>3. \E p \in Provider : \E b \in Held(p) : Chain[b][k] = Zero
      BY <3>2 DEF TypeOK
    <3> QED BY <2>1, <2>2, <2>4, <3>1, <3>3 DEF UndecodableNeedsEmpty, Held
  <2>6. CASE k \in Contract \cap Needs
    <3>1. cache[k] \in {Vacant, Mock[k], disk[k]} \cup {Chain[b][k] : b \in Reached}
      BY <2>6 DEF AccountsInRun
    <3>2. Mock[k] = Vacant
      <4>1. CASE k # custom_quoter
        <5> SUFFICES ASSUME Mock[k] # Vacant PROVE FALSE
          OBVIOUS
        <5>1. \A b \in Block : Chain[b][k] # Zero
          BY <2>6, <4>1 DEF MocksHold
        <5>2. disk[k] # Zero
          BY <2>3, <2>6, <5>1 DEF DiskFromChain
        <5>3. Mock[k] # Zero
          BY <2>6 DEF MocksHold
        <5>4. Reached \subseteq Block
          BY <1>0 DEF Reached
        <5> QED BY <2>3, <3>1, <5>1, <5>2, <5>3, <5>4
      <4>2. CASE k = custom_quoter
        <5>1. Head(todo) \in Steps /\ 1 \in DOMAIN todo /\ Head(todo) = todo[1]
          BY <2>1, HeadTailProperties, EmptySeq, LenProperties
        <5>2. vol[Head(todo).arg] \in Amount
          BY <2>1, <5>1, HeadStep, VolFacts DEF Quotes
        <5>3. Head(todo).op # "quoter"
          BY <2>6, <4>2, <5>2 DEF Needs, MocksHold
        <5>4. Head(todo).op \in Pools
          BY <2>1, <5>3 DEF Path, Pools
        <5>5. ~QuoterLaid(todo)
          BY <5>1, <5>4 DEF QuoterLaid
        <5>6. QuoterIn
          BY <5>5 DEF QuoterReady
        <5> QED BY <2>3, <2>6, <4>2, <5>6 DEF QuoterIn, MocksHold
      <4> QED BY <4>1, <4>2
    <3>3. disk[k] = Zero \/ \E p \in Provider : \E b \in Held(p) : Chain[b][k] = Zero
      BY <2>3, <3>1, <3>2 DEF Reached
    <3> QED BY <2>1, <2>2, <2>4, <2>6, <3>2, <3>3 DEF UndecodableNeedsEmpty, Held
  <2> QED BY <2>2, <2>5, <2>6 DEF Vital
<1>3. CASE CallPinned \/ CallLatest
  <2>1. ended = "running" /\ Head(todo).op \notin Path
    BY <1>3 DEF CallPinned, CallLatest, At, Path
  <2>2. ended' = "running" \/ ended' = "refused" \/ todo' = todo
    BY <1>3, <2>1 DEF CallPinned, CallLatest, Called, Advance, Stop
  <2> QED BY <2>1, <2>2 DEF UndecodableNeedsEmpty
<1>4. CASE GasPrice \/ GasPriceAgain \/ GetBlockNumber \/ InitCacheDB
  BY <1>4 DEF GasPrice, GasPriceAgain, GetBlockNumber, InitCacheDB, At, Advance,
              UndecodableNeedsEmpty
<1>5. CASE InitAccount \/ MockTokens \/ MockQuoter
  BY <1>5 DEF InitAccount, MockTokens, MockQuoter, Insert, At, Advance,
              UndecodableNeedsEmpty
<1>6. CASE FetchLatest \/ LocalQuote
  BY <1>6 DEF FetchLatest, LocalQuote, AtLocal, At, Advance, UndecodableNeedsEmpty
<1>7. CASE AssertEq
  BY <1>7 DEF AssertEq, At, Advance, Stop, UndecodableNeedsEmpty
<1>8. CASE Finish \/ GiveUp \/ \E m \in Method : Start(m)
  BY <1>8 DEF Finish, GiveUp, Start, Stop, UndecodableNeedsEmpty
<1> QED BY <1>1, <1>2, <1>3, <1>4, <1>5, <1>6, <1>7, <1>8 DEF Next, Run

-----------------------------------------------------------------------------
(* The inductive invariant, and what follows from it.                      *)

IInv ==
    /\ TypeOK
    /\ SetupFirst /\ ComparedLeft /\ LargestLeft
    /\ FeeLeft /\ PinLeft
    /\ CacheInRun /\ AnswersKept /\ PricesInRun /\ PinnedExact
    /\ RefusedNeedsTwoBlocks /\ PanicNeedsMovedPrice
    /\ DiskFromChain /\ AccountsInRun /\ QuoterReady

LEMMA InitIInv == Init => IInv
<1> SUFFICES ASSUME Init PROVE IInv
  OBVIOUS
<1>1. TypeOK
  BY InitTypeOK
<1>2. SetupFirst /\ ComparedLeft /\ LargestLeft
  BY DEF Init, SetupFirst, Ordered, ComparedLeft, LargestLeft
<1>3. FeeLeft /\ PinLeft
  BY DEF Init, FeeLeft, PinLeft, Priced, Pinned, Undisturbed
<1>4. CacheInRun
  BY DEF Init, CacheInRun, Empty, Key
<1>5. AnswersKept /\ PricesInRun /\ PinnedExact
  BY DEF Init, AnswersKept, Local, PricesInRun, PinnedExact
<1>6. RefusedNeedsTwoBlocks /\ PanicNeedsMovedPrice
  BY DEF Init, RefusedNeedsTwoBlocks, PanicNeedsMovedPrice
<1>7. DiskFromChain /\ AccountsInRun
  BY DEF Init, DiskFromChain, AccountsInRun, Empty, Key
<1>8. QuoterReady
  BY DEF Init, QuoterReady, QuoterLast, QuoterLaid
<1> QED BY <1>1, <1>2, <1>3, <1>4, <1>5, <1>6, <1>7, <1>8 DEF IInv

LEMMA NextIInv == IInv /\ [Next]_vars => IInv'
<1> SUFFICES ASSUME IInv, [Next]_vars PROVE IInv'
  OBVIOUS
<1> USE DEF IInv
<1>1. TypeOK'
  BY NextTypeOK
<1>2. SetupFirst' /\ ComparedLeft' /\ LargestLeft'
  BY SetupFirstStep, ComparedLeftStep, LargestLeftStep
<1>3. FeeLeft' /\ PinLeft'
  BY FeePinLeftStep
<1>4. CacheInRun' /\ AnswersKept' /\ PricesInRun' /\ PinnedExact'
  BY CacheInRunStep, AnswersKeptStep, PricesInRunStep, PinnedExactStep
<1>5. RefusedNeedsTwoBlocks' /\ PanicNeedsMovedPrice'
  BY RefusedStep, PanicStep
<1>6. DiskFromChain' /\ AccountsInRun' /\ QuoterReady'
  BY DiskStep, AccountsInRunStep, QuoterReadyStep
<1> QED BY <1>1, <1>2, <1>3, <1>4, <1>5, <1>6

LEMMA Invariance == Spec => []IInv
  BY InitIInv, NextIInv, PTL DEF Spec

(* All local quotes of a run are quotes of one state (cache_db is passed   *)
(* on from call to call).                                                  *)
THEOREM QuotesOfOneState == Spec => []OneState
<1>1. IInv => OneState
  BY DEF IInv, AnswersKept, OneState
<1> QED BY <1>1, Invariance, PTL

(* Nothing a local quote found is older than what AlloyDB's node held when *)
(* the run began (db.rs:99).                                               *)
THEOREM QuotesWithinRun == Spec => []WithinRun
<1>1. IInv => WithinRun
  <2> SUFFICES ASSUME IInv, NEW n \in Local, NEW k \in Slot \cap DOMAIN answers[n].out
               PROVE  answers[n].out[k] \in
                        {Mock[k]} \cup {Chain[b][k] : b \in Held(db_provider)}
    BY DEF WithinRun
  <2>1. answers[n].out[k] = cache[k] /\ cache[k] # Vacant
    BY DEF IInv, AnswersKept
  <2> QED BY <2>1 DEF IInv, CacheInRun
<1> QED BY <1>1, Invariance, PTL

(* call and anvil quote at the block number they asked for                 *)
(* (chain_call.rs:52).                                                     *)
THEOREM CallsPinned == Spec => []PinnedExact
<1>1. IInv => PinnedExact
  BY DEF IInv
<1> QED BY <1>1, Invariance, PTL

(* validate stops on assert_eq only if its two nodes held, during the run, *)
(* blocks with different prices (chain_validate.rs:87, db.rs:99).          *)
THEOREM PanicsNeedMovedPrice == Spec => []PanicNeedsMovedPrice
<1>1. IInv => PanicNeedsMovedPrice
  BY DEF IInv
<1> QED BY <1>1, Invariance, PTL

(* On a chain whose blocks leave the prices of the pools alone the two     *)
(* amounts of validate are equal (chain_validate.rs:87).                   *)
THEOREM SteadyPricesValidate ==
    ASSUME \A b, c \in Block, k \in PoolSlot : Chain[b][k] = Chain[c][k]
    PROVE  Spec => []ValidateHolds
<1>1. IInv => ValidateHolds
  <2> SUFFICES ASSUME IInv, ended = "panicked" PROVE FALSE
    BY DEF ValidateHolds
  <2>1. PICK b \in Held(provider), c \in Held(db_provider) :
            \E k \in PoolSlot : Chain[b][k] # Chain[c][k]
    BY DEF IInv, PanicNeedsMovedPrice
  <2>2. b \in Block /\ c \in Block
    BY HeldBlocks DEF IInv, TypeOK
  <2> QED BY <2>1, <2>2
<1> QED BY <1>1, Invariance, PTL

(* The fifth that build_tx adds to the fee covers one block                *)
(* (builder.rs:41).                                                        *)
THEOREM RefusalsNeedTwoBlocks == Spec => []RefusedNeedsTwoBlocks
<1>1. IInv => RefusedNeedsTwoBlocks
  BY DEF IInv
<1> QED BY <1>1, Invariance, PTL

(* Where what is mocked has code, a quote has no output only for an account*)
(* or a price that was empty at a node during the run, or an account that  *)
(* is so on the disk (db.rs:149).                                          *)
THEOREM UndecodablesNeedEmpty ==
    ASSUME MocksHold
    PROVE  Spec => []UndecodableNeedsEmpty
<1>1. Init => UndecodableNeedsEmpty
  BY DEF Init, UndecodableNeedsEmpty
<1>2. IInv /\ UndecodableNeedsEmpty /\ [Next]_vars => UndecodableNeedsEmpty'
  BY UndecodableStep DEF IInv
<1> QED BY <1>1, <1>2, Invariance, PTL DEF Spec

(* If larger swaps read all that smaller ones read, the timed loops ask    *)
(* the chain for nothing (chain_revm.rs:50).                               *)
THEOREM LoopsOffline ==
    ASSUME LargerReadsMore
    PROVE  Spec => LoopIsOffline
<1>1. ASSUME IInv, [Next]_vars, NEW n \in DOMAIN answers, At(answers[n].op)
      PROVE  cache' = cache
  <2>1. /\ todo \in Seq(Steps) /\ todo # << >> /\ Head(todo).op = answers[n].op
        /\ ended = "running"
    BY <1>1 DEF IInv, TypeOK, Steps, At
  <2>2. Head(todo) \in Steps /\ answers[n] \in Answer
    <3>1. answers \in Seq(Answer)
      BY <1>1 DEF IInv, TypeOK
    <3>2. n \in 1..Len(answers)
      BY <1>1, <3>1, LenProperties
    <3> QED BY <2>1, <3>1, <3>2, HeadTailProperties, ElementOfSeq
  <2>3. Head(todo).op \in Quotes /\ Head(todo).arg \in 1..Count
    BY <2>1, <2>2, HeadStep DEF Answer, Quotes
  <2>4. ASSUME FetchLatest PROVE FALSE
    <3>1. PICK k : k \in Missing(cache, Needs)
      BY <2>4 DEF FetchLatest
    <3>2. answers[n].op \in Path
      BY <2>1, <2>4 DEF FetchLatest, AtLocal, At
    <3>3. Needs \subseteq Reads[answers[n].op][vol[1]]
      BY <2>1, <2>3, <3>2, VolFacts DEF Needs, LargerReadsMore, Nested
    <3>4. Missing(cache, Reads[answers[n].op][vol[1]]) = {}
      BY <1>1, <3>2 DEF IInv, AnswersKept, Local
    <3> QED BY <3>1, <3>3, <3>4 DEF Missing
  <2>5. ~InitCacheDB /\ ~InitAccount /\ ~MockTokens /\ ~MockQuoter
    BY <2>1, <2>3 DEF InitCacheDB, InitAccount, MockTokens, MockQuoter, At, Quotes, Path, Remote
  <2>6. ~\E m \in Method : Start(m)
    BY <2>1 DEF Start
  <2>7. CASE GasPrice \/ GasPriceAgain \/ GetBlockNumber
    BY <2>7 DEF GasPrice, GasPriceAgain, GetBlockNumber
  <2>8. CASE LocalQuote \/ LocalUndecodable \/ CallPinned \/ CallLatest
    BY <2>8 DEF LocalQuote, LocalUndecodable, CallPinned, CallLatest, Called
  <2>9. CASE AssertEq \/ Finish \/ GiveUp
    BY <2>9 DEF AssertEq, Finish, GiveUp
  <2>10. CASE (\E p \in Provider : NewBlock(p)) \/ UNCHANGED vars
    BY <2>10 DEF NewBlock, vars, run
  <2> QED BY <1>1, <2>4, <2>5, <2>6, <2>7, <2>8, <2>9, <2>10 DEF Next, Run
<1>2. IInv /\ [Next]_vars =>
        [\A n \in DOMAIN answers : At(answers[n].op) => cache' = cache]_vars
  BY <1>1
<1> QED BY <1>2, Invariance, PTL DEF Spec, LoopIsOffline

(* What a run does that neither ends it nor is a step of its program is to *)
(* read a key that the quote under way lacked.                             *)
Reading ==
    /\ todo' = todo
    /\ Missing(cache', Needs) \subseteq Missing(cache, Needs)
    /\ Missing(cache', Needs) # Missing(cache, Needs)

LEMMA WindsDown ==
    ASSUME TypeOK, [Next]_vars, ended = "running", run' # run
    PROVE  ended' # "running" \/ Len(todo') < Len(todo) \/ Reading
<1>1. ASSUME Advance, todo # << >> PROVE Len(todo') < Len(todo)
  BY <1>1, Taken DEF Advance, TypeOK, Steps
<1>2. (\A p \in Provider : ~NewBlock(p)) /\ ~UNCHANGED vars /\ ~\E m \in Method : Start(m)
  BY DEF NewBlock, vars, Start
<1>3. CASE GasPrice \/ GasPriceAgain \/ GetBlockNumber \/ InitCacheDB
  BY <1>1, <1>3 DEF GasPrice, GasPriceAgain, GetBlockNumber, InitCacheDB, At
<1>4. CASE InitAccount \/ MockTokens \/ MockQuoter
  BY <1>1, <1>4 DEF InitAccount, MockTokens, MockQuoter, Insert, At
<1>5. CASE FetchLatest
  <2>1. PICK k \in Missing(cache, Needs) : cache' = Fetch(cache, k, head[db_provider])
    BY <1>5 DEF FetchLatest
  <2>2. todo \in Seq(Steps) /\ todo # << >> /\ Head(todo).op \in Path
    BY <1>5 DEF FetchLatest, AtLocal, At, TypeOK, Steps
  <2>3. Head(todo).arg \in 1..Count
    BY <2>2, HeadStep, HeadTailProperties DEF Quotes
  <2>4. Needs \subseteq Key /\ k \in Key /\ cache[k] = Vacant
    BY <2>1, <2>2, <2>3, ReadsAreKeys DEF Needs, Missing
  <2>5. Chain[head[db_provider]][k] # Vacant
    BY <2>4, ForkDBAssumption DEF TypeOK
  <2>6. cache' = [cache EXCEPT ![k] = Chain[head[db_provider]][k]] /\ DOMAIN cache = Key
    BY <2>1 DEF Fetch, TypeOK, DB
  <2> DEFINE N == Needs
  <2> HIDE DEF N
  <2>7. Missing(cache', N) \subseteq Missing(cache, N) /\ k \notin Missing(cache', N)
    BY <2>4, <2>5, <2>6 DEF Missing, N
  <2>8. todo' = todo
    BY <1>5 DEF FetchLatest
  <2> QED BY <2>1, <2>7, <2>8 DEF N, Reading
<1>6. CASE LocalQuote
  BY <1>1, <1>6 DEF LocalQuote, AtLocal, At
<1>7. CASE CallPinned \/ CallLatest
  BY <1>1, <1>7 DEF CallPinned, CallLatest, Called, At, Stop
<1>8. CASE AssertEq
  BY <1>1, <1>8 DEF AssertEq, At, Stop
<1>9. CASE LocalUndecodable \/ Finish \/ GiveUp
  BY <1>9 DEF LocalUndecodable, Finish, GiveUp, Stop
<1> QED BY <1>2, <1>3, <1>4, <1>5, <1>6, <1>7, <1>8, <1>9 DEF Next, Run

(* Every step of a run ends it, shortens its program, or shrinks what the  *)
(* quote under way lacks: the part of RunsEnd that needs no fairness.      *)
THEOREM RunsAlwaysWindDown == Spec => RunsWindDown
<1>1. IInv /\ [Next]_vars =>
        [ended = "running" /\ run' # run =>
           \/ ended' # "running"
           \/ Len(todo') < Len(todo)
           \/ /\ todo' = todo
              /\ Missing(cache', Needs) \subseteq Missing(cache, Needs)
              /\ Missing(cache', Needs) # Missing(cache, Needs)]_vars
  BY WindsDown DEF IInv, Reading
<1> QED BY <1>1, Invariance, PTL DEF Spec, RunsWindDown
=============================================================================

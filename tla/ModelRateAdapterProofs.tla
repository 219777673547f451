------------------------ MODULE ModelRateAdapterProofs ------------------------
(***************************************************************************)
(* Proofs about LanczosResampler and ModelRateAdapter, for all rates, block  *)
(* sizes and kernel radii.                                                   *)
(***************************************************************************)
EXTENDS ModelRateAdapter, FiniteSetTheorems, TLAPS

USE RadiusAssumption, BufferSizeAssumption, RatesAssumption, BlocksAssumption

Positive == Nat \ {0}

-----------------------------------------------------------------------------
(* Integers *)

LEMMA Division ==
    ASSUME NEW a \in Nat, NEW b \in Positive
    PROVE  /\ a \div b \in Nat
           /\ b * (a \div b) <= a
           /\ a < b * (a \div b) + b
  BY DEF Positive

LEMMA TimesMonotone ==
    ASSUME NEW a \in Int, NEW b \in Int, NEW c \in Nat, a <= b
    PROVE  /\ c * a \in Int /\ c * b \in Int
           /\ c * a <= c * b
  OBVIOUS

LEMMA TimesCancels ==
    ASSUME NEW a \in Int, NEW b \in Int, NEW c \in Positive, c * a < c * b
    PROVE  a < b
<1>1. CASE b <= a
  BY <1>1, TimesMonotone DEF Positive
<1>. QED BY <1>1 DEF Positive

LEMMA TimesDistributes ==
    ASSUME NEW a \in Int, NEW b \in Int, NEW c \in Int
    PROVE  /\ c * a \in Int /\ c * b \in Int
           /\ c * (a + b) = c * a + c * b
           /\ c * (a - b) = c * a - c * b
  OBVIOUS

-----------------------------------------------------------------------------
(* The greatest common divisor *)

\* A common divisor is at most either number, and divides it into a positive one.
LEMMA Divides ==
    ASSUME NEW a \in Positive, NEW g \in Positive, a % g = 0
    PROVE  /\ g <= a
           /\ a \div g \in Positive
           /\ a = g * (a \div g)
  BY DEF Positive

LEMMA CommonDivisorsSymmetric ==
    ASSUME NEW a \in Positive, NEW b \in Positive
    PROVE  CommonDivisors(a, b) = CommonDivisors(b, a)
<1>1. ASSUME NEW x \in Positive, NEW y \in Positive, NEW g \in CommonDivisors(x, y)
      PROVE  g \in CommonDivisors(y, x)
  <2>1. g \in Positive /\ y % g = 0 /\ x % g = 0
    BY <1>1 DEF CommonDivisors, Positive
  <2>2. g <= y
    BY <2>1, Divides
  <2>. QED BY <2>1, <2>2 DEF CommonDivisors, Positive
<1>. QED BY <1>1

\* A non-empty set of numbers with a bound has a greatest element: one with as
\* few elements above it as any.
LEMMA GreatestElement ==
    ASSUME NEW n \in Nat, NEW S, S \subseteq 0..n, S # {}
    PROVE  \E x \in S : \A y \in S : x >= y
<1> DEFINE Above(x) == {y \in S : y > x}
           Family == {Above(x) : x \in S}
           Order == StrictSubsetOrdering(S)
<1>1. IsFiniteSet(S)
  <2>1. S \in SUBSET (0..n) /\ 0 \in Int /\ n \in Int
    OBVIOUS
  <2>. QED BY <2>1, FS_Interval, FS_Subset
<1>2. Family \subseteq FiniteSubsetsOf(S) /\ Family # {}
  <2>1. FiniteSubsetsOf(S) = SUBSET S
    BY <1>1, FS_FiniteSubsetsOfFinite
  <2>2. \A x \in S : Above(x) \subseteq S
    OBVIOUS
  <2>3. PICK x \in S : TRUE
    OBVIOUS
  <2>4. Family \subseteq SUBSET S
    BY <2>2
  <2>5. Above(x) \in Family
    OBVIOUS
  <2>. QED BY <2>1, <2>4, <2>5
<1>3. \E F \in Family : \A G \in Family : ~ (<<G, F>> \in Order)
  <2>1. IsWellFoundedOn(Order, FiniteSubsetsOf(S))
    BY FS_StrictSubsetOrderingWellFounded
  <2>. HIDE DEF Family, Order
  <2>. QED BY <1>2, <2>1, WFMin
<1>4. PICK x \in S : \A y \in S : ~ (<<Above(y), Above(x)>> \in Order)
  BY <1>3
<1>5. ASSUME NEW y \in S, ~ (x >= y) PROVE FALSE
  <2>1. x \in Int /\ y \in Int /\ y > x
    BY <1>5
  <2>2. y \in Above(x) /\ y \notin Above(y)
    BY <2>1
  <2>3. Above(y) \subseteq Above(x)
    <3>1. ASSUME NEW z \in S, z > y PROVE z > x
      <4>1. z \in Int
        OBVIOUS
      <4>. QED BY <2>1, <3>1, <4>1
    <3>. QED BY <3>1
  <2>4. <<Above(y), Above(x)>> \in Order
    BY <2>2, <2>3 DEF StrictSubsetOrdering
  <2>. QED BY <1>4, <2>4
<1>. QED BY <1>5

LEMMA GcdDivides ==
    ASSUME NEW a \in Positive, NEW b \in Positive
    PROVE  /\ Gcd(a, b) \in Positive
           /\ a % Gcd(a, b) = 0 /\ b % Gcd(a, b) = 0
           /\ Gcd(a, b) = Gcd(b, a)
<1> DEFINE S == CommonDivisors(a, b)
<1>1. S \subseteq 0..a
  BY DEF CommonDivisors, Positive
<1>2. 1 \in S
  <2>1. a % 1 = 0 /\ b % 1 = 0
    BY DEF Positive
  <2>. QED BY <2>1 DEF CommonDivisors, Positive
<1>3. \E x \in S : \A y \in S : x >= y
  <2>1. a \in Nat
    BY DEF Positive
  <2>. QED BY <1>1, <1>2, <2>1, GreatestElement
<1>4. Gcd(a, b) \in S
  BY <1>3 DEF Gcd, Max
<1>5. Gcd(a, b) = Gcd(b, a)
  BY CommonDivisorsSymmetric DEF Gcd
<1>. QED BY <1>4, <1>5 DEF CommonDivisors, Positive

-----------------------------------------------------------------------------
(* The resampler *)

LEMMA NewResampler ==
    ASSUME NEW a \in Positive, NEW b \in Positive
    PROVE  LET in == Resampler(a, b)
               out == Resampler(b, a)
           IN  /\ in \in ResamplerRecord /\ out \in ResamplerRecord
               /\ in.phaseInput = 0 /\ in.phaseOutput = 0
               /\ out.phaseInput = 0 /\ out.phaseOutput = 0
               /\ in.inputIncrement = out.outputIncrement
               /\ in.outputIncrement = out.inputIncrement
               /\ b = Gcd(a, b) * in.inputIncrement
               /\ a = Gcd(a, b) * in.outputIncrement
<1>1. /\ Gcd(a, b) \in Positive /\ Gcd(a, b) = Gcd(b, a)
      /\ a % Gcd(a, b) = 0 /\ b % Gcd(a, b) = 0
  BY GcdDivides
<1>2. /\ a \div Gcd(a, b) \in Positive /\ b \div Gcd(a, b) \in Positive
      /\ a = Gcd(a, b) * (a \div Gcd(a, b)) /\ b = Gcd(a, b) * (b \div Gcd(a, b))
  BY <1>1, Divides
<1>. HIDE DEF Positive
<1>. QED BY <1>1, <1>2 DEF Resampler, ResamplerRecord, Positive

LEMMA ResamplerTypes ==
    ASSUME NEW r \in ResamplerRecord, NEW n \in Nat
    PROVE  /\ Distance(r) \in Int
           /\ MinimumDistance(r) \in Nat
           /\ r.outputIncrement * n \in Nat
           /\ r.inputIncrement * n \in Nat
  BY DEF ResamplerRecord, Distance, MinimumDistance

\* What input_frames_required_for promises: that many more input samples make
\* n output samples available, with at most one input sample to spare.
LEMMA RequiredBound ==
    ASSUME NEW r \in ResamplerRecord, NEW n \in Nat
    PROVE  LET required == InputFramesRequiredFor(r, n)
               missing == MinimumDistance(r) - (Distance(r) - r.outputIncrement * n)
           IN  /\ required \in Nat
               /\ required = 0 <=> missing <= 0
               /\ missing > 0 => /\ r.inputIncrement * required > missing
                                 /\ r.inputIncrement * required <= missing + r.inputIncrement
<1> DEFINE missing == MinimumDistance(r) - (Distance(r) - r.outputIncrement * n)
           inc == r.inputIncrement
           required == InputFramesRequiredFor(r, n)
<1>1. missing \in Int /\ inc \in Positive
  BY ResamplerTypes DEF ResamplerRecord, Positive
<1>2. required = IF missing <= 0 THEN 0 ELSE (missing \div inc) + 1
  BY DEF InputFramesRequiredFor
<1>3. CASE missing > 0
  <2>. HIDE DEF missing, inc
  <2>1. /\ missing \div inc \in Nat
        /\ inc * (missing \div inc) <= missing
        /\ missing < inc * (missing \div inc) + inc
    BY <1>1, <1>3, Division DEF Positive
  <2>2. inc * ((missing \div inc) + 1) = inc * (missing \div inc) + inc * 1
    BY <1>1, <2>1, TimesDistributes DEF Positive
  <2>3. required = (missing \div inc) + 1
    BY <1>1, <1>2, <1>3
  <2>4. /\ required \in Nat /\ required # 0
        /\ inc * required > missing
        /\ inc * required <= missing + inc
    <3>. DEFINE q == missing \div inc
    <3>1. inc * (q + 1) = inc * q + inc
      BY <1>1, <2>1, <2>2 DEF Positive
    <3>2. inc * q \in Int
      BY <1>1, <2>1 DEF Positive
    <3>. HIDE DEF q, required
    <3>3. required = q + 1 /\ q \in Nat /\ inc * q <= missing /\ missing < inc * q + inc
      BY <2>1, <2>3 DEF q
    <3>. QED BY <1>1, <3>1, <3>2, <3>3 DEF Positive
  <2>. QED BY <1>1, <1>3, <2>4 DEF missing, inc
<1>4. CASE missing <= 0
  BY <1>1, <1>2, <1>4
<1>. QED BY <1>1, <1>3, <1>4

\* What pop() produces: no more than it was asked for, each at more than the
\* minimum distance, and all of them if the last one is at more than that.
LEMMA PoppedBound ==
    ASSUME NEW r \in ResamplerRecord, NEW n \in Nat
    PROVE  LET populated == Popped(r, n)
           IN  /\ populated \in Nat
               /\ populated <= n
               /\ populated # 0 =>
                      Distance(r) - r.outputIncrement * populated
                          > MinimumDistance(r) - r.outputIncrement
               /\ populated = 0 /\ n # 0 => Distance(r) <= MinimumDistance(r)
               /\ n # 0 /\ Distance(r) - r.outputIncrement * (n - 1) > MinimumDistance(r)
                      => populated = n
<1> DEFINE out == r.outputIncrement
           d == Distance(r) - MinimumDistance(r)
           q == (Distance(r) - MinimumDistance(r) - 1) \div out
           populated == Popped(r, n)
<1>1. d \in Int /\ out \in Positive /\ Distance(r) \in Int /\ MinimumDistance(r) \in Int
  BY ResamplerTypes DEF ResamplerRecord, Positive
<1>2. Available(r) = IF d <= 0 THEN 0 ELSE q + 1
  <2>. HIDE DEF q
  <2>1. Distance(r) <= MinimumDistance(r) <=> d <= 0
    BY <1>1
  <2>. QED BY <2>1 DEF Available, q
<1>3. CASE d <= 0
  <2>1. populated = 0
    BY <1>2, <1>3 DEF Popped
  <2>2. Distance(r) <= MinimumDistance(r)
    BY <1>1, <1>3
  <2>3. n # 0 => out * (n - 1) \in Nat
    BY <1>1 DEF Positive
  <2>4. n # 0 => ~ (Distance(r) - out * (n - 1) > MinimumDistance(r))
    <3>. DEFINE p == out * (n - 1)
    <3>1. n # 0 => p \in Nat
      BY <2>3
    <3>. HIDE DEF p, out
    <3>2. n # 0 => ~ (Distance(r) - p > MinimumDistance(r))
      BY <1>1, <2>2, <3>1
    <3>. QED BY <3>2 DEF p
  <2>. QED BY <2>1, <2>2, <2>4
<1>4. CASE d > 0
  <2>1. /\ q \in Nat
        /\ out * q <= d - 1
        /\ d - 1 < out * q + out
    <3>1. d - 1 \in Nat /\ q = (d - 1) \div out
      BY <1>1, <1>4
    <3>. HIDE DEF d, q, out
    <3>. QED BY <1>1, <3>1, Division
  <2>2. populated = IF q + 1 <= n THEN q + 1 ELSE n
    <3>1. Available(r) = q + 1
      BY <1>1, <1>2, <1>4
    <3>. HIDE DEF q
    <3>. QED BY <3>1 DEF Popped
  <2>. HIDE DEF q, d, populated, out
  <2>3. populated \in Nat /\ populated <= n /\ populated <= q + 1
    BY <2>1, <2>2
  <2>4. populated # 0 => d - out * populated > 0 - out
    <3>1. /\ out * (populated - 1) <= out * q
          /\ out * (populated - 1) = out * populated - out * 1
          /\ out * populated \in Int /\ out * q \in Int
      BY <1>1, <2>1, <2>3, TimesMonotone, TimesDistributes DEF Positive
    <3>2. out * 1 = out
      BY <1>1 DEF Positive
    <3>3. out * populated - out <= out * q
      BY <3>1, <3>2
    <3>. QED BY <1>1, <2>1, <3>1, <3>3 DEF Positive
  <2>5. n # 0 => populated # 0
    BY <2>1, <2>2
  <2>6. ASSUME n # 0, d - out * (n - 1) > 0 PROVE populated = n
    <3>1. CASE q + 1 < n
      <4>1. /\ out * (q + 1) <= out * (n - 1)
            /\ out * (q + 1) = out * q + out * 1
            /\ out * (n - 1) \in Int /\ out * q \in Int
        BY <1>1, <2>1, <3>1, TimesMonotone, TimesDistributes DEF Positive
      <4>2. out * 1 = out
        BY <1>1 DEF Positive
      <4>. QED BY <1>1, <2>1, <2>6, <4>1, <4>2 DEF Positive
    <3>. QED BY <2>1, <2>2, <3>1
  <2>7. populated # 0 =>
            Distance(r) - out * populated > MinimumDistance(r) - out
    <3>1. out * populated \in Int
      BY <1>1, <2>3 DEF Positive
    <3>. QED BY <1>1, <2>4, <3>1 DEF d, Positive
  <2>8. n # 0 /\ Distance(r) - out * (n - 1) > MinimumDistance(r) => populated = n
    <3>1. out * (n - 1) \in Int
      BY <1>1 DEF Positive
    <3>. QED BY <1>1, <2>6, <3>1 DEF d, Positive
  <2>. QED BY <2>3, <2>5, <2>7, <2>8 DEF populated, out
<1>. QED BY <1>1, <1>3, <1>4

\* What push, pop and renormalize_phases change.
LEMMA PushEffect ==
    ASSUME NEW r \in ResamplerRecord, NEW n \in Nat
    PROVE  /\ Push(r, n) \in ResamplerRecord
           /\ Push(r, n).phaseInput = r.phaseInput + r.inputIncrement * n
           /\ Push(r, n).phaseOutput = r.phaseOutput
           /\ Push(r, n).inputIncrement = r.inputIncrement
           /\ Push(r, n).outputIncrement = r.outputIncrement
           /\ Distance(Push(r, n)) = Distance(r) + r.inputIncrement * n
           /\ MinimumDistance(Push(r, n)) = MinimumDistance(r)
<1> DEFINE p == r.inputIncrement * n
<1>1. p \in Nat
  BY ResamplerTypes
<1>2. Push(r, n) = [r EXCEPT !.phaseInput = @ + p]
  BY DEF Push
<1>. HIDE DEF p
<1>3. Push(r, n) \in ResamplerRecord /\ Push(r, n).phaseInput = r.phaseInput + p
  BY <1>1, <1>2 DEF ResamplerRecord
<1>4. /\ Push(r, n).phaseOutput = r.phaseOutput
      /\ Push(r, n).inputIncrement = r.inputIncrement
      /\ Push(r, n).outputIncrement = r.outputIncrement
  BY <1>2 DEF ResamplerRecord
<1>5. Distance(Push(r, n)) = Distance(r) + p
  BY <1>1, <1>3, <1>4 DEF Distance, ResamplerRecord
<1>. QED BY <1>3, <1>4, <1>5 DEF p, MinimumDistance

LEMMA PopEffect ==
    ASSUME NEW r \in ResamplerRecord, NEW n \in Nat
    PROVE  LET populated == Popped(r, n)
           IN  /\ Pop(r, n) \in ResamplerRecord
               /\ Pop(r, n).phaseInput = r.phaseInput
               /\ Pop(r, n).phaseOutput = r.phaseOutput + r.outputIncrement * populated
               /\ Pop(r, n).inputIncrement = r.inputIncrement
               /\ Pop(r, n).outputIncrement = r.outputIncrement
               /\ Distance(Pop(r, n)) = Distance(r) - r.outputIncrement * populated
               /\ MinimumDistance(Pop(r, n)) = MinimumDistance(r)
<1> DEFINE p == r.outputIncrement * Popped(r, n)
<1>1. p \in Nat
  BY ResamplerTypes, PoppedBound
<1>2. Pop(r, n) = [r EXCEPT !.phaseOutput = @ + p]
  BY DEF Pop
<1>. HIDE DEF p
<1>3. Pop(r, n) \in ResamplerRecord /\ Pop(r, n).phaseOutput = r.phaseOutput + p
  BY <1>1, <1>2 DEF ResamplerRecord
<1>4. /\ Pop(r, n).phaseInput = r.phaseInput
      /\ Pop(r, n).inputIncrement = r.inputIncrement
      /\ Pop(r, n).outputIncrement = r.outputIncrement
  BY <1>2 DEF ResamplerRecord
<1>5. Distance(Pop(r, n)) = Distance(r) - p
  BY <1>1, <1>3, <1>4 DEF Distance, ResamplerRecord
<1>. QED BY <1>3, <1>4, <1>5 DEF p, MinimumDistance

LEMMA RenormalizeEffect ==
    ASSUME NEW r \in ResamplerRecord
    PROVE  /\ Renormalize(r) \in ResamplerRecord
           /\ Renormalize(r).phaseInput = Distance(r)
           /\ Renormalize(r).phaseOutput = 0
           /\ Renormalize(r).inputIncrement = r.inputIncrement
           /\ Renormalize(r).outputIncrement = r.outputIncrement
           /\ Distance(Renormalize(r)) = Distance(r)
           /\ MinimumDistance(Renormalize(r)) = MinimumDistance(r)
<1> DEFINE d == Distance(r)
<1>1. d \in Int
  BY DEF ResamplerRecord, Distance
<1>2. Renormalize(r) = [r EXCEPT !.phaseInput = d, !.phaseOutput = 0]
  BY DEF Renormalize
<1>. HIDE DEF d
<1>3. /\ Renormalize(r).phaseInput = d
      /\ Renormalize(r).phaseOutput = 0
      /\ Renormalize(r).inputIncrement = r.inputIncrement
      /\ Renormalize(r).outputIncrement = r.outputIncrement
  BY <1>2 DEF ResamplerRecord
<1>4. Distance(Renormalize(r)) = d
  BY <1>1, <1>3 DEF Distance
<1>5. Renormalize(r) \in ResamplerRecord
  <2>1. Renormalize(r) = [phaseInput |-> d, phaseOutput |-> 0,
                          inputIncrement |-> r.inputIncrement,
                          outputIncrement |-> r.outputIncrement]
    BY <1>2 DEF ResamplerRecord
  <2>2. r.inputIncrement \in Nat \ {0} /\ r.outputIncrement \in Nat \ {0}
    BY DEF ResamplerRecord
  <2>. QED BY <1>1, <2>1, <2>2 DEF ResamplerRecord
<1>. QED BY <1>3, <1>4, <1>5 DEF d, MinimumDistance

-----------------------------------------------------------------------------
(***************************************************************************)
(* The inductive invariant.  What is under way is the reported latency and,  *)
(* inside a call, the block handed in; the latency is worth a kernel in each *)
(* ring and an output period, so that when the loop stops, with less than    *)
(* that in the input ring, the output ring holds the block.                  *)
(***************************************************************************)
Mirror ==
    /\ input.inputIncrement = output.outputIncrement
    /\ input.outputIncrement = output.inputIncrement

InCall == pc = "convert" => active /\ Served(block.frames)

Primed ==
    Converting =>
        /\ maxModelBlock # 0
        /\ latency * input.inputIncrement
               > MinimumDistance(input) + MinimumDistance(output) + input.outputIncrement

Balanced ==
    Converting =>
        Backlog = latency * input.inputIncrement
                  + (IF pc = "convert" THEN input.inputIncrement * block.frames ELSE 0)

NotOverdrawn ==
    Converting => /\ Distance(input) >= -input.outputIncrement
                  /\ Distance(output) >= -output.outputIncrement

AdapterInv ==
    /\ TypeOK /\ Mirror /\ InCall /\ Primed /\ Balanced /\ NotOverdrawn
    /\ PhasesBounded /\ BlockComplete

Increments == input.inputIncrement \in Positive /\ input.outputIncrement \in Positive

LEMMA InitInv == Init => AdapterInv
<1> SUFFICES ASSUME Init PROVE AdapterInv
  OBVIOUS
<1>1. ~ Converting /\ ~ Served(block.frames) /\ pc # "convert"
  BY DEF Init, Converting, Served
<1>2. NoResampler \in ResamplerRecord
  BY DEF NoResampler, ResamplerRecord
<1>3. [frames |-> 0, rendered |-> 0] \in BlockRecord
  BY DEF BlockRecord
<1>4. TypeOK
  BY <1>2, <1>3 DEF Init, TypeOK
<1>5. Mirror
  BY DEF Init, Mirror, NoResampler
<1>. QED BY <1>1, <1>4, <1>5 DEF AdapterInv, InCall, Primed, Balanced, NotOverdrawn, PhasesBounded,
                              BlockComplete

-----------------------------------------------------------------------------
(* prepare *)

\* Priming does what its three exceptions guard against failing, and leaves
\* the two rings with the frames the invariant speaks of.
LEMMA Priming ==
    ASSUME NEW host \in Positive, NEW model \in Positive, NEW maxBlock \in Positive
    PROVE  LET in == Resampler(host, model)
               out == Resampler(model, host)
               modelBlock == ((maxBlock * model + host - 1) \div host) + 2 * Radius + 8
               silence == HostLatency(in, out)
           IN  /\ modelBlock \in Positive
               /\ silence \in Positive
               /\ WarmUp(out) \in Positive
               /\ Primes(in, out, modelBlock)
               /\ in.inputIncrement * silence
                      > MinimumDistance(in) + MinimumDistance(out) + in.outputIncrement
               /\ in.inputIncrement * silence
                      > in.outputIncrement * WarmUp(out) + MinimumDistance(in)
<1> DEFINE in == Resampler(host, model)
           out == Resampler(model, host)
           m == in.inputIncrement
           h == in.outputIncrement
           g == Gcd(host, model)
           quotient == (maxBlock * model + host - 1) \div host
           modelBlock == quotient + 2 * Radius + 8
           need == WarmUp(out)
           silence == HostLatency(in, out)
           kernelIn == m * (Radius + 1)
           kernelOut == h * (Radius + 1)
<1>1. /\ in \in ResamplerRecord /\ out \in ResamplerRecord
      /\ out.inputIncrement = h /\ out.outputIncrement = m
      /\ model = g * m /\ host = g * h
      /\ g \in Positive /\ m \in Positive /\ h \in Positive
      /\ Distance(in) = 0 /\ Distance(out) = 0
      /\ MinimumDistance(in) = kernelIn /\ MinimumDistance(out) = kernelOut
  <2>. HIDE DEF Positive
  <2>. QED BY NewResampler, GcdDivides DEF ResamplerRecord, Distance, MinimumDistance, Positive
<1>. HIDE DEF in, out
<1>2. /\ kernelIn \in Nat /\ kernelOut \in Nat
      /\ h * (Radius + 2) = kernelOut + h
  <2>1. kernelIn \in Nat /\ kernelOut \in Nat
    BY <1>1 DEF Positive
  <2>2. h * ((Radius + 1) + 1) = h * (Radius + 1) + h * 1 /\ h * 1 = h
    <3>. HIDE DEF h
    <3>. QED BY <1>1, TimesDistributes DEF Positive
  <2>3. (Radius + 1) + 1 = Radius + 2
    OBVIOUS
  <2>. QED BY <2>1, <2>2, <2>3
<1>3. /\ need \in Positive
      /\ h * need > kernelOut + m
      /\ h * need <= kernelOut + m + h
  <2>1. m * 1 = m
    BY <1>1 DEF Positive
  <2>2. MinimumDistance(out) - (Distance(out) - out.outputIncrement * 1) = kernelOut + m
    <3>. HIDE DEF kernelOut, m
    <3>. QED BY <1>1, <1>2, <2>1 DEF Positive
  <2>3. kernelOut + m > 0
    <3>. HIDE DEF kernelOut
    <3>. QED BY <1>1, <1>2 DEF Positive
  <2>4. /\ need \in Nat
        /\ need = 0 <=> kernelOut + m <= 0
        /\ kernelOut + m > 0 => /\ h * need > kernelOut + m
                                /\ h * need <= kernelOut + m + h
    <3>1. 1 \in Nat /\ need = InputFramesRequiredFor(out, 1)
      BY DEF WarmUp
    <3>. HIDE DEF need, kernelOut, m, h
    <3>. QED BY <1>1, <2>2, <3>1, RequiredBound
  <2>. HIDE DEF need, kernelOut, m, h
  <2>. QED BY <1>1, <1>2, <2>3, <2>4 DEF Positive
<1>4. need >= Radius + 2
  <2>1. h * (Radius + 1) < h * need
    BY <1>1, <1>2, <1>3 DEF Positive
  <2>2. Radius + 1 < need
    <3>. HIDE DEF h, need
    <3>. QED BY <1>1, <1>3, <2>1, TimesCancels DEF Positive
  <2>. QED BY <1>3, <2>2 DEF Positive
<1>5. /\ silence \in Positive
      /\ m * silence > kernelIn + h * need
  <2>1. h * need \in Nat
    BY <1>1, <1>3 DEF Positive
  <2>2. MinimumDistance(in) - (Distance(in) - h * need) = kernelIn + h * need
    <3>. DEFINE p == h * need
    <3>. HIDE DEF p, kernelIn
    <3>1. MinimumDistance(in) - (Distance(in) - p) = kernelIn + p
      BY <1>1, <1>2, <2>1 DEF p
    <3>. QED BY <3>1 DEF p
  <2>3. kernelIn + h * need > 0
    <3>1. h * need > 0
      BY <1>1, <1>3 DEF Positive
    <3>. HIDE DEF h, need, kernelIn
    <3>. QED BY <1>2, <2>1, <3>1
  <2>4. need \in Nat
    BY <1>3 DEF Positive
  <2>5. silence = InputFramesRequiredFor(in, need)
    BY DEF HostLatency
  <2>. DEFINE p == kernelIn + h * need
  <2>6. /\ silence \in Nat
        /\ silence = 0 <=> p <= 0
        /\ p > 0 => m * silence > p
    <3>. HIDE DEF need, kernelIn, silence
    <3>. QED BY <1>1, <2>2, <2>4, <2>5, RequiredBound
  <2>7. p \in Nat
    BY <1>2, <2>1
  <2>. HIDE DEF p, need, kernelIn, silence
  <2>8. silence \in Positive /\ m * silence > p
    BY <2>3, <2>6, <2>7 DEF p, Positive
  <2>. QED BY <2>8 DEF p
<1>6. m * silence > kernelIn + kernelOut + h
  <2>1. h * (Radius + 2) <= h * need /\ h * need \in Int
    <3>. HIDE DEF h, need
    <3>. QED BY <1>1, <1>3, <1>4, TimesMonotone DEF Positive
  <2>2. m * silence \in Int
    BY <1>1, <1>5 DEF Positive
  <2>. HIDE DEF kernelIn, kernelOut, need, silence, m, h
  <2>. QED BY <1>1, <1>2, <1>5, <2>1, <2>2 DEF Positive
<1>7. need <= modelBlock /\ modelBlock \in Positive
  <2>1. maxBlock * model \in Nat /\ maxBlock * model >= model
    BY DEF Positive
  <2>2. /\ quotient \in Nat
        /\ maxBlock * model + host - 1 < host * quotient + host
    <3>. DEFINE a == maxBlock * model + host - 1
    <3>1. a \in Nat /\ quotient = a \div host
      BY <2>1 DEF Positive
    <3>. HIDE DEF a, quotient
    <3>2. quotient \in Nat /\ a < host * quotient + host
      BY <3>1, Division
    <3>. QED BY <3>2 DEF a
  <2>. HIDE DEF quotient
  <2>3. model <= host * quotient
    <3>1. host * quotient \in Int
      BY <2>2 DEF Positive
    <3>. QED BY <2>1, <2>2, <3>1 DEF Positive
  <2>4. m <= h * quotient
    <3>1. host * quotient = g * (h * quotient) /\ h * quotient \in Int /\ m \in Int
      <4>. HIDE DEF g, h, m
      <4>. QED BY <1>1, <2>2 DEF Positive
    <3>2. CASE h * quotient < m
      <4>1. h * quotient + 1 <= m
        BY <3>1, <3>2
      <4>2. g * (h * quotient + 1) <= g * m
        <5>. DEFINE p == h * quotient
        <5>. HIDE DEF g, m, p
        <5>1. g * (p + 1) <= g * m
          BY <1>1, <3>1, <4>1, TimesMonotone DEF p, Positive
        <5>. QED BY <5>1 DEF p
      <4>3. g * (h * quotient + 1) = g * (h * quotient) + g * 1 /\ g * (h * quotient) \in Int
        <5>. DEFINE p == h * quotient
        <5>. HIDE DEF g, p
        <5>1. g * (p + 1) = g * p + g * 1 /\ g * p \in Int
          BY <1>1, <3>1, TimesDistributes DEF p, Positive
        <5>. QED BY <5>1 DEF p
      <4>4. g * 1 = g
        BY <1>1 DEF Positive
      <4>. DEFINE P == g * (h * quotient)
                  Q == g * (h * quotient + 1)
      <4>5. Q <= model /\ Q = P + g /\ P \in Int /\ model <= P
        BY <1>1, <2>3, <3>1, <4>2, <4>3, <4>4
      <4>. HIDE DEF P, Q, g
      <4>. QED BY <1>1, <4>5 DEF Positive
    <3>. QED BY <1>1, <3>1, <3>2 DEF Positive
  <2>5. h * (Radius + 2 + quotient) = h * (Radius + 2) + h * quotient /\ h * quotient \in Int
    <3>. HIDE DEF h
    <3>. QED BY <1>1, <2>2, TimesDistributes DEF Positive
  <2>6. h * need <= h * (Radius + 2 + quotient)
    <3>. DEFINE P == h * (Radius + 2 + quotient)
                Q == h * quotient
                N == h * need
    <3>1. /\ P = kernelOut + h + Q /\ Q \in Int /\ m <= Q
          /\ N <= kernelOut + m + h /\ N \in Int
      BY <1>1, <1>2, <1>3, <2>4, <2>5 DEF Positive
    <3>. HIDE DEF P, Q, N, kernelOut, h, m
    <3>2. N <= P
      BY <1>1, <1>2, <3>1 DEF Positive
    <3>. QED BY <3>2 DEF P, N
  <2>7. need <= Radius + 2 + quotient
    <3>1. CASE Radius + 2 + quotient + 1 <= need
      <4>. DEFINE k == Radius + 2 + quotient
      <4>1. k \in Nat /\ h * need <= h * k /\ k + 1 <= need
        BY <2>2, <2>6, <3>1
      <4>. HIDE DEF k, h, need
      <4>2. h * (k + 1) <= h * need /\ h * (k + 1) = h * k + h * 1 /\ h * k \in Int /\ h * need \in Int
        BY <1>1, <1>3, <4>1, TimesMonotone, TimesDistributes DEF Positive
      <4>3. h * 1 = h
        BY <1>1 DEF Positive
      <4>. QED BY <1>1, <4>1, <4>2, <4>3 DEF Positive
    <3>. HIDE DEF need
    <3>. QED BY <1>3, <2>2, <3>1 DEF Positive
  <2>. HIDE DEF need
  <2>. QED BY <1>3, <2>2, <2>7 DEF Positive
<1>8. Popped(Push(in, silence), need) = need
  <2>. DEFINE r == Push(in, silence)
  <2>1. m * silence \in Nat
    BY <1>1, <1>5 DEF Positive
  <2>2. /\ r \in ResamplerRecord
        /\ Distance(r) = m * silence
        /\ MinimumDistance(r) = kernelIn
        /\ r.outputIncrement = h
    <3>. HIDE DEF silence
    <3>. QED BY <1>1, <2>1 DEF Push, ResamplerRecord, Distance, MinimumDistance
  <2>3. h * (need - 1) = h * need - h * 1 /\ h * need \in Int
    <3>. HIDE DEF h, need
    <3>. QED BY <1>1, <1>3, TimesDistributes DEF Positive
  <2>4. h * 1 = h
    BY <1>1 DEF Positive
  <2>5. m * silence - h * (need - 1) > kernelIn
    <3>. DEFINE S == m * silence
                N == h * need
                P == h * (need - 1)
    <3>1. S \in Nat /\ N \in Int /\ P = N - h /\ S > kernelIn + N
      BY <1>5, <2>1, <2>3, <2>4
    <3>. HIDE DEF S, N, P, kernelIn, h
    <3>2. S - P > kernelIn
      BY <1>1, <1>2, <3>1 DEF Positive
    <3>. QED BY <3>2 DEF S, P
  <2>. HIDE DEF r, need, kernelIn, h, m
  <2>6. Popped(r, need) = need
    BY <1>3, <2>2, <2>5, PoppedBound DEF Positive
  <2>. QED BY <2>6 DEF r
<1>9. Primes(in, out, modelBlock)
  <2>1. silence # 0
    BY <1>5 DEF Positive
  <2>. HIDE DEF modelBlock
  <2>. QED BY <1>7, <1>8, <2>1 DEF Primes
<1>10. m * silence > h * need + kernelIn
  <2>. DEFINE N == h * need
  <2>1. N \in Int
    BY <1>1, <1>3 DEF Positive
  <2>. HIDE DEF N, kernelIn
  <2>. QED BY <1>2, <1>5, <2>1 DEF N
<1>. QED BY <1>1, <1>3, <1>5, <1>6, <1>7, <1>9, <1>10 DEF in, out

\* The rate of the capture is positive when a request is acceptable.
LEMMA AcceptablePositive ==
    ASSUME TypeOK, NEW hostRate \in HostRates, NEW maxBlock \in MaxBlocks,
           Acceptable(hostRate, maxBlock)
    PROVE  hostRate \in Positive /\ EffectiveModelRate \in Positive /\ maxBlock \in Positive
  BY DEF TypeOK, Acceptable, Supported, EffectiveModelRate, Positive

LEMMA ConvertingPrimes ==
    ASSUME TypeOK, NEW hostRate \in HostRates, NEW maxBlock \in MaxBlocks,
           PrepareConverting(hostRate, maxBlock)
    PROVE  prepared'
<1>1. hostRate \in Positive /\ EffectiveModelRate \in Positive /\ maxBlock \in Positive
  BY AcceptablePositive DEF PrepareConverting
<1>2. Primes(Resampler(hostRate, EffectiveModelRate), Resampler(EffectiveModelRate, hostRate),
             ModelBlockFor(hostRate, maxBlock))
  BY <1>1, Priming DEF ModelBlockFor
<1>. QED BY <1>2 DEF PrepareConverting

LEMMA PrepareConvertingInv ==
    ASSUME AdapterInv, NEW hostRate \in HostRates, NEW maxBlock \in MaxBlocks,
           PrepareConverting(hostRate, maxBlock)
    PROVE  AdapterInv'
<1> DEFINE in == Resampler(hostRate, EffectiveModelRate)
           out == Resampler(EffectiveModelRate, hostRate)
           m == in.inputIncrement
           h == in.outputIncrement
           need == WarmUp(out)
           silence == HostLatency(in, out)
           modelBlock == ModelBlockFor(hostRate, maxBlock)
<1>1. hostRate \in Positive /\ EffectiveModelRate \in Positive /\ maxBlock \in Positive
  BY AcceptablePositive DEF PrepareConverting, AdapterInv
<1>2. /\ in \in ResamplerRecord /\ out \in ResamplerRecord
      /\ in.phaseInput = 0 /\ in.phaseOutput = 0
      /\ out.phaseInput = 0 /\ out.phaseOutput = 0
      /\ out.inputIncrement = h /\ out.outputIncrement = m
  BY <1>1, NewResampler
<1>3. /\ modelBlock \in Positive /\ silence \in Positive /\ need \in Positive
      /\ Primes(in, out, modelBlock)
      /\ m * silence > MinimumDistance(in) + MinimumDistance(out) + h
      /\ m * silence > h * need + MinimumDistance(in)
  BY <1>1, Priming DEF ModelBlockFor
<1>4. Popped(Push(in, silence), need) = need
  BY <1>3 DEF Primes
<1>. HIDE DEF in, out
<1>5. /\ m \in Positive /\ h \in Positive
      /\ m * silence \in Nat /\ h * need \in Nat
      /\ MinimumDistance(in) \in Nat /\ MinimumDistance(out) \in Nat
  BY <1>2, <1>3, ResamplerTypes DEF ResamplerRecord, Positive
<1>6. /\ prepared' = TRUE /\ active' = TRUE
      /\ maxModelBlock' = modelBlock /\ maxHostBlock' = maxBlock
      /\ latency' = silence
      /\ input' = Pop(Push(in, silence), need)
      /\ output' = Push(out, need)
      /\ block' = [frames |-> 0, rendered |-> 0]
      /\ modelRate' = modelRate /\ pc' = "ready"
  BY <1>3 DEF PrepareConverting, in, out
<1>. HIDE DEF need, silence, modelBlock
<1>7. LET pushed == Push(in, silence)
      IN  /\ pushed \in ResamplerRecord
          /\ pushed.phaseInput = m * silence /\ pushed.phaseOutput = 0
          /\ pushed.inputIncrement = m /\ pushed.outputIncrement = h
          /\ Distance(pushed) = m * silence
          /\ MinimumDistance(pushed) = MinimumDistance(in)
  <2>1. Distance(in) = 0 /\ silence \in Nat
    BY <1>2, <1>3 DEF Distance, Positive
  <2>2. \A n \in Nat : 0 + n = n
    OBVIOUS
  <2>3. /\ Push(in, silence) \in ResamplerRecord
        /\ Push(in, silence).phaseInput = in.phaseInput + in.inputIncrement * silence
        /\ Push(in, silence).phaseOutput = in.phaseOutput
        /\ Push(in, silence).inputIncrement = in.inputIncrement
        /\ Push(in, silence).outputIncrement = in.outputIncrement
        /\ Distance(Push(in, silence)) = Distance(in) + in.inputIncrement * silence
        /\ MinimumDistance(Push(in, silence)) = MinimumDistance(in)
    BY <1>2, <2>1, PushEffect
  <2>. DEFINE S == m * silence
  <2>. QED BY ZenonT(20), <1>2, <1>5, <2>1, <2>2, <2>3
<1>8. /\ input' \in ResamplerRecord /\ output' \in ResamplerRecord
      /\ input'.inputIncrement = m /\ input'.outputIncrement = h
      /\ output'.inputIncrement = h /\ output'.outputIncrement = m
      /\ input'.phaseInput = m * silence /\ input'.phaseOutput = h * need
      /\ output'.phaseInput = h * need /\ output'.phaseOutput = 0
      /\ Distance(input)' = m * silence - h * need
      /\ Distance(output)' = h * need
      /\ MinimumDistance(input)' = MinimumDistance(in)
      /\ MinimumDistance(output)' = MinimumDistance(out)
  <2>1. need \in Nat /\ Distance(out) = 0
    BY <1>2, <1>3 DEF Distance, Positive
  <2>2. \A n \in Nat : 0 + n = n
    OBVIOUS
  <2>3. /\ output' \in ResamplerRecord
        /\ output'.inputIncrement = h /\ output'.outputIncrement = m
        /\ output'.phaseInput = h * need /\ output'.phaseOutput = 0
        /\ Distance(output') = h * need
        /\ MinimumDistance(output') = MinimumDistance(out)
    <3>1. /\ Push(out, need) \in ResamplerRecord
          /\ Push(out, need).phaseInput = out.phaseInput + out.inputIncrement * need
          /\ Push(out, need).phaseOutput = out.phaseOutput
          /\ Push(out, need).inputIncrement = out.inputIncrement
          /\ Push(out, need).outputIncrement = out.outputIncrement
          /\ Distance(Push(out, need)) = Distance(out) + out.inputIncrement * need
          /\ MinimumDistance(Push(out, need)) = MinimumDistance(out)
      BY <1>2, <2>1, PushEffect
    <3>. QED BY Zenon, <1>2, <1>5, <1>6, <2>1, <2>2, <3>1
  <2>4. /\ input' \in ResamplerRecord
        /\ input'.inputIncrement = m /\ input'.outputIncrement = h
        /\ input'.phaseInput = m * silence /\ input'.phaseOutput = h * need
        /\ Distance(input') = m * silence - h * need
        /\ MinimumDistance(input') = MinimumDistance(in)
    <3>. DEFINE pushed == Push(in, silence)
    <3>1. /\ Pop(pushed, need) \in ResamplerRecord
          /\ Pop(pushed, need).phaseInput = pushed.phaseInput
          /\ Pop(pushed, need).phaseOutput = pushed.phaseOutput + pushed.outputIncrement * Popped(pushed, need)
          /\ Pop(pushed, need).inputIncrement = pushed.inputIncrement
          /\ Pop(pushed, need).outputIncrement = pushed.outputIncrement
          /\ Distance(Pop(pushed, need)) = Distance(pushed) - pushed.outputIncrement * Popped(pushed, need)
          /\ MinimumDistance(Pop(pushed, need)) = MinimumDistance(pushed)
      <4>1. pushed \in ResamplerRecord
        BY <1>7
      <4>. HIDE DEF pushed
      <4>. QED BY <2>1, <4>1, PopEffect
    <3>. QED BY Zenon, <1>4, <1>5, <1>6, <1>7, <2>2, <3>1
  <2>. QED BY <2>3, <2>4 DEF Distance, MinimumDistance
<1> DEFINE S == m * silence
           N == h * need
<1>10. /\ S \in Nat /\ N \in Nat
       /\ latency' * input'.inputIncrement = S
       /\ (latency' + 1) * input'.inputIncrement = S + m
       /\ m \in Positive /\ h \in Positive
       /\ S > MinimumDistance(in) + MinimumDistance(out) + h
       /\ S > N + MinimumDistance(in)
  <2>1. m * (silence + 1) = m * silence + m * 1 /\ m * 1 = m
    <3>. HIDE DEF m
    <3>. QED BY <1>3, <1>5, TimesDistributes DEF Positive
  <2>2. silence * m = S /\ (silence + 1) * m = m * (silence + 1)
    <3>. HIDE DEF m
    <3>. QED BY <1>3, <1>5 DEF Positive
  <2>. QED BY <1>3, <1>5, <1>6, <1>8, <2>1, <2>2
<1>. HIDE DEF S, N, m, h
<1>11. TypeOK'
  <2>1. modelBlock \in Nat /\ silence \in Nat /\ maxBlock \in Nat
    BY <1>1, <1>3 DEF Positive
  <2>2. [frames |-> 0, rendered |-> 0] \in BlockRecord
    BY DEF BlockRecord
  <2>. QED BY <1>6, <1>8, <2>1, <2>2 DEF AdapterInv, TypeOK
<1>12. Mirror'
  BY <1>8 DEF Mirror
<1>13. InCall'
  BY <1>6 DEF InCall
<1>14. Primed'
  BY <1>3, <1>6, <1>8, <1>10 DEF Primed, Positive
<1>15. Balanced'
  <2>1. Backlog' = S
    BY <1>8, <1>10 DEF Backlog, S, N
  <2>. QED BY <1>6, <1>10, <2>1 DEF Balanced
<1>16. NotOverdrawn'
  <2>1. Distance(input)' = S - N /\ Distance(output)' = N
    BY <1>8 DEF S, N
  <2>. QED BY <1>5, <1>8, <1>10, <2>1 DEF NotOverdrawn, Positive
<1>17. PhasesBounded'
  <2>1. PhaseLimit' = S + m + h
    BY <1>8, <1>10 DEF PhaseLimit
  <2>2. \A x \in {S, N, 0} : x \in (-(S + m + h))..(S + m + h)
    BY <1>5, <1>10 DEF Positive
  <2>3. /\ input'.phaseInput = S /\ input'.phaseOutput = N
        /\ output'.phaseInput = N /\ output'.phaseOutput = 0
    BY <1>8 DEF S, N
  <2>. QED BY <2>1, <2>2, <2>3 DEF PhasesBounded
<1>18. BlockComplete'
  BY <1>6 DEF BlockComplete, Served
<1>. QED BY <1>11, <1>12, <1>13, <1>14, <1>15, <1>16, <1>17, <1>18 DEF AdapterInv

-----------------------------------------------------------------------------
(* The other calls *)

LEMMA PrepareRejectedInv ==
    ASSUME AdapterInv, NEW hostRate \in HostRates, NEW maxBlock \in MaxBlocks,
           PrepareRejected(hostRate, maxBlock)
    PROVE  AdapterInv'
<1>1. /\ prepared' = FALSE /\ pc' = "ready"
      /\ UNCHANGED <<modelRate, active, maxHostBlock, maxModelBlock, input, output, latency, block>>
  BY DEF PrepareRejected
<1>2. ~ Converting' /\ ~ Served(block.frames)'
  BY <1>1 DEF Converting, Served
<1>3. TypeOK' /\ Mirror'
  BY <1>1 DEF AdapterInv, TypeOK, Mirror
<1>. QED BY <1>1, <1>2, <1>3 DEF AdapterInv, InCall, Primed, Balanced, NotOverdrawn, PhasesBounded,
                                   BlockComplete

LEMMA PrepareMatchingInv ==
    ASSUME AdapterInv, NEW hostRate \in HostRates, NEW maxBlock \in MaxBlocks,
           PrepareMatching(hostRate, maxBlock)
    PROVE  AdapterInv'
<1>1. /\ prepared' = TRUE /\ active' = FALSE /\ pc' = "ready" /\ latency' = 0
      /\ maxHostBlock' = maxBlock
      /\ input' = NoResampler /\ output' = NoResampler
      /\ block' = [frames |-> 0, rendered |-> 0]
      /\ UNCHANGED <<modelRate, maxModelBlock>>
  BY DEF PrepareMatching, AdapterInv
<1>2. ~ Converting' /\ ~ Served(block.frames)'
  BY <1>1 DEF Converting, Served
<1>3. TypeOK'
  <2>1. NoResampler \in ResamplerRecord /\ [frames |-> 0, rendered |-> 0] \in BlockRecord
    BY DEF NoResampler, ResamplerRecord, BlockRecord
  <2>2. maxBlock \in Nat
    OBVIOUS
  <2>. QED BY <1>1, <2>1, <2>2 DEF AdapterInv, TypeOK
<1>4. Mirror'
  BY <1>1 DEF Mirror, NoResampler
<1>. QED BY <1>1, <1>2, <1>3, <1>4 DEF AdapterInv, InCall, Primed, Balanced, NotOverdrawn,
                                   PhasesBounded, BlockComplete

\* A call that leaves the resamplers alone.
LEMMA DirectInv ==
    ASSUME AdapterInv, NEW frames \in Blocks, ProcessSilence(frames) \/ ProcessDirect(frames)
    PROVE  AdapterInv'
<1>1. /\ pc = "ready"
      /\ UNCHANGED <<modelRate, prepared, active, maxHostBlock, maxModelBlock, input, output,
                     latency, pc>>
      /\ block'.frames = frames
      /\ block' \in BlockRecord
      /\ Served(frames) => block'.rendered = frames
  <2>1. \A n \in Nat : [frames |-> frames, rendered |-> n] \in BlockRecord
    BY DEF BlockRecord
  <2>2. frames \in Nat /\ 0 \in Nat
    OBVIOUS
  <2>3. CASE ProcessSilence(frames)
    <3>1. block' = [frames |-> frames, rendered |-> 0] /\ ~ Served(frames)
      BY <2>2, <2>3 DEF ProcessSilence, Served, AdapterInv, TypeOK
    <3>. QED BY <2>1, <2>2, <2>3, <3>1 DEF ProcessSilence
  <2>4. CASE ProcessDirect(frames)
    <3>1. block' = [frames |-> frames, rendered |-> frames]
      BY <2>4 DEF ProcessDirect
    <3>. QED BY <2>1, <2>2, <2>4, <3>1 DEF ProcessDirect
  <2>. QED BY <2>3, <2>4
<1>2. TypeOK' /\ Mirror' /\ InCall' /\ NotOverdrawn'
  BY <1>1 DEF AdapterInv, TypeOK, Mirror, InCall, NotOverdrawn, Converting, Distance
<1>3. Primed'
  BY <1>1 DEF AdapterInv, Primed, Converting, MinimumDistance
<1>4. Balanced'
  BY <1>1 DEF AdapterInv, Balanced, Converting, Backlog, Distance
<1>5. PhasesBounded'
  BY <1>1 DEF AdapterInv, PhasesBounded, Converting, PhaseLimit
<1>6. BlockComplete'
  BY <1>1 DEF BlockComplete, Served
<1>. QED BY <1>2, <1>3, <1>4, <1>5, <1>6 DEF AdapterInv

LEMMA IncrementTypes ==
    ASSUME AdapterInv
    PROVE  /\ Increments
           /\ output.inputIncrement = input.outputIncrement
           /\ output.outputIncrement = input.inputIncrement
           /\ input \in ResamplerRecord /\ output \in ResamplerRecord
           /\ latency * input.inputIncrement \in Nat
           /\ input.inputIncrement * block.frames \in Nat
           /\ block.frames \in Nat /\ maxModelBlock \in Nat
           /\ Distance(input) \in Int /\ Distance(output) \in Int
           /\ MinimumDistance(input) \in Nat /\ MinimumDistance(output) \in Nat
<1>1. /\ input \in ResamplerRecord /\ output \in ResamplerRecord /\ block.frames \in Nat
      /\ latency \in Nat /\ maxModelBlock \in Nat
  BY DEF AdapterInv, TypeOK, BlockRecord
<1>2. /\ input.inputIncrement \in Positive /\ input.outputIncrement \in Positive
      /\ Distance(input) \in Int /\ Distance(output) \in Int
      /\ MinimumDistance(input) \in Nat /\ MinimumDistance(output) \in Nat
      /\ input.inputIncrement * block.frames \in Nat
  BY <1>1, ResamplerTypes DEF ResamplerRecord, Positive
<1>3. latency * input.inputIncrement \in Nat
  BY <1>1, <1>2 DEF Positive
<1>. QED BY <1>1, <1>2, <1>3 DEF AdapterInv, Mirror, Increments

LEMMA ProcessPushInv ==
    ASSUME AdapterInv, NEW frames \in Blocks, ProcessPush(frames)
    PROVE  AdapterInv'
<1> DEFINE m == input.inputIncrement
           h == input.outputIncrement
           L == latency * m
           F == m * frames
<1>1. /\ pc = "ready" /\ pc' = "convert" /\ Served(frames) /\ active
      /\ input' = Push(input, frames)
      /\ UNCHANGED <<modelRate, prepared, active, maxHostBlock, maxModelBlock, output, latency>>
      /\ block' = [frames |-> frames, rendered |-> 0]
  BY DEF ProcessPush
<1>2. frames \in Nat /\ F \in Nat
  BY IncrementTypes, ResamplerTypes
<1>3. /\ input' \in ResamplerRecord
      /\ input'.inputIncrement = m /\ input'.outputIncrement = h
      /\ Distance(input') = Distance(input) + F
      /\ MinimumDistance(input') = MinimumDistance(input)
  BY <1>1, <1>2, IncrementTypes, PushEffect
<1>4. Converting /\ Converting'
  BY <1>1 DEF Converting, Served
<1>5. TypeOK' /\ Mirror' /\ InCall'
  <2>1. block' \in BlockRecord
    BY <1>1, <1>2 DEF BlockRecord
  <2>. QED BY <1>1, <1>3, <2>1 DEF AdapterInv, TypeOK, Mirror, InCall, Served
<1>6. Primed'
  BY <1>1, <1>3, <1>4 DEF AdapterInv, Primed, MinimumDistance
<1>7. Balanced'
  <2>2. L \in Nat /\ Distance(input) \in Int /\ Distance(output) \in Int
    BY IncrementTypes
  <2>1. Distance(input) + Distance(output) = L
    <3>1. Distance(input) + Distance(output) = L + 0
      BY <1>1, <1>4 DEF AdapterInv, Balanced, Backlog
    <3>. HIDE DEF L
    <3>. QED BY <2>2, <3>1
  <2>. DEFINE di == Distance(input)
              do == Distance(output)
  <2>3. Distance(input)' = di + F /\ Distance(output)' = do
    BY <1>1, <1>3 DEF Distance
  <2>4. Balanced' <=> Distance(input)' + Distance(output)' = L + F
    <3>1. latency' * input'.inputIncrement = L /\ input'.inputIncrement * block'.frames = F
      BY <1>1, <1>3
    <3>. HIDE DEF L, F
    <3>. QED BY <1>1, <1>4, <3>1 DEF Balanced, Backlog
  <2>. HIDE DEF L, F, di, do
  <2>5. (di + F) + do = L + F
    BY <1>2, <2>1, <2>2 DEF di, do
  <2>. QED BY <2>3, <2>4, <2>5
<1>8. NotOverdrawn'
  <2>1. Distance(input)' = Distance(input) + F /\ Distance(output)' = Distance(output)
    BY <1>1, <1>3 DEF Distance
  <2>. HIDE DEF F
  <2>. QED BY <1>1, <1>2, <1>3, <1>4, <2>1, IncrementTypes
       DEF AdapterInv, NotOverdrawn, Increments, Positive
<1>9. PhasesBounded' /\ BlockComplete'
  BY <1>1 DEF PhasesBounded, BlockComplete
<1>. QED BY <1>5, <1>6, <1>7, <1>8, <1>9 DEF AdapterInv

LEMMA RunModelInv ==
    ASSUME AdapterInv, RunModel
    PROVE  AdapterInv'
<1> DEFINE m == input.inputIncrement
           h == input.outputIncrement
           n == Popped(input, maxModelBlock)
           N == h * n
           di == Distance(input)
           do == Distance(output)
<1>1. /\ pc = "convert" /\ n # 0
      /\ input' = Pop(input, maxModelBlock)
      /\ output' = Push(output, n)
      /\ UNCHANGED <<modelRate, prepared, active, maxHostBlock, maxModelBlock, latency, pc, block>>
  BY DEF RunModel, ModelFramesReady
<1>2. n \in Nat /\ di - N > MinimumDistance(input) - h /\ N \in Nat
  BY <1>1, IncrementTypes, PoppedBound, ResamplerTypes
<1>3. /\ input' \in ResamplerRecord
      /\ input'.inputIncrement = m /\ input'.outputIncrement = h
      /\ Distance(input') = di - N
      /\ MinimumDistance(input') = MinimumDistance(input)
  BY <1>1, IncrementTypes, PopEffect
<1>4. /\ output' \in ResamplerRecord
      /\ output'.inputIncrement = h /\ output'.outputIncrement = m
      /\ Distance(output') = do + N
      /\ MinimumDistance(output') = MinimumDistance(output)
  <2>. HIDE DEF n
  <2>1. LET pushed == Push(output, n)
        IN  /\ pushed \in ResamplerRecord
            /\ pushed.inputIncrement = output.inputIncrement
            /\ pushed.outputIncrement = output.outputIncrement
            /\ Distance(pushed) = Distance(output) + output.inputIncrement * n
            /\ MinimumDistance(pushed) = MinimumDistance(output)
    BY <1>2, IncrementTypes, PushEffect
  <2>2. output.inputIncrement = h /\ output.outputIncrement = m
    BY IncrementTypes
  <2>. QED BY Zenon, <1>1, <2>1, <2>2
<1>. HIDE DEF n, N, di, do
<1>5. Converting /\ Converting'
  BY <1>1 DEF AdapterInv, InCall, Converting, Served
<1>6. TypeOK' /\ Mirror' /\ InCall'
  BY <1>1, <1>3, <1>4 DEF AdapterInv, TypeOK, Mirror, InCall, Served
<1>7. Primed'
  <2>1. MinimumDistance(input)' = MinimumDistance(input)
        /\ MinimumDistance(output)' = MinimumDistance(output)
    BY <1>3, <1>4 DEF MinimumDistance
  <2>. QED BY <1>1, <1>3, <1>5, <2>1 DEF AdapterInv, Primed
<1>8. Distance(input)' = di - N /\ Distance(output)' = do + N /\ di \in Int /\ do \in Int
  BY <1>3, <1>4, IncrementTypes DEF Distance, di, do
<1>9. Balanced'
  <2>1. Backlog' = Backlog
    <3>1. (di - N) + (do + N) = di + do
      BY <1>2, <1>8
    <3>. QED BY <1>8, <3>1 DEF Backlog, di, do
  <2>. QED BY <1>1, <1>3, <1>5, <2>1 DEF AdapterInv, Balanced
<1>10. NotOverdrawn'
  <2>1. di - N >= -h
    BY <1>2, <1>8, IncrementTypes DEF Increments, Positive
  <2>2. do >= -m
    BY <1>5, IncrementTypes DEF AdapterInv, NotOverdrawn, do
  <2>3. do + N >= -m
    BY <1>2, <1>8, <2>2, IncrementTypes DEF Increments, Positive
  <2>. QED BY <1>3, <1>4, <1>8, <2>1, <2>3 DEF NotOverdrawn
<1>11. PhasesBounded' /\ BlockComplete'
  BY <1>1 DEF PhasesBounded, BlockComplete
<1>. QED BY <1>6, <1>7, <1>9, <1>10, <1>11 DEF AdapterInv

\* The loop stops with less than a kernel and an output period in the input
\* ring; the rest of what is under way is in the output ring, and that is
\* enough for the whole block.
LEMMA DeliverInv ==
    ASSUME AdapterInv, Deliver
    PROVE  AdapterInv'
<1> DEFINE m == input.inputIncrement
           h == input.outputIncrement
           f == block.frames
           di == Distance(input)
           do == Distance(output)
           L == latency * m
           F == m * f
           kernelIn == MinimumDistance(input)
           kernelOut == MinimumDistance(output)
<1>1. /\ pc = "convert" /\ ~ ModelFramesReady /\ pc' = "ready"
      /\ block' = [block EXCEPT !.rendered = Popped(output, f)]
      /\ input' = Renormalize(input)
      /\ output' = Renormalize(Pop(output, f))
      /\ UNCHANGED <<modelRate, prepared, active, maxHostBlock, maxModelBlock, latency>>
  BY DEF Deliver
<1>2. Converting /\ Converting' /\ Served(f)
  BY <1>1 DEF AdapterInv, InCall, Converting, Served
<1>3. f \in Nat /\ f # 0
  BY <1>2, IncrementTypes DEF Served
<1>4. /\ m \in Positive /\ h \in Positive /\ L \in Nat /\ F \in Nat
      /\ di \in Int /\ do \in Int /\ kernelIn \in Nat /\ kernelOut \in Nat
      /\ output.inputIncrement = h /\ output.outputIncrement = m
  BY IncrementTypes DEF Increments
<1>5. di + do = L + F
  BY <1>1, <1>2 DEF AdapterInv, Balanced, Backlog
<1>6. L > kernelIn + kernelOut + h
  BY <1>2 DEF AdapterInv, Primed
<1>7. di < kernelIn + h
  <2>1. CASE InputFramesRequiredFor(input, 1) # 0
    <3>1. h * 1 = h
      BY <1>4 DEF Positive
    <3>2. ~ (kernelIn - (di - h * 1) <= 0)
      <4>1. 1 \in Nat
        OBVIOUS
      <4>. QED BY <2>1, <4>1, IncrementTypes, RequiredBound
    <3>. HIDE DEF kernelIn, di, h
    <3>. QED BY <1>4, <3>1, <3>2 DEF Positive
  <2>2. CASE Popped(input, maxModelBlock) = 0
    <3>1. maxModelBlock # 0 /\ maxModelBlock \in Nat
      BY <1>2, IncrementTypes DEF AdapterInv, Primed
    <3>2. di <= kernelIn
      BY <2>2, <3>1, IncrementTypes, PoppedBound
    <3>. HIDE DEF kernelIn, di, h
    <3>. QED BY <1>4, <3>2 DEF Positive
  <2>. QED BY <1>1, <2>1, <2>2 DEF ModelFramesReady
<1>8. m * (f - 1) = F - m /\ m * (f - 1) \in Int
  <2>1. m * (f - 1) = m * f - m * 1 /\ m * 1 = m
    <3>. HIDE DEF m, f
    <3>. QED BY <1>3, <1>4, TimesDistributes DEF Positive
  <2>. QED BY <1>4, <2>1 DEF Positive
<1>9. do - m * (f - 1) > kernelOut
  <2>. DEFINE P == m * (f - 1)
  <2>1. P = F - m /\ P \in Int
    BY <1>8
  <2>. HIDE DEF P, di, do, kernelIn, kernelOut, m, h, L, F
  <2>2. do - P > kernelOut
    BY <1>4, <1>5, <1>6, <1>7, <2>1 DEF Positive
  <2>. QED BY <2>2 DEF P
<1>10. Popped(output, f) = f
  BY <1>3, <1>4, <1>9, IncrementTypes, PoppedBound
<1>11. /\ block'.frames = f /\ block'.rendered = f /\ block' \in BlockRecord
  <2>1. block \in BlockRecord
    BY DEF AdapterInv, TypeOK
  <2>. QED BY <1>1, <1>3, <1>10, <2>1 DEF BlockRecord
<1>12. /\ input' \in ResamplerRecord
       /\ input'.phaseInput = di /\ input'.phaseOutput = 0
       /\ input'.inputIncrement = m /\ input'.outputIncrement = h
       /\ Distance(input') = di /\ MinimumDistance(input') = kernelIn
  BY <1>1, IncrementTypes, RenormalizeEffect
<1>13. LET popped == Pop(output, f)
       IN  /\ popped \in ResamplerRecord
           /\ popped.inputIncrement = output.inputIncrement
           /\ popped.outputIncrement = output.outputIncrement
           /\ Distance(popped) = do - output.outputIncrement * Popped(output, f)
           /\ MinimumDistance(popped) = kernelOut
  BY <1>3, IncrementTypes, PopEffect
<1>14. /\ output' \in ResamplerRecord
       /\ output'.phaseInput = do - F /\ output'.phaseOutput = 0
       /\ output'.inputIncrement = h /\ output'.outputIncrement = m
       /\ Distance(output') = do - F /\ MinimumDistance(output') = kernelOut
  <2>. DEFINE popped == Pop(output, f)
  <2>1. /\ popped \in ResamplerRecord
        /\ popped.inputIncrement = h /\ popped.outputIncrement = m
        /\ Distance(popped) = do - F
        /\ MinimumDistance(popped) = kernelOut
    BY Zenon, <1>4, <1>10, <1>13
  <2>2. output' = Renormalize(popped)
    BY <1>1
  <2>. HIDE DEF popped, do, F, kernelOut, m, h
  <2>. QED BY <2>1, <2>2, RenormalizeEffect
<1>15. di >= -h
  BY <1>2 DEF AdapterInv, NotOverdrawn
<1>. HIDE DEF di, do, L, F, kernelIn, kernelOut, m, h, f
<1>16. /\ do - F >= -m /\ do - F <= L + h
       /\ di <= L + m /\ di + (do - F) = L /\ do - F \in Int
  <2>1. do - (F - m) > kernelOut
    BY <1>8, <1>9
  <2>. QED BY <1>4, <1>5, <1>6, <1>7, <1>15, <2>1 DEF Positive
<1>17. TypeOK' /\ Mirror' /\ InCall'
  BY <1>1, <1>4, <1>11, <1>12, <1>14 DEF AdapterInv, TypeOK, Mirror, InCall
<1>18. /\ Distance(input)' = di /\ Distance(output)' = do - F
       /\ MinimumDistance(input)' = kernelIn /\ MinimumDistance(output)' = kernelOut
       /\ latency' * input'.inputIncrement = L
  BY <1>1, <1>12, <1>14 DEF Distance, MinimumDistance, L, m
<1>19. Primed'
  BY <1>1, <1>2, <1>6, <1>12, <1>18 DEF AdapterInv, Primed
<1>20. Balanced'
  <2>1. L + 0 = L
    BY <1>4
  <2>. QED BY <1>1, <1>16, <1>18, <2>1 DEF Balanced, Backlog
<1>21. NotOverdrawn'
  BY <1>12, <1>14, <1>15, <1>16, <1>18 DEF NotOverdrawn
<1>22. PhasesBounded'
  <2>1. PhaseLimit' = L + m + h
    <3>1. latency \in Nat
      BY DEF AdapterInv, TypeOK
    <3>2. (latency + 1) * m = latency * m + m
      <4>1. m * (latency + 1) = m * latency + m * 1 /\ m * 1 = m
        BY <1>4, <3>1, TimesDistributes DEF Positive
      <4>2. m * (latency + 1) = (latency + 1) * m /\ m * latency = latency * m
        BY <1>4, <3>1 DEF Positive
      <4>. QED BY <4>1, <4>2
    <3>3. (latency + 1) * m = L + m
      BY <3>2 DEF L
    <3>. QED BY <1>1, <1>12, <3>3 DEF PhaseLimit
  <2>2. \A x \in {di, do - F, 0} : x \in (-(L + m + h))..(L + m + h)
    BY <1>4, <1>15, <1>16 DEF Positive
  <2>. QED BY <1>12, <1>14, <2>1, <2>2 DEF PhasesBounded
<1>23. BlockComplete'
  BY <1>11 DEF BlockComplete
<1>. QED BY <1>17, <1>19, <1>20, <1>21, <1>22, <1>23 DEF AdapterInv

-----------------------------------------------------------------------------
(* Theorems *)

LEMMA NextInv == AdapterInv /\ [Next]_vars => AdapterInv'
<1> SUFFICES ASSUME AdapterInv, [Next]_vars PROVE AdapterInv'
  OBVIOUS
<1>1. ASSUME NEW hostRate \in HostRates, NEW maxBlock \in MaxBlocks, Prepare(hostRate, maxBlock)
      PROVE  AdapterInv'
  BY <1>1, PrepareRejectedInv, PrepareMatchingInv, PrepareConvertingInv DEF Prepare
<1>2. ASSUME NEW frames \in Blocks, Process(frames) PROVE AdapterInv'
  BY <1>2, DirectInv, ProcessPushInv DEF Process
<1>3. CASE UNCHANGED vars
  <2>1. TypeOK' /\ Mirror' /\ InCall' /\ NotOverdrawn'
    BY <1>3 DEF vars, AdapterInv, TypeOK, Mirror, InCall, NotOverdrawn, Converting, Distance, Served
  <2>2. Primed' /\ Balanced'
    BY <1>3 DEF vars, AdapterInv, Primed, Balanced, Converting, Backlog, Distance, MinimumDistance
  <2>3. PhasesBounded' /\ BlockComplete'
    BY <1>3 DEF vars, AdapterInv, PhasesBounded, BlockComplete, PhaseLimit, Converting, Served
  <2>. QED BY <2>1, <2>2, <2>3 DEF AdapterInv
<1>. QED BY <1>1, <1>2, <1>3, RunModelInv, DeliverInv DEF Next

LEMMA SpecInv == Spec => []AdapterInv
  BY InitInv, NextInv, PTL DEF Spec

\* Every variable keeps its type: no negative count of frames, no resampler
\* without a period.
THEOREM TypeCorrect == Spec => []TypeOK
<1>1. AdapterInv => TypeOK
  BY DEF AdapterInv
<1>. QED BY <1>1, SpecInv, PTL

\* Every block an accepted call hands in comes back complete, at any two rates
\* and in any sequence of block sizes: process() never pads with silence.
THEOREM BlocksAreComplete == Spec => []BlockComplete
<1>1. AdapterInv => BlockComplete
  BY DEF AdapterInv
<1>. QED BY <1>1, SpecInv, PTL

\* Between two blocks exactly the reported number of host frames is under way
\* in the two resamplers, so that the delay never changes after prepare().
THEOREM BacklogStaysLatency == Spec => []BacklogIsLatency
<1>1. AdapterInv => BacklogIsLatency
  <2> SUFFICES ASSUME AdapterInv, pc = "ready", Converting
               PROVE  Backlog = latency * input.inputIncrement
    BY DEF BacklogIsLatency
  <2>. DEFINE L == latency * input.inputIncrement
  <2>1. Backlog = L + 0
    BY DEF AdapterInv, Balanced
  <2>2. L \in Nat
    BY IncrementTypes
  <2>. HIDE DEF L
  <2>3. Backlog = L
    BY <2>1, <2>2
  <2>. QED BY <2>3 DEF L
<1>. QED BY <1>1, SpecInv, PTL

\* The phase counters stay within what priming left and a period of each rate.
THEOREM PhasesStayBounded == Spec => []PhasesBounded
<1>1. AdapterInv => PhasesBounded
  BY DEF AdapterInv
<1>. QED BY <1>1, SpecInv, PTL

\* prepare() accepts every request within the limits: the exceptions of
\* prime_pipeline are never thrown.
THEOREM PrimingAlwaysSucceeds == Spec => PrimingSucceeds
<1>1. AdapterInv /\ [Next]_vars =>
          [~prepared' => \A hostRate \in HostRates, maxBlock \in MaxBlocks :
                             Acceptable(hostRate, maxBlock) => ~Prepare(hostRate, maxBlock)]_vars
  <2> SUFFICES ASSUME AdapterInv, NEW hostRate \in HostRates, NEW maxBlock \in MaxBlocks,
                      Acceptable(hostRate, maxBlock), Prepare(hostRate, maxBlock)
               PROVE  prepared'
    OBVIOUS
  <2>1. CASE PrepareMatching(hostRate, maxBlock)
    BY <2>1 DEF PrepareMatching
  <2>2. CASE PrepareConverting(hostRate, maxBlock)
    BY <2>2, ConvertingPrimes DEF AdapterInv
  <2>. QED BY <2>1, <2>2 DEF Prepare, PrepareRejected
<1>. QED BY <1>1, SpecInv, PTL DEF Spec, PrimingSucceeds

\* For any rates, blocks and ring: as long as the largest block has room in the
\* rings, no read touches an overwritten entry.
THEOREM RingsHold == Spec => []RoomSuffices
<1>1. AdapterInv => RoomSuffices
  <2> SUFFICES ASSUME AdapterInv, RoomInRings, Converting
               PROVE  OldestTapHeld(input) /\ OldestTapHeld(output)
    BY DEF RoomSuffices, RingHolds
  <2>. DEFINE m == input.inputIncrement
              h == input.outputIncrement
              di == Distance(input)
              do == Distance(output)
              B == maxHostBlock
              room == BufferSize - Radius
              f == IF pc = "convert" THEN block.frames ELSE 0
  <2>1. /\ m \in Positive /\ h \in Positive /\ di \in Int /\ do \in Int
        /\ output.inputIncrement = h /\ output.outputIncrement = m
    BY IncrementTypes DEF Increments
  <2>2. /\ f \in Nat /\ f <= B /\ B \in Nat /\ latency \in Nat /\ room \in Int
    BY IncrementTypes DEF AdapterInv, TypeOK, InCall, Served
  <2>3. di + do = (latency + f) * m /\ di >= -h /\ do >= -m
    <3>1. di + do = latency * m + (IF pc = "convert" THEN m * block.frames ELSE 0)
      BY DEF AdapterInv, Balanced, Backlog
    <3>2. (latency + f) * m = latency * m + m * f /\ m * 0 = 0
      <4>1. m * (latency + f) = m * latency + m * f
        <5>. HIDE DEF m, f
        <5>. QED BY <2>1, <2>2, TimesDistributes DEF Positive
      <4>2. m * (latency + f) = (latency + f) * m /\ m * latency = latency * m /\ m * 0 = 0
        <5>. HIDE DEF m, f
        <5>. QED BY <2>1, <2>2 DEF Positive
      <4>. QED BY <4>1, <4>2
    <3>3. di + do = latency * m + m * f
      <4>. HIDE DEF m, di, do
      <4>. QED BY <3>1, <3>2
    <3>. QED BY <2>1, <3>2, <3>3 DEF AdapterInv, NotOverdrawn
  <2>4. latency + B + 1 <= room /\ (latency + B) * m + h <= room * h
    BY DEF RoomInRings
  <2>. HIDE DEF m, h, di, do, B, room, f
  <2>5. (latency + f) * m <= (latency + B) * m /\ (latency + f) * m \in Int /\ (latency + B) * m \in Int
    <3>1. m * (latency + f) <= m * (latency + B)
      BY <2>1, <2>2, TimesMonotone DEF Positive
    <3>2. m * (latency + f) = (latency + f) * m /\ m * (latency + B) = (latency + B) * m
          /\ (latency + f) * m \in Int /\ (latency + B) * m \in Int
      BY <2>1, <2>2 DEF Positive
    <3>. QED BY <3>1, <3>2
  <2>6. do <= room * h
    <3>1. room * h \in Int
      BY <2>1, <2>2 DEF Positive
    <3>. DEFINE p == (latency + f) * m
                q == (latency + B) * m
                r == room * h
    <3>2. di + do = p /\ p <= q /\ q + h <= r /\ p \in Int /\ q \in Int /\ r \in Int
      BY <2>3, <2>4, <2>5, <3>1
    <3>. HIDE DEF p, q, r
    <3>3. do <= r
      BY <2>1, <2>3, <3>2 DEF Positive
    <3>. QED BY <3>3 DEF r
  <2>7. di <= room * m
    <3>1. m * (latency + B + 1) <= m * room /\ m * room \in Int
      BY <2>1, <2>2, <2>4, TimesMonotone DEF Positive
    <3>2. m * (latency + B + 1) = m * (latency + B) + m
      <4>1. m * ((latency + B) + 1) = m * (latency + B) + m * 1 /\ m * 1 = m
        BY <2>1, <2>2, TimesDistributes DEF Positive
      <4>. QED BY <4>1
    <3>3. m * (latency + B) = (latency + B) * m /\ m * room = room * m
      BY <2>1, <2>2 DEF Positive
    <3>. DEFINE p == (latency + f) * m
                q == (latency + B) * m
                r == room * m
    <3>4. di + do = p /\ p <= q /\ q + m <= r /\ p \in Int /\ q \in Int /\ r \in Int
      BY <2>3, <2>5, <3>1, <3>2, <3>3
    <3>. HIDE DEF p, q, r
    <3>5. di <= r
      BY <2>1, <2>3, <3>4 DEF Positive
    <3>. QED BY <3>5 DEF r
  <2>. QED BY <2>1, <2>6, <2>7 DEF OldestTapHeld, m, h, di, do, room
<1>. QED BY <1>1, SpecInv, PTL

\* At any two rates and for any sequence of blocks, each block comes back complete,
\* and the phases stay in a range that does not grow with the run.
THEOREM AdapterIsSound == Spec => []AdapterSound
<1>. QED BY TypeCorrect, BlocksAreComplete, PhasesStayBounded, PTL DEF AdapterSound
===============================================================================

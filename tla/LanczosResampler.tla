--------------------------- MODULE LanczosResampler ---------------------------
(***************************************************************************)
(* MonoLanczosResampler, src/src/audio/LanczosResampler.hpp: a ring of the   *)
(* last input samples and two phase counters in units of one input sample    *)
(* divided by phase_denominator_ (which set_phases makes equal to            *)
(* phase_input_increment_).  A pushed sample advances phase_input_ by one    *)
(* sample, a popped one advances phase_output_ by the output period.  The    *)
(* values of the samples are left out: which ring positions a read touches   *)
(* depends on the phases alone.                                              *)
(***************************************************************************)
EXTENDS Integers, FiniteSetsExt

CONSTANTS
    Radius,         \* kRadius, 12 in the code
    BufferSize      \* kBufferSize, 131072 in the code

ASSUME RadiusAssumption == Radius \in Nat
ASSUME BufferSizeAssumption == BufferSize \in Nat \ {0}

ResamplerRecord ==
    [phaseInput : Int, phaseOutput : Int, inputIncrement : Nat \ {0}, outputIncrement : Nat \ {0}]

\* std::gcd of two positive rates.
CommonDivisors(a, b) == {g \in 1..a : a % g = 0 /\ b % g = 0}
Gcd(a, b) == Max(CommonDivisors(a, b))

\* The constructor: set_phases() for the two rates, then clear().
Resampler(inputRate, outputRate) ==
    LET divisor == Gcd(inputRate, outputRate)
    IN  [phaseInput |-> 0, phaseOutput |-> 0,
         inputIncrement |-> outputRate \div divisor, outputIncrement |-> inputRate \div divisor]

\* How far the next output sample lies behind the write position, in phase units.
Distance(r) == r.phaseInput - r.phaseOutput

\* A sample is read only at a distance above this one.
MinimumDistance(r) == r.inputIncrement * (Radius + 1)

\* input_frames_required_for(n): truncation of a positive quotient plus one.
InputFramesRequiredFor(r, n) ==
    LET missing == MinimumDistance(r) - (Distance(r) - r.outputIncrement * n)
    IN  IF missing <= 0 THEN 0 ELSE (missing \div r.inputIncrement) + 1

Push(r, n) == [r EXCEPT !.phaseInput = @ + r.inputIncrement * n]

\* The samples pop() produces: it goes on while the distance is above the minimum.
Available(r) ==
    IF Distance(r) <= MinimumDistance(r) THEN 0
    ELSE ((Distance(r) - MinimumDistance(r) - 1) \div r.outputIncrement) + 1

Popped(r, n) == IF Available(r) <= n THEN Available(r) ELSE n

Pop(r, n) == [r EXCEPT !.phaseOutput = @ + r.outputIncrement * Popped(r, n)]

\* Variant: only the output phase is counted from zero again.
ResetOutputPhase(r) == [r EXCEPT !.phaseOutput = 0]

\* Variant: the phases are never counted from zero again.
KeepPhases(r) == r

Renormalize(r) == [r EXCEPT !.phaseInput = Distance(r), !.phaseOutput = 0]

(***************************************************************************)
(* read_sample: a sample at distance d is a weighted sum of the 2 * Radius   *)
(* ring entries around floor(write_position_ - d).  The oldest of them is    *)
(* Radius entries further back, and is still there if the ring has not       *)
(* wrapped over it.                                                          *)
(***************************************************************************)
OldestTapHeld(r) == Distance(r) <= (BufferSize - Radius) * r.inputIncrement

(***************************************************************************)
(* Tap t of read_sample weighs entry floor(p) - Radius + t, p being the      *)
(* position distance back, by the kernel at 1 - frac(p) + t - Radius.  The   *)
(* kernel's centre, where that argument is 0, is position p - 1: one input   *)
(* sample further back than the distance asked for.                          *)
(***************************************************************************)
KernelCentre(r) == Distance(r) + r.inputIncrement
===============================================================================

--------------------------- MODULE ModelRateAdapter ---------------------------
(***************************************************************************)
(* NamCoreModel and its ModelRateAdapter, src/src/audio/NamCoreModel.cpp:    *)
(* blocks at the host's sample rate are resampled to the rate of the capture,*)
(* run through the network and resampled back.  prepare() primes the two     *)
(* resamplers with silence, so that every block comes back complete; the     *)
(* number of host frames this takes is the latency the model reports.        *)
(*                                                                           *)
(* One thread at a time uses a model (the worker until it publishes it, the  *)
(* audio thread afterwards), so the calls are sequential; the stages of      *)
(* process() are separate steps because they loop.  Rates are integers in a  *)
(* unit common to all of them: only their ratio reaches the resamplers.      *)
(***************************************************************************)
EXTENDS LanczosResampler

CONSTANTS
    HostRates,          \* the sample rates a host asks for
    ModelRates,         \* GetExpectedSampleRate() of the captures, 0 or less when unknown
    LegacyRate,         \* kAssumedLegacyModelSampleRateHz
    MinRate, MaxRate,   \* kMinimumSupportedSampleRateHz, kMaximumSupportedSampleRateHz
    MaxBlocks,          \* the maximum block sizes a host asks for
    MaxExternalBlock,   \* kMaximumExternalBlockFrames, 8192 in the code
    Blocks              \* the sizes of the blocks a host hands in

ASSUME RatesAssumption ==
    /\ HostRates \subseteq Nat /\ ModelRates \subseteq Int
    /\ LegacyRate \in Nat /\ MinRate \in Nat \ {0} /\ MaxRate \in Nat
ASSUME BlocksAssumption ==
    /\ MaxBlocks \subseteq Nat /\ Blocks \subseteq Nat /\ MaxExternalBlock \in Nat

VARIABLES
    modelRate,      \* what the loaded capture reports; never changes
    prepared,       \* Impl::prepared
    active,         \* active_: the rates differ
    maxHostBlock,   \* maximum_host_block_frames_
    maxModelBlock,  \* maximum_model_block_frames_
    input, output,  \* input_resampler_, output_resampler_
    latency,        \* info.latency_samples, what info() reports
    pc,             \* "ready" between calls, "convert" in process()'s loop
    block           \* the last call of process(): its frames, and those it rendered

vars == <<modelRate, prepared, active, maxHostBlock, maxModelBlock, input, output, latency, pc, block>>

BlockRecord == [frames : Nat, rendered : Nat]

\* A resampler that was never constructed, or was reset.
NoResampler == [phaseInput |-> 0, phaseOutput |-> 0, inputIncrement |-> 1, outputIncrement |-> 1]

TypeOK ==
    /\ modelRate \in ModelRates
    /\ prepared \in BOOLEAN /\ active \in BOOLEAN
    /\ maxHostBlock \in Nat /\ maxModelBlock \in Nat
    /\ input \in ResamplerRecord /\ output \in ResamplerRecord
    /\ latency \in Nat
    /\ pc \in {"ready", "convert"}
    /\ block \in BlockRecord

\* NamCoreModel::load.
Init ==
    /\ modelRate \in ModelRates
    /\ prepared = FALSE /\ active = FALSE
    /\ maxHostBlock = 0 /\ maxModelBlock = 0
    /\ input = NoResampler /\ output = NoResampler
    /\ latency = 0
    /\ pc = "ready"
    /\ block = [frames |-> 0, rendered |-> 0]

EffectiveModelRate == IF modelRate <= 0 THEN LegacyRate ELSE modelRate

Supported(rate) == MinRate <= rate /\ rate <= MaxRate

Acceptable(hostRate, maxBlock) ==
    /\ Supported(hostRate) /\ Supported(EffectiveModelRate)
    /\ maxBlock # 0 /\ maxBlock <= MaxExternalBlock

-----------------------------------------------------------------------------
(* prepare *)

\* validate_sample_rate or the check of the block size throws: the adapter and
\* the reported information stay as they were, but the model is not prepared.
PrepareRejected(hostRate, maxBlock) ==
    /\ pc = "ready"
    /\ ~Acceptable(hostRate, maxBlock)
    /\ prepared' = FALSE
    /\ UNCHANGED <<modelRate, active, maxHostBlock, maxModelBlock, input, output, latency, pc, block>>

\* The rates match: no resampler, no latency.
PrepareMatching(hostRate, maxBlock) ==
    /\ pc = "ready"
    /\ Acceptable(hostRate, maxBlock) /\ hostRate = EffectiveModelRate
    /\ prepared' = TRUE /\ active' = FALSE
    /\ maxHostBlock' = maxBlock
    /\ input' = NoResampler /\ output' = NoResampler
    /\ latency' = 0
    /\ block' = [frames |-> 0, rendered |-> 0]
    /\ UNCHANGED <<modelRate, maxModelBlock, pc>>

\* Variant: the model's buffers have no margin for the warm-up.
ModelBlockExact(hostRate, maxBlock) ==
    (maxBlock * EffectiveModelRate + hostRate - 1) \div hostRate

\* std::ceil(maxBlock * ratio) plus kResamplerBlockMargin.
ModelBlockFor(hostRate, maxBlock) ==
    ((maxBlock * EffectiveModelRate + hostRate - 1) \div hostRate) + 2 * Radius + 8

\* prime_pipeline: the model frames that the first output frame needs, and the
\* host frames that these need.
WarmUp(out) == InputFramesRequiredFor(out, 1)
HostLatency(in, out) == InputFramesRequiredFor(in, WarmUp(out))

\* None of the three exceptions of prime_pipeline.
Primes(in, out, modelBlock) ==
    LET silence == HostLatency(in, out)
    IN  /\ silence # 0
        /\ WarmUp(out) <= modelBlock
        /\ Popped(Push(in, silence), WarmUp(out)) = WarmUp(out)

\* The rates differ: two resamplers, primed with silence.  When the priming
\* throws, the model is not prepared and the latency it reported stays.
PrepareConverting(hostRate, maxBlock) ==
    /\ pc = "ready"
    /\ Acceptable(hostRate, maxBlock) /\ hostRate # EffectiveModelRate
    /\ LET in == Resampler(hostRate, EffectiveModelRate)
           out == Resampler(EffectiveModelRate, hostRate)
           silence == HostLatency(in, out)
           primed == Primes(in, out, ModelBlockFor(hostRate, maxBlock))
       IN  /\ maxModelBlock' = ModelBlockFor(hostRate, maxBlock)
           /\ prepared' = primed
           /\ latency' = IF primed THEN silence ELSE latency
           /\ input' = IF primed THEN Pop(Push(in, silence), WarmUp(out)) ELSE in
           /\ output' = IF primed THEN Push(out, WarmUp(out)) ELSE out
    /\ active' = TRUE
    /\ maxHostBlock' = maxBlock
    /\ block' = [frames |-> 0, rendered |-> 0]
    /\ UNCHANGED <<modelRate, pc>>

Prepare(hostRate, maxBlock) ==
    \/ PrepareRejected(hostRate, maxBlock)
    \/ PrepareMatching(hostRate, maxBlock)
    \/ PrepareConverting(hostRate, maxBlock)

-----------------------------------------------------------------------------
(* process *)

\* NamCoreModel::process refuses the call: the output is silence.
ProcessSilence(frames) ==
    /\ pc = "ready"
    /\ ~prepared \/ frames = 0 \/ frames > maxHostBlock
    /\ block' = [frames |-> frames, rendered |-> 0]
    /\ UNCHANGED <<modelRate, prepared, active, maxHostBlock, maxModelBlock, input, output, latency, pc>>

\* Variant: a block is not compared with the size that prepare() was told.
ServedAnyBlock(frames) == prepared /\ frames # 0

Served(frames) == prepared /\ frames # 0 /\ frames <= maxHostBlock

ProcessDirect(frames) ==
    /\ pc = "ready"
    /\ Served(frames) /\ ~active
    /\ block' = [frames |-> frames, rendered |-> frames]
    /\ UNCHANGED <<modelRate, prepared, active, maxHostBlock, maxModelBlock, input, output, latency, pc>>

ProcessPush(frames) ==
    /\ pc = "ready"
    /\ Served(frames) /\ active
    /\ input' = Push(input, frames)
    /\ block' = [frames |-> frames, rendered |-> 0]
    /\ pc' = "convert"
    /\ UNCHANGED <<modelRate, prepared, active, maxHostBlock, maxModelBlock, output, latency>>

\* Variant: the loop goes on at exactly the minimum distance, and has no break.
LoopAtMinimum == InputFramesRequiredFor(input, 0) = 0

\* The loop's condition, and the break when nothing was popped.
ModelFramesReady ==
    /\ InputFramesRequiredFor(input, 1) = 0
    /\ Popped(input, maxModelBlock) # 0

\* One turn of the loop: a block of model frames through the network.
RunModel ==
    /\ pc = "convert"
    /\ ModelFramesReady
    /\ input' = Pop(input, maxModelBlock)
    /\ output' = Push(output, Popped(input, maxModelBlock))
    /\ UNCHANGED <<modelRate, prepared, active, maxHostBlock, maxModelBlock, latency, pc, block>>

\* After the loop: the frames for the host (padded with silence if they are
\* short), and the phases counted from zero again.
Deliver ==
    /\ pc = "convert"
    /\ ~ModelFramesReady
    /\ block' = [block EXCEPT !.rendered = Popped(output, block.frames)]
    /\ input' = Renormalize(input)
    /\ output' = Renormalize(Pop(output, block.frames))
    /\ pc' = "ready"
    /\ UNCHANGED <<modelRate, prepared, active, maxHostBlock, maxModelBlock, latency>>

Process(frames) == ProcessSilence(frames) \/ ProcessDirect(frames) \/ ProcessPush(frames)

Next ==
    \/ \E hostRate \in HostRates, maxBlock \in MaxBlocks : Prepare(hostRate, maxBlock)
    \/ \E frames \in Blocks : Process(frames)
    \/ RunModel
    \/ Deliver

Spec == Init /\ [][Next]_vars

\* The thread that called process() goes on to its return.
FairSpec == Spec /\ WF_vars(RunModel \/ Deliver)

-----------------------------------------------------------------------------
(* Properties *)

Converting == prepared /\ active

\* A request within the documented limits is never refused: the three
\* exceptions of prime_pipeline guard against what does not happen.
PrimingSucceeds ==
    [][~prepared' => \A hostRate \in HostRates, maxBlock \in MaxBlocks :
                         Acceptable(hostRate, maxBlock) => ~Prepare(hostRate, maxBlock)]_vars

\* "the first host block always produces a complete output block", and so does
\* every later one, whatever sizes the host hands in: the std::fill_n after
\* the last pop never has a gap to fill.
BlockComplete == pc = "ready" /\ Served(block.frames) => block.rendered = block.frames

\* What lies between the two ends, in host frames times output.outputIncrement:
\* a distance in the output ring is in model frames, and the increments make
\* the units of the two resamplers the same.
Backlog == Distance(input) + Distance(output)

\* Between two blocks as many host frames are under way as the model reports,
\* after any sequence of block sizes: the delay neither drifts nor jumps, which
\* is what lets the host compensate it with one number.
BacklogIsLatency == pc = "ready" /\ Converting => Backlog = latency * input.inputIncrement

\* No read touches a ring entry that a later push has overwritten: a block is
\* pushed as a whole before the first pop, so the whole of it, the backlog and
\* the kernel must fit.  Nothing in prepare() asks for it, and with the rates
\* and the block size that it accepts the block can be larger than the ring.
RingHolds == Converting => OldestTapHeld(input) /\ OldestTapHeld(output)

\* The rings have room for what is under way, the largest block and the kernel:
\* what prepare() would have to compare, in values that it has.
RoomInRings ==
    Converting =>
        /\ latency + maxHostBlock + 1 <= BufferSize - Radius
        /\ (latency + maxHostBlock) * input.inputIncrement + input.outputIncrement
               <= (BufferSize - Radius) * input.outputIncrement

\* The size of the largest block decides it when the model is prepared: if there
\* is room then, no sequence of blocks and no number of turns of the loop, which
\* fill one ring as they empty the other, overwrites what is still to be read.
RoomSuffices == RoomInRings => RingHolds

\* The 64-bit phases do not creep up over a long run: between blocks they stay
\* within what priming left, give or take a period of each rate (a phase may be
\* negative: the output period can exceed what lies in the ring).
PhaseLimit == (latency + 1) * input.inputIncrement + input.outputIncrement

PhasesBounded ==
    pc = "ready" /\ Converting =>
        \A r \in {input, output} : /\ r.phaseInput \in -PhaseLimit..PhaseLimit
                                   /\ r.phaseOutput \in -PhaseLimit..PhaseLimit

\* The two resamplers between blocks: every block has come back whole, and the
\* 64-bit phases are where priming left them, however long the run.
AdapterSound == TypeOK /\ BlockComplete /\ PhasesBounded

\* Every block the host hands in comes back: the loop of process() ends.
BlockReturns == pc = "convert" ~> pc = "ready"

\* The delay a host hears: from the frame handed in to the centre of the
\* kernel that renders it, through both resamplers, in units of Backlog.
Delay == KernelCentre(input) + KernelCentre(output)

\* The reported latency is the delay, up to the fraction of a frame that an
\* integer cannot express.
DelayIsReported ==
    pc = "ready" /\ Converting =>
        /\ Delay > (latency - 1) * input.inputIncrement
        /\ Delay < (latency + 1) * input.inputIncrement
===============================================================================

---------------------------- MODULE PluginShell ----------------------------
(***************************************************************************)
(* What the plug-in tells its user and its host: the status line and the    *)
(* latency, kept by the UI thread around PlayerSystem.                      *)
(*                                                                         *)
(* The UI thread selects models, polls on idle and replaces the worker when *)
(* the host resets, one handler at a time.  Each of its looks at the worker *)
(* takes the mutex anew, so the worker can go on between two of them.       *)
(***************************************************************************)
EXTENDS PlayerSystem

VARIABLES shown,            \* displayed_status_
          shownGeneration,  \* displayed_generation_
          hostLatency,      \* reported_latency_samples_: what the host was told
          selecting         \* inside request_model, before update_status_controls

lineVars == <<shown, shownGeneration>>
shellState == <<shown, shownGeneration, hostLatency, selecting>>
pluginVars == <<playerVars, shellState>>

-----------------------------------------------------------------------------
ShellInit == /\ PlayerInit
             /\ shown = "dry"
             /\ shownGeneration = 0
             /\ hostLatency = 0
             /\ selecting = FALSE

HasWorker == worker.pc # "ended"

\* OnReset waits in model_worker_.reset() until the worker has ended.
InReset == stopping /\ HasWorker

\* request_model up to the return of the worker's request_model.
SelectModel ==
    /\ ~selecting
    /\ RequestModel
    /\ shown' = "queued"
    /\ shownGeneration' = IF HasWorker THEN latestGeneration' ELSE 0
    /\ selecting' = TRUE
    /\ UNCHANGED hostLatency

\* Variant: only a newer generation is shown.
UpdateIfNewer ==
    IF HasWorker /\ (shownGeneration = 0 \/ status.requested > shownGeneration)
    THEN shown' = status.state /\ shownGeneration' = status.requested
    ELSE UNCHANGED lineVars

\* update_status_controls: an older generation than the one shown is ignored.
UpdateStatusControls ==
    IF HasWorker /\ (shownGeneration = 0 \/ status.requested >= shownGeneration)
    THEN shown' = status.state /\ shownGeneration' = status.requested
    ELSE UNCHANGED lineVars

\* The rest of request_model.
ShowSelected ==
    /\ selecting
    /\ UpdateStatusControls
    /\ selecting' = FALSE
    /\ UNCHANGED <<playerVars, hostLatency>>

\* OneSlotProcessor::latency_samples
LatencySamples == IF bypassed THEN 0 ELSE reportedLatency

OnIdle ==
    /\ ~selecting /\ ~InReset
    /\ hostLatency' = LatencySamples
    /\ UpdateStatusControls
    /\ UNCHANGED <<playerVars, selecting>>

\* Variant: the status line is left to the next idle call.
KeepLine == UNCHANGED shown

LineAfterReset == shown' = IF selected = Null THEN "dry" ELSE "reloading"

\* OnReset: displayed_generation_ stays.
BeginReset == /\ ~selecting
              /\ StopWorker
              /\ UNCHANGED shellState

EndReset == /\ ~selecting
            /\ RebuildModelWorker
            /\ hostLatency' = 0
            /\ LineAfterReset
            /\ UNCHANGED <<shownGeneration, selecting>>

PluginNext ==
    \/ SelectModel \/ ShowSelected \/ OnIdle \/ BeginReset \/ EndReset
    \/ (WorkerThread \/ AudioThread \/ SetBypass) /\ UNCHANGED shellState

PluginSpec == ShellInit /\ [][PluginNext]_pluginVars

(***************************************************************************)
(* Beside the fairness of PlayerSystem: request_model returns, and the UI   *)
(* thread's timer calls OnIdle between handlers, however often the user     *)
(* opens the file dialog.                                                   *)
(***************************************************************************)
PluginFairSpec == /\ PluginSpec
                  /\ WF_pluginVars(WorkerThread /\ UNCHANGED shellState)
                  /\ WF_pluginVars(AudioThread /\ UNCHANGED shellState)
                  /\ WF_pluginVars(ShowSelected)
                  /\ SF_pluginVars(OnIdle)

-----------------------------------------------------------------------------
(* Properties *)

\* The UI thread's variables have their types.
ShellTypeOK ==
    /\ shown \in {"dry", "reloading", "idle", "queued", "loading", "published", "error"}
    /\ shownGeneration \in 0..MaxGeneration
    /\ hostLatency \in Nat
    /\ selecting \in BOOLEAN

\* When the status line reads "published", the newest content the audio holds or
\* is offered is the selected model, even where the line lags behind the worker.
ShownIsTrue == shown = "published" => selected # Null /\ Newest = selected

\* The copy of the status that the UI shows does not lie about a published model.
ShellSound == ShellTypeOK /\ ShownIsTrue

\* The host's delay compensation comes to match what the processor says, through
\* crossfades, the bypass and resets.
LatencyReachesHost ==
    \A l \in {0} \cup {NonNegative(ModelLatency[m]) : m \in Model} : LatencySamples = l ~> hostLatency = l \/ LatencySamples # l

\* The outcome of the newest request comes to be shown, unless the line still
\* has the generation of a worker that was replaced.
OutcomeIsShown ==
    \A outcome \in {"published", "error"} :
        status.state = outcome /\ shownGeneration <= status.requested ~>
            shown = outcome \/ status.state # outcome

\* What OnIdle polls reaches the host and the user: the latency and the outcome.
PollsArrive == LatencyReachesHost /\ OutcomeIsShown

\* docs/IPLUG2_SHELL.md: "A failure is reported in the status line and does not
\* replace the current graph."
FailureIsReported ==
    status.state = "error" ~> shown = "error" \/ status.state # "error"
=============================================================================

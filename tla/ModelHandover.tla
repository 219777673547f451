--------------------------- MODULE ModelHandover ---------------------------
(***************************************************************************)
(* What RealtimeModelSlot promises whoever publishes models to it, with no  *)
(* threads, addresses or queues: the newest request waits in one place, the *)
(* audio takes it over between two blocks when no crossfade is under way,   *)
(* and the model it replaces stays audible until the crossfade is over.     *)
(***************************************************************************)
CONSTANTS Model,  \* what can be published; a dry request is one of them
          None    \* nothing requested, nothing loaded

VARIABLES requested,  \* the newest request the audio has not taken over
          active,     \* the model that is, or is becoming, audible
          leaving,    \* the model being faded out
          fading      \* a crossfade is under way

handoverVars == <<requested, active, leaving, fading>>

HandoverInit == /\ requested = None
                /\ active = None
                /\ leaving = None
                /\ fading = FALSE

\* A newer request replaces one that has not been taken over.
Request(m) == /\ requested' = m
              /\ UNCHANGED <<active, leaving, fading>>

TakeOver == /\ requested # None
            /\ ~fading
            /\ leaving' = active
            /\ active' = requested
            /\ requested' = None
            /\ fading' = TRUE

FadeOut == /\ fading
           /\ leaving' = None
           /\ fading' = FALSE
           /\ UNCHANGED <<requested, active>>

\* Audio is stopped and every model is dropped.
Drop == /\ requested' = None
        /\ active' = None
        /\ leaving' = None
        /\ fading' = FALSE

HandoverNext == \/ \E m \in Model : Request(m)
                \/ TakeOver \/ FadeOut \/ Drop

HandoverSafety == HandoverInit /\ [][HandoverNext]_handoverVars

HandoverSpec == /\ HandoverSafety
                /\ WF_handoverVars(TakeOver)
                /\ WF_handoverVars(FadeOut)
=============================================================================

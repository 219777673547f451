--------------------------- MODULE MCPlayerSystem ---------------------------
(***************************************************************************)
(* PlayerSystem with two models: enough to tell an obsolete model    *)
(* from the selected one.                                                   *)
(***************************************************************************)
EXTENDS PlayerSystem, TLC

CONSTANTS clean, lead

TwoModels == {clean, lead}

MCLatency == [m \in Model |-> 1]

=============================================================================

--------------------------- MODULE MCPluginShell ---------------------------
(***************************************************************************)
(* PluginShell with one or two models, in memory for as many as the slot    *)
(* ever keeps.                                                              *)
(***************************************************************************)
EXTENDS PluginShell

CONSTANTS clean, lead

OneModel == {clean}
TwoModels == {clean, lead}

\* A latency below zero is reported as none.
MCLatency == [m \in Model |-> IF m = lead THEN -1 ELSE 1]
=============================================================================

-------------------------- MODULE MCModelRateAdapter --------------------------
(* Instances of ModelRateAdapter for TLC; rates are in units of 100 Hz. *)
EXTENDS ModelRateAdapter

\* 44.1 and 96 kHz, the lowest supported rate, and one below it.
MCHostRates == {79, 80, 441, 960}
\* Unknown (taken as 48 kHz), 44.1 kHz, the highest supported rate, and one above.
MCModelRates == {-1, 441, 3840, 3841}

\* The two ends of the range that docs/RESAMPLING.md lists.
MCLowestRate == {80}
MCHighestRate == {3840}
===============================================================================

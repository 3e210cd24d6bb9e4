----------------------------- MODULE MCPlotSync -----------------------------
(* Instances of PlotSync for TLC: two files, so that a refresh has two      *)
(* batches, and one list, as the three of the code are handled alike.       *)
EXTENDS PlotSync

MCFiles == {"f", "g"}

MCStartDisks == {[f \in MCFiles |-> "plot"]}
=============================================================================

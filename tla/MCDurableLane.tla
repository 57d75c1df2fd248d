--------------------------- MODULE MCDurableLane ---------------------------
(* Instances of the durable lane for TLC.                                  *)
EXTENDS DurableLaneRefinement, TLC

\* Senders differ only in being gated.
Symmetry == Permutations(Senders \ GatedSenders)
=============================================================================

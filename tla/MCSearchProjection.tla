------------------------- MODULE MCSearchProjection -------------------------
(* Instances of the search projection for TLC.                             *)
EXTENDS SearchProjection

\* More tokens than can be in use at once.
MCTokens == 101 .. (101 + Cardinality(Slots) + 2 * Cardinality(Sessions))
=============================================================================

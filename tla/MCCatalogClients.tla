-------------------------- MODULE MCCatalogClients --------------------------
(* Instances of CatalogClients for TLC.                                    *)
EXTENDS CatalogClients, TLC

\* Identifiers are compared for equality only.
Symmetry == Permutations(Epochs) \cup Permutations(Sessions) \cup Permutations(Payloads)
=============================================================================

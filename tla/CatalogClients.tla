--------------------------- MODULE CatalogClients ---------------------------
(***************************************************************************)
(* The catalog of HostCatalog driven by clients that may send any envelope *)
(* of any source, in any order and any number of times, open any epoch and *)
(* delete any session.  What holds here holds whatever a Machine Agent,    *)
(* old, new or broken, puts on the wire.                                   *)
(***************************************************************************)
EXTENDS HostCatalog

CONSTANTS
    MaxPosition,    \* positions of a source run from 0 to this bound
    MaxCommits,     \* write transactions explored
    Payloads,       \* distinguishable contents of a range
    Refusals        \* answers of the checks left out

ASSUME ClientsAssumption ==
    /\ MaxPosition \in Nat
    /\ MaxCommits \in Nat
    /\ Refusals \cap (Renderings \cup {"created", "replay"}) = {}

vars == hostVars

\* Every body StorageV2IngestRequest accepts.
Envelopes ==
    {env \in [source : Sources, epoch : Epochs, pred : Epochs \cup {None},
              start : 0 .. MaxPosition, end : 0 .. MaxPosition,
              data : Payloads, session : Sessions] : env.start <= env.end}

Bounded == commitSeq < MaxCommits

Next ==
    \/ \E env \in Envelopes, screen \in Renderings \cup Refusals :
          Bounded /\ Ingest(env, screen, Verdict(env, screen))
    \/ \E e \in Epochs, src \in Sources, p \in Epochs \cup {None} :
          Bounded /\ OpenSourceEpoch(e, src, p)
    \/ \E s \in Sessions : Bounded /\ DeleteStorageSession(s)

Spec == HostInit /\ [][Next]_vars

\* The watermark a client resynchronises against never moves back, and an
\* archived row is neither dropped nor brought back after its retirement
\* (ArchiveOnlyGrows, of every step).
Grows == [][ArchiveOnlyGrows]_vars

\* A step that changes what a session's readers would see raises the revision its
\* projectors are asked to reach or leaves the session marked as not rendered yet
\* (ChangesAreProjected, of every step).
Projected == [][ChangesAreProjected]_vars
=============================================================================

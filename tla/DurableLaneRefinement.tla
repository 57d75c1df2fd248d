----------------------- MODULE DurableLaneRefinement -----------------------
(***************************************************************************)
(* The durable lane implements TranscriptArchive, as long as the host is   *)
(* not restored from a backup.                                             *)
(***************************************************************************)
EXTENDS DurableLane

\* The rows of an epoch, read as one log.
LogOf(e) ==
    [k \in UNION {r.start .. (r.end - 1) : r \in RawIn(e)} |->
        LET row == CHOOSE r \in RawIn(e) : r.start <= k /\ k < r.end
        IN  row.data[k - row.start + 1]]

\* What the sending side relies on: what its durable cursor has passed.
Relied(e) == IF e \notin Registered THEN {}
             ELSE {k \in 0 .. (cursor[e] - 1) : ~Exempt(e, k)}

Archive == INSTANCE TranscriptArchive WITH
    log     <- [e \in Known |-> LogOf(e)],
    current <- IF OpenEpochs(Source) = {} THEN None ELSE CHOOSE e \in OpenEpochs(Source) : TRUE,
    acked   <- [e \in Epochs |-> Relied(e)]

\* Files, pending rows, retries, conflicts and reconciliation together do
\* nothing but write the newest log at its end and acknowledge what it holds
\* (commit_raw_object on one side, the cursor's movers on the other).
ImplementsArchive == Archive!Spec
=============================================================================

---------------------------- MODULE HostCatalog ----------------------------
(***************************************************************************)
(* The Runtime Host's storage-v2 catalog: the single-writer SQLite store   *)
(* that admits raw envelopes into source epochs (catalogd/store.py).       *)
(*                                                                         *)
(* Every operation below is one write transaction of catalogd, hence one   *)
(* atomic step.  Nothing here trusts the caller: an envelope is any record *)
(* the transport can carry, so what is shown of this module holds for      *)
(* every client, the Machine Agent included.                               *)
(*                                                                         *)
(* A position is a record boundary of the source.  A payload is abstracted *)
(* to a value compared for equality only, and an envelope identifier (a    *)
(* hash of epoch, range and record hashes) to the tuple it hashes.         *)
(***************************************************************************)
EXTENDS Integers, FiniteSets

CONSTANTS
    Epochs,         \* source epoch identifiers (UUIDs minted by Machine Agents)
    Sources,        \* source identities: tenant, machine, provider, opaque id
    Sessions,       \* Longhouse session identifiers
    None,           \* an absent optional value
    ExplicitOpen    \* TRUE if storage.source_epoch.open.v2 is called

ASSUME HostAssumption ==
    /\ None \notin Epochs
    /\ ExplicitOpen \in BOOLEAN

VARIABLES
    epochs,         \* source_epoch rows: a function on the epochs admitted so far
    raw,            \* raw_object rows, as a set
    retired,        \* the raw_object rows with a retired_at
    tombstones,     \* sessions deleted for good
    commitSeq,      \* catalog_meta.commit_seq
    desired,        \* projector_state.desired_revision of each session, 0 without a row
    unrendered      \* sessions whose render_state is "pending" or "failed"

hostVars == <<epochs, raw, retired, tombstones, commitSeq, desired, unrendered>>

-----------------------------------------------------------------------------
(* The rows an operation reads.                                            *)

Known == DOMAIN epochs

RawOf(env) == [source |-> env.source, epoch |-> env.epoch, start |-> env.start,
               end |-> env.end, data |-> env.data, session |-> env.session]

\* The identifier storage_v2_contract computes; the session is not hashed.
EnvelopeId(env) == <<env.source, env.epoch, env.start, env.end, env.data>>

RawIn(e) == {r \in raw : r.epoch = e}

ActiveIn(e) == RawIn(e) \ retired

ActiveOf(s) == {r \in raw \ retired : r.session = s}

OpenEpochs(src) == {e \in Known : epochs[e].source = src /\ epochs[e].state = "open"}

\* Mutant: the walk starts from position 0 instead of from the first range.
PrefixFromZero(R) ==
    IF R = {} THEN 0
    ELSE LET ends == {0} \cup {r.end : r \in R}
             Covered(p) == \A q \in 0 .. (p - 1) : \E r \in R : r.start <= q /\ q < r.end
         IN  CHOOSE p \in ends : /\ Covered(p)
                                 /\ \A q \in ends : Covered(q) => q <= p

\* The first position past the gap-free run of ranges from the lowest one.
\* Ranges of one epoch never overlap, so walking them in order and stopping
\* where the next does not start at the end reached is this position.
ContiguousPrefix(R) ==
    IF R = {} THEN 0
    ELSE LET lowest == CHOOSE p \in {r.start : r \in R} : \A r \in R : p <= r.start
             ends   == {lowest} \cup {r.end : r \in R}
             Covered(p) == \A q \in lowest .. (p - 1) :
                               \E r \in R : r.start <= q /\ q < r.end
         IN  CHOOSE p \in ends : /\ Covered(p)
                                 /\ \A q \in ends : Covered(q) => q <= p

\* The rows of R as commit_raw_object reads them: ORDER BY range_start, range_end.
Listings(R) ==
    {rows \in [1 .. Cardinality(R) -> R] :
        /\ \A r \in R : \E i \in DOMAIN rows : rows[i] = r
        /\ \A i, j \in DOMAIN rows : i < j =>
              /\ rows[i] # rows[j]
              /\ \/ rows[i].start < rows[j].start
                 \/ rows[i].start = rows[j].start /\ rows[i].end <= rows[j].end}

\* The loop of _contiguous_range_prefix: its state after each row.  It leaves for
\* good at the first row that does not start where it has got to.
Walk(rows) ==
    LET walk[i \in DOMAIN rows] ==
            LET before == IF i = 1 THEN [through |-> rows[1].start, stopped |-> FALSE]
                                   ELSE walk[i - 1]
            IN  IF \/ before.stopped
                   \/ rows[i].start # before.through
                   \/ rows[i].end < rows[i].start
                  THEN [through |-> before.through, stopped |-> TRUE]
                  ELSE [through |-> rows[i].end, stopped |-> FALSE]
    IN  walk

WalkedPrefix(R, rows) == IF R = {} THEN 0 ELSE Walk(rows)[Cardinality(R)].through

\* Where the next envelope of a known epoch must start.
AcceptedThrough(env) ==
    IF env.epoch \notin Known
      THEN env.start
      ELSE IF ActiveIn(env.epoch) = {} /\ epochs[env.epoch].count = 0
             THEN env.start
             ELSE ContiguousPrefix(ActiveIn(env.epoch))

-----------------------------------------------------------------------------
(* Admission: the checks commit_raw_object makes, in the code's order.     *)

\* Mutant: an epoch without a predecessor is admitted beside an open one.
LineageUnchecked(env) ==
    /\ env.pred # None
    /\ \/ env.pred \notin Known
       \/ epochs[env.pred].source # env.source
       \/ epochs[env.pred].state # "open"
       \/ OpenEpochs(env.source) # {env.pred}

\* A new epoch must continue the one open epoch of its source, or be the first.
LineageConflict(env) ==
    IF env.pred # None
      THEN \/ env.pred \notin Known
           \/ epochs[env.pred].source # env.source
           \/ epochs[env.pred].state # "open"
           \/ OpenEpochs(env.source) # {env.pred}
      ELSE OpenEpochs(env.source) # {}

\* A known epoch must be the same one, still open, and of the same session.
EpochMismatch(env) ==
    \/ epochs[env.epoch].source # env.source
    \/ epochs[env.epoch].pred # env.pred
    \/ epochs[env.epoch].state # "open"
    \/ \E r \in RawIn(env.epoch) : r.session # env.session

SameRange(env) == \E r \in RawIn(env.epoch) : r.start = env.start /\ r.end = env.end

Overlap(env) == /\ env.start < env.end
                /\ \E r \in RawIn(env.epoch) : r.start < env.end /\ r.end > env.start

\* Mutant: ranges may leave a gap.
GapAllowed(env) == SameRange(env) \/ Overlap(env)

RangeConflict(env) ==
    \/ SameRange(env)
    \/ env.start # AcceptedThrough(env)
    \/ Overlap(env)

\* The envelope_id is already in the table.
Replayed(env) == \E r \in raw : EnvelopeId(r) = EnvelopeId(env)

\* What a request may come with: a sealed rendering of its records ("clear"), or
\* none ("deferred"), when the render worker was busy or failed, or when a corpus
\* is migrated without one.
Renderings == {"clear", "deferred"}

\* screen is the rendering the request comes with, or the refusal of the checks
\* whose data this module leaves out: media availability, session owner and
\* render generation.  The exact replay of a known envelope is answered before
\* any of them runs, with the original receipt even when the envelope now names
\* another session.
Verdict(env, screen) ==
    IF env.session \in tombstones THEN "session_deleted"
    ELSE IF Replayed(env)
      THEN IF \E r \in raw \ retired : EnvelopeId(r) = EnvelopeId(env)
             THEN "replay" ELSE "conflict"
    ELSE IF screen \notin Renderings THEN screen
    ELSE IF \/ env.epoch \notin Known /\ LineageConflict(env)
            \/ env.epoch \in Known /\ EpochMismatch(env)
            \/ RangeConflict(env)
           THEN "conflict"
    ELSE "created"

-----------------------------------------------------------------------------
(* Operations.                                                             *)

HostInit ==
    /\ epochs = [e \in {} |-> None]
    /\ raw = {}
    /\ retired = {}
    /\ tombstones = {}
    /\ commitSeq = 0
    /\ desired = [s \in Sessions |-> 0]
    /\ unrendered = {}

\* Mutant: a closed epoch does not record its successor.
ClosedByNobody(row, by) == [row EXCEPT !.state = "closed"]

Closed(row, by) == [row EXCEPT !.state = "closed", !.replacedBy = by]

\* Close the predecessor of a new epoch.
ClosePredecessor(env) ==
    [e \in Known |-> IF e = env.pred THEN Closed(epochs[e], env.epoch) ELSE epochs[e]]

\* Mutant: the rows of a replaced epoch stay active.
NothingSuperseded(env) == {}

\* The rows a first envelope of a new epoch retires: all of its predecessor's.
Superseded(env) == IF env.epoch \notin Known /\ env.pred # None
                     THEN ActiveIn(env.pred) ELSE {}

\* Mutant: a session whose source moved to another session is not projected again.
NobodyEmptied(env) == {}

\* Sessions left with no active row by that retirement, although the new envelope
\* belongs to another session.
Emptied(env) ==
    {s \in {r.session : r \in Superseded(env)} \ {env.session} :
        ActiveOf(s) \subseteq Superseded(env)}

\* Mutant: the raw row is inserted without its epoch row.
CommitWithoutEpoch(env, screen) ==
    /\ raw' = raw \cup {RawOf(env)}
    /\ retired' = retired \cup Superseded(env)
    /\ commitSeq' = commitSeq + 1
    /\ desired' = [desired EXCEPT ![env.session] = commitSeq + 1]
    /\ UNCHANGED <<epochs, tombstones, unrendered>>

\* The sessions whose projectors are asked for the new revision.  The caller names
\* them for the envelope's own session, and does so only with a rendering (without
\* one it names render-v2, which no worker serves, or none).  Of an emptied
\* session the ledger rows that exist are raised.
Told(env, screen) ==
    {s \in Emptied(env) : desired[s] # 0} \cup (IF screen = "clear" THEN {env.session} ELSE {})

\* commit_raw_object, admitted: one transaction for all of it.
CommitRawObject(env, screen) ==
    LET row == [source |-> env.source, pred |-> env.pred, state |-> "open",
                accepted |-> env.end, count |-> 1, replacedBy |-> None]
        next == commitSeq + 1
    IN  /\ epochs' = IF env.epoch \in Known
                       THEN [epochs EXCEPT ![env.epoch].accepted = env.end,
                                           ![env.epoch].count = @ + 1]
                       ELSE [e \in Known \cup {env.epoch} |->
                                IF e = env.epoch THEN row ELSE ClosePredecessor(env)[e]]
        /\ raw' = raw \cup {RawOf(env)}
        /\ retired' = retired \cup Superseded(env)
        /\ commitSeq' = next
        /\ desired' = [s \in Sessions |-> IF s \in Told(env, screen) THEN next ELSE desired[s]]
        /\ unrendered' = (unrendered \ (Emptied(env) \cup {env.session}))
                             \cup (IF screen = "clear" THEN {} ELSE {env.session})
        /\ UNCHANGED tombstones

\* commit_raw_object got as far as comparing the range with a known epoch.
RangeExamined(env, screen) ==
    /\ screen \in Renderings
    /\ ~Replayed(env)
    /\ env.epoch \in Known
    /\ ~EpochMismatch(env)

\* Refused there, the stored watermark was first rewritten from the ranges
\* themselves, and the transaction commits that.
RepairWatermark(env) ==
    /\ epochs' = IF ActiveIn(env.epoch) # {}
                   THEN [epochs EXCEPT ![env.epoch].accepted = AcceptedThrough(env)]
                   ELSE epochs
    /\ UNCHANGED <<raw, retired, tombstones, commitSeq, desired, unrendered>>

\* The whole RPC, with its answer.
Ingest(env, screen, reply) ==
    /\ reply = Verdict(env, screen)
    /\ \/ reply = "created" /\ CommitRawObject(env, screen)
       \/ reply = "conflict" /\ RangeExamined(env, screen) /\ RepairWatermark(env)
       \/ reply = "conflict" /\ ~RangeExamined(env, screen) /\ UNCHANGED hostVars
       \/ reply \notin {"created", "conflict"} /\ UNCHANGED hostVars

\* open_source_epoch: registers an epoch before its first envelope.
OpenSourceEpoch(e, src, pred) ==
    LET env == [source |-> src, epoch |-> e, pred |-> pred]
    IN  /\ ExplicitOpen
        /\ e \notin Known
        /\ ~LineageConflict(env)
        /\ epochs' = [x \in Known \cup {e} |->
                         IF x = e
                           THEN [source |-> src, pred |-> pred, state |-> "open",
                                 accepted |-> 0, count |-> 0, replacedBy |-> None]
                           ELSE ClosePredecessor(env)[x]]
        /\ commitSeq' = commitSeq + 1
        /\ UNCHANGED <<raw, retired, tombstones, desired, unrendered>>

\* Mutant: the rows of a deleted session are dropped instead of retired.
DeleteDropsRows(s) ==
    /\ s \notin tombstones
    /\ tombstones' = tombstones \cup {s}
    /\ raw' = raw \ ActiveOf(s)
    /\ commitSeq' = commitSeq + 1
    /\ desired' = [desired EXCEPT ![s] = commitSeq + 1]
    /\ UNCHANGED <<epochs, retired, unrendered>>

\* delete_storage_session: fence the session and retire its rows.
DeleteStorageSession(s) ==
    /\ s \notin tombstones
    /\ tombstones' = tombstones \cup {s}
    /\ retired' = retired \cup ActiveOf(s)
    /\ commitSeq' = commitSeq + 1
    /\ desired' = [desired EXCEPT ![s] = commitSeq + 1]
    /\ UNCHANGED <<epochs, raw, unrendered>>

-----------------------------------------------------------------------------
(* What the catalog promises.                                              *)

EpochRow == [source : Sources, pred : Epochs \cup {None}, state : {"open", "closed"},
             accepted : Nat, count : Nat, replacedBy : Epochs \cup {None}]

\* Type correctness of the catalog's tables.
HostTypeOK ==
    /\ Known \subseteq Epochs
    /\ epochs \in [Known -> EpochRow]
    /\ \A r \in raw : /\ r.epoch \in Known
                      /\ r.session \in Sessions
                      /\ r.start \in Nat /\ r.end \in Nat /\ r.start <= r.end
    /\ retired \subseteq raw
    /\ tombstones \subseteq Sessions
    /\ commitSeq \in Nat
    /\ desired \in [Sessions -> Nat]
    /\ unrendered \subseteq Sessions

\* The rows of an epoch are its source range, once each and without a hole: a
\* position from the lowest start to accepted_through lies in exactly one row.
\* This is what makes accepted_through a watermark a client may resume from
\* (commit_raw_object's overlap, gap and same-range refusals).
ContiguousArchive ==
    \A e \in Known : RawIn(e) # {} =>
        /\ \A r \in RawIn(e) : r.end <= epochs[e].accepted
        /\ \A r \in RawIn(e) : \A q \in r.start .. (epochs[e].accepted - 1) :
               \E t \in RawIn(e) : t.start <= q /\ q < t.end
        /\ \A r, t \in RawIn(e) : r # t => r.end <= t.start \/ t.end <= r.start

\* The position the host compares a request with, and repairs its watermark to,
\* is the one the loop over the stored ranges ends at (_contiguous_range_prefix).
WatermarkIsTheWalk ==
    \A e \in Known : \A rows \in Listings(ActiveIn(e)) :
        ContiguousPrefix(ActiveIn(e)) = WalkedPrefix(ActiveIn(e), rows)

\* A source has at most one open epoch, so its transcript has one live history
\* (commit_raw_object's predecessor checks).
OneOpenEpoch ==
    \A e, f \in Known :
        /\ epochs[e].state = "open"
        /\ epochs[f].state = "open"
        /\ epochs[e].source = epochs[f].source
        => e = f

\* The epochs of a source form one chain: a closed epoch names the successor
\* that names it as predecessor, and no epoch is succeeded twice.
LineageIsAChain ==
    \A e \in Known :
        /\ epochs[e].pred # None =>
              /\ epochs[e].pred \in Known
              /\ epochs[epochs[e].pred].source = epochs[e].source
              /\ epochs[epochs[e].pred].state = "closed"
              /\ epochs[epochs[e].pred].replacedBy = e
        /\ epochs[e].state = "closed" =>
              /\ epochs[e].replacedBy \in Known
              /\ epochs[epochs[e].replacedBy].pred = e

\* What a reader of the archive sees is never a superseded copy: an active row
\* belongs to an open epoch and to a session that was not deleted, so replacing
\* a source never leaves its old bytes beside the new ones.
ActiveRowsAreLive ==
    \A r \in raw \ retired :
        /\ epochs[r.epoch].state = "open"
        /\ r.session \notin tombstones

\* The watermark a client resynchronises against never moves back, and an
\* archived row is neither dropped nor brought back after its retirement.
ArchiveOnlyGrows ==
    /\ raw \subseteq raw'
    /\ retired \subseteq retired'
    /\ \A e \in Known : /\ e \in DOMAIN epochs'
                        /\ epochs[e].accepted <= epochs'[e].accepted
                        /\ epochs[e].state = "closed" => epochs'[e] = epochs[e]

\* What the session's readers would see after the step.
ActiveAfter(s) == {r \in raw' \ retired' : r.session = s}

\* If the step changes what a session's readers would see, it raises the revision
\* its projectors are asked to reach, or it leaves the session marked as not
\* rendered yet, or it empties a session no projector was ever asked for.
ChangeIsProjected(s) ==
    ActiveAfter(s) # ActiveOf(s) =>
        \/ desired'[s] = commitSeq' /\ desired'[s] > desired[s]
        \/ s \in unrendered'
        \/ desired[s] = 0 /\ ActiveAfter(s) = {}

ChangesAreProjected == \A s \in Sessions : ChangeIsProjected(s)

-----------------------------------------------------------------------------
(* What makes them inductive.  The catalog's checks read the rows of an    *)
(* epoch that are not retired, while the promises are about all of them:   *)
(* the first three parts say when the two are the same.                    *)

\* Rows of an epoch belong to one session (the linked_session check).
OneSession == \A r, t \in raw : r.epoch = t.epoch => r.session = t.session

\* A row is retired only with its epoch or with its session.
RetiredWithCause ==
    \A r \in retired : epochs[r.epoch].state = "closed" \/ r.session \in tombstones

\* object_count tells whether an epoch has rows.
Counted == \A e \in Known : epochs[e].count = 0 <=> RawIn(e) = {}

\* An epoch opened ahead of its first envelope starts from nothing.
NoRowsNoWatermark == \A e \in Known : RawIn(e) = {} => epochs[e].accepted = 0

\* An epoch with rows has a first one and one that ends at the watermark.
Based ==
    \A e \in Known : RawIn(e) # {} =>
        /\ \E b \in RawIn(e) : \A t \in RawIn(e) : b.start <= t.start
        /\ \E t \in RawIn(e) : t.end = epochs[e].accepted

\* The inductive invariant of the catalog.
HostInv == /\ HostTypeOK
           /\ OneOpenEpoch
           /\ LineageIsAChain
           /\ OneSession
           /\ RetiredWithCause
           /\ Counted
           /\ NoRowsNoWatermark
           /\ Based
           /\ ContiguousArchive

-----------------------------------------------------------------------------
(* What readers and projectors need besides.                               *)

\* The rows of an epoch are retired together: with their epoch or with their one
\* session, and no row joins an epoch whose rows are retired.
RetiredTogether == \A r, t \in raw : r.epoch = t.epoch /\ r \in retired => t \in retired

\* There is a listing of the rows, and an epoch's active rows are all or none of them.
RowsAreListable == RetiredTogether /\ IsFiniteSet(raw)

\* No revision is wanted that was not committed.
DesiredIsPast == \A s \in Sessions : desired[s] <= commitSeq

ReadersInv == ActiveRowsAreLive /\ DesiredIsPast

\* All a session's readers see comes from one source.
FromOneSource(s) ==
    \A r, t \in ActiveOf(s) : epochs[r.epoch].source = epochs[t.epoch].source

=============================================================================

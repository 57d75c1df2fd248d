---------------------------- MODULE DurableLane ----------------------------
(***************************************************************************)
(* The durable shipping lane of one byte-offset source (a Claude, Codex or *)
(* Antigravity transcript), from the file a provider writes to the Runtime *)
(* Host's archive.                                                         *)
(*                                                                         *)
(* The Machine Agent keeps three SQLite tables: the registry of source     *)
(* epochs, the durable cursor of each epoch, and at most one pending       *)
(* envelope per epoch (state/source_epoch.rs and                           *)
(* state/pending_source_envelope.rs).  Senders (the daemon's path job and  *)
(* the `ship` command) share those tables.  A sender's steps below are its *)
(* transactions, its reads of the file and its HTTP calls: whatever it     *)
(* carries between two of them is local, may be stale when used, and is    *)
(* lost when the sender times out or its process dies.                     *)
(*                                                                         *)
(* A record of the source is one whole line; its content is abstracted to  *)
(* its place and the file incarnation and rewrite it was written in.       *)
(***************************************************************************)
EXTENDS HostCatalog, Sequences

CONSTANTS
    Source,         \* the one source of this lane
    Senders,        \* processes that ship it
    GatedSenders,   \* senders run with --require-reply-evidence
    Providers,      \* the providers whose source is considered
    Meta,           \* positions that hold Claude startup metadata
    LegacyOffset,   \* position proven by the pre-v2 cursor of the first file
    MaxBatch,       \* records in a repair-lane envelope
    LiveBatch,      \* records in a live-lane envelope
    Screens,        \* what requests come with, and outcomes of the checks left out
    Rejecting,      \* TRUE if the host may call a body invalid
    SteadyFile,     \* TRUE if the file is not swapped between observing and reading it
    SafeReplace,    \* TRUE if the file is only rewritten once its epoch is drained
    FileOps,        \* which of "replace" and "truncate" the provider does
    MaxLen, MaxRewrites, MaxBinds, MaxDeletes, MaxRestores, MaxAbandons

ASSUME LaneAssumption ==
    /\ Sources = {Source}
    /\ GatedSenders \subseteq Senders
    /\ Providers \subseteq {"claude", "codex", "antigravity"}
    /\ Meta \subseteq Nat
    /\ LegacyOffset \in Nat
    /\ MaxBatch \in Nat \ {0} /\ LiveBatch \in 1 .. MaxBatch
    /\ "clear" \in Screens /\ Screens \subseteq Renderings \cup {"media_unavailable", "conflict"}
    /\ Epochs # {} /\ Sessions # {} /\ IsFiniteSet(Senders)
    /\ {MaxLen, MaxRewrites, MaxBinds, MaxDeletes, MaxRestores, MaxAbandons} \subseteq Nat
    /\ None \notin {"envelope_rejected", "source_epoch_conflict", "source_epoch_conflict_unresolved"}
    /\ ~ExplicitOpen

VARIABLES
    file,           \* the file: its provider, incarnation, rewrites so far, records
    bound,          \* the session binding recorded for the path
    registry,       \* source_epoch_registry
    active,         \* the epoch with no ended_at
    cursor,         \* source_epoch_lane_state.last_position
    pending,        \* pending_source_envelope, by epoch
    sender,         \* what each sender is doing
    late,           \* requests whose sender stopped waiting
    backup,         \* the host's restore point
    budget          \* environment events left of each kind

laneVars == <<file, bound, registry, active, cursor, pending, sender, late, backup, budget>>
vars == <<hostVars, laneVars>>

Registered == DOMAIN registry

SourceLen == Len(file.data)

Claude == file.provider = "claude"

\* An Antigravity source is one whole document, not a log of lines.
Document == file.provider = "antigravity"

\* hash_file: the revision of a whole-document source is its content.
Revision == IF Document THEN file.data ELSE None

Lesser(m, n) == IF m <= n THEN m ELSE n

Drop(f, e) == [x \in DOMAIN f \ {e} |-> f[x]]

With(f, e, v) == [x \in DOMAIN f \cup {e} |-> IF x = e THEN v ELSE f[x]]

Idle == [pc |-> "idle"]

Become(w, state) == sender' = [sender EXCEPT ![w] = state]

LaneInit ==
    /\ HostInit
    /\ \E p \in Providers :
          file = [provider |-> p, inc |-> 0, rewrites |-> 0,
                  data |-> [i \in 1 .. LegacyOffset |-> [inc |-> 0, rewrite |-> 0, at |-> i]]]
    /\ bound = None
    /\ registry = [e \in {} |-> None]
    /\ active = None
    /\ cursor = [e \in {} |-> 0]
    /\ pending = [e \in {} |-> None]
    /\ sender = [w \in Senders |-> Idle]
    /\ late = {}
    /\ backup = None
    /\ budget = [binds |-> MaxBinds, deletes |-> MaxDeletes, restores |-> MaxRestores,
                 abandons |-> MaxAbandons]

-----------------------------------------------------------------------------
(* The compare-and-set guards of the agent's transactions.                 *)

\* Mutant: the cursor is not compared.
AnyCursor(env) == TRUE

\* Mutant: the cursor is compared with the end of the range.
PastCursor(env) == cursor[env.epoch] = env.end

\* Every forward move of a cursor starts where the cursor is.
AtCursor(env) == cursor[env.epoch] = env.start

\* Mutant: an envelope that was sent counts as one that was not.
SentOrNot(row) == TRUE

\* discard_unattempted: nobody has tried to send it.
Unsent(row) == ~row.attempted

\* The row a sender still holds: its transactions name epoch and envelope.
Holds(env) == env.epoch \in DOMAIN pending /\ pending[env.epoch].env = env

-----------------------------------------------------------------------------
(* The provider and its file.                                              *)

AppendRecord ==
    /\ SourceLen < MaxLen
    /\ file' = [file EXCEPT !.data = Append(@, [inc |-> file.inc, rewrite |-> file.rewrites,
                                               at |-> SourceLen + 1])]
    /\ UNCHANGED <<hostVars, bound, registry, active, cursor, pending, sender, late, backup, budget>>

Rewritable ==
    /\ file.rewrites < MaxRewrites
    /\ SteadyFile => \A w \in Senders : sender[w].pc # "observed"
    /\ SafeReplace => /\ active \in Known
                      /\ \A w \in Senders : sender[w].pc = "idle"
                      /\ DOMAIN pending = {}

\* A new file is renamed over the path.
ReplaceFile(n) ==
    /\ "replace" \in FileOps
    /\ Rewritable
    /\ file' = LET g == file.rewrites + 1
               IN  [file EXCEPT !.inc = g, !.rewrites = g, !.data =
                    [i \in 1 .. n |-> [inc |-> g, rewrite |-> g, at |-> i]]]
    /\ UNCHANGED <<hostVars, bound, registry, active, cursor, pending, sender, late, backup, budget>>

\* The file is cut short in place.
TruncateFile(n) ==
    /\ "truncate" \in FileOps
    /\ Rewritable
    /\ n < SourceLen
    /\ file' = [file EXCEPT !.rewrites = @ + 1, !.data = SubSeq(@, 1, n)]
    /\ UNCHANGED <<hostVars, bound, registry, active, cursor, pending, sender, late, backup, budget>>

\* A managed session claims the path (state/session_binding.rs).
BindSession(s) ==
    /\ budget.binds > 0 /\ bound # s
    /\ bound' = s
    /\ budget' = [budget EXCEPT !.binds = @ - 1]
    /\ UNCHANGED <<hostVars, file, registry, active, cursor, pending, sender, late, backup>>

-----------------------------------------------------------------------------
(* Preparing: load the pending row, observe the file, read a batch of it,  *)
(* persist it.  Four separate transactions or reads.                       *)

StartupMetadata(env) == \A k \in env.start .. (env.end - 1) : k \in Meta

\* retire_empty_blocked_source_if_safe
RetirableEmpty(row) ==
    /\ Claude
    /\ row.block = "source_epoch_conflict_unresolved"
    /\ row.env.end > row.env.start
    /\ StartupMetadata(row.env)

\* The session binding is read first of all, the file only later.
Scanning(limit) == [pc |-> "scan", limit |-> limit, bound |-> bound]

\* A live sender's limit is below what a repair sender packs.
Oversized(env, limit) == env.end - env.start > limit /\ limit < MaxBatch

Prepared(row) == [pc |-> "prepared", env |-> row.env]

\* The source has no pending row: go on to the file.
FindNothingPending(w, limit) ==
    /\ sender[w].pc = "idle"
    /\ DOMAIN pending = {}
    /\ Become(w, Scanning(limit))
    /\ UNCHANGED <<hostVars, file, bound, registry, active, cursor, pending, late, backup, budget>>

\* The pending row is the work to do, whatever the file looks like by now.
\* (Rows are taken oldest first; creation times are wall-clock readings of
\* several processes, so the model allows any order.)
ResumePending(w, e, limit) ==
    /\ sender[w].pc = "idle"
    /\ e \in DOMAIN pending
    /\ ~RetirableEmpty(pending[e])
    /\ ~(Oversized(pending[e].env, limit) /\ Unsent(pending[e]))
    /\ Become(w, Prepared(pending[e]))
    /\ UNCHANGED <<hostVars, file, bound, registry, active, cursor, pending, late, backup, budget>>

\* A live sender drops an oversized repair envelope that was never sent.
DiscardOversized(w, e, limit) ==
    /\ sender[w].pc = "idle"
    /\ e \in DOMAIN pending
    /\ ~RetirableEmpty(pending[e])
    /\ Oversized(pending[e].env, limit)
    /\ Unsent(pending[e])
    /\ pending' = Drop(pending, e)
    /\ Become(w, Scanning(limit))
    /\ UNCHANGED <<hostVars, file, bound, registry, active, cursor, late, backup, budget>>

\* retire_empty_source: the cursor passes a blocked range of startup metadata.
RetireEmptySource(w, e, limit) ==
    /\ sender[w].pc = "idle"
    /\ e \in DOMAIN pending
    /\ RetirableEmpty(pending[e])
    /\ AtCursor(pending[e].env)
    /\ cursor' = [cursor EXCEPT ![e] = pending[e].env.end]
    /\ pending' = Drop(pending, e)
    /\ Become(w, Scanning(limit))
    /\ UNCHANGED <<hostVars, file, bound, registry, active, late, backup, budget>>

\* Mutant: only a shorter file or another session starts a new epoch.
RotatesByLength(b) ==
    LET row == registry[active]
    IN  \/ SourceLen < row.maxLen
        \/ b # None /\ row.bound # b /\ (row.bound # None \/ cursor[active] > 0)

\* observe_source's reasons to start a new epoch of a known source.
Rotates(b) ==
    LET row == registry[active]
    IN  \/ row.inc # file.inc
        \/ SourceLen < row.maxLen
        \/ row.revision # None /\ Revision # None /\ row.revision # Revision
        \/ /\ b # None /\ row.bound # b
           /\ row.bound # None \/ cursor[active] > 0

\* Mutant: the legacy cursor is trusted for any file.
LegacyForAnyFile == LegacyOffset

\* The legacy cursor is trusted only for the file it was recorded for, with what
\* that file held before it.
LegacyPosition ==
    IF /\ file.inc = 0
       /\ SourceLen >= LegacyOffset
       /\ \A i \in 1 .. LegacyOffset : file.data[i].rewrite = 0
      THEN LegacyOffset ELSE 0

FreshEpoch == CHOOSE e \in Epochs : e \notin Registered

EpochOpened(pred, b) == [inc |-> file.inc, pred |-> pred, maxLen |-> SourceLen,
                         revision |-> Revision, bound |-> b]

Observed(w, e, session) == [pc |-> "observed", limit |-> sender[w].limit, epoch |-> e,
                            session |-> session]

\* An envelope carries the bound session, or the one the transcript names.
SessionFor(b) == IF b # None THEN b ELSE CHOOSE s \in Sessions : TRUE

\* observe_file: resolve the epoch of the file as it is now, in one transaction.
ObserveFirst(w) ==
    /\ sender[w].pc = "scan"
    /\ active = None
    /\ registry' = With(registry, FreshEpoch, EpochOpened(None, sender[w].bound))
    /\ cursor' = With(cursor, FreshEpoch, LegacyPosition)
    /\ active' = FreshEpoch
    /\ Become(w, Observed(w, FreshEpoch, SessionFor(sender[w].bound)))
    /\ UNCHANGED <<hostVars, file, bound, pending, late, backup, budget>>

ObserveRotation(w) ==
    /\ sender[w].pc = "scan"
    /\ active # None
    /\ Rotates(sender[w].bound)
    /\ Registered # Epochs
    /\ registry' = With(registry, FreshEpoch, EpochOpened(active, sender[w].bound))
    /\ cursor' = With(cursor, FreshEpoch, 0)
    /\ active' = FreshEpoch
    /\ Become(w, Observed(w, FreshEpoch, SessionFor(sender[w].bound)))
    /\ UNCHANGED <<hostVars, file, bound, pending, late, backup, budget>>

ObserveSame(w) ==
    /\ sender[w].pc = "scan"
    /\ active # None
    /\ ~Rotates(sender[w].bound)
    /\ registry' = [registry EXCEPT
                       ![active].maxLen = IF SourceLen > @ THEN SourceLen ELSE @,
                       ![active].revision = IF Revision # None THEN Revision ELSE @,
                       ![active].bound = IF sender[w].bound # None THEN sender[w].bound ELSE @]
    /\ Become(w, Observed(w, active,
                          SessionFor(IF registry[active].bound # None
                                       THEN registry[active].bound ELSE sender[w].bound)))
    /\ UNCHANGED <<hostVars, file, bound, active, cursor, pending, late, backup, budget>>

\* The envelope of a batch that starts at the epoch's cursor.
BatchFrom(w, e, start) ==
    LET end == IF Document THEN SourceLen ELSE Lesser(start + sender[w].limit, SourceLen)
    IN  [source |-> Source, epoch |-> e, pred |-> registry[e].pred, start |-> start,
         end |-> end, data |-> SubSeq(file.data, start + 1, end), session |-> sender[w].session]

\* Mutant: the last record of the file waits for one behind it.
ReadableShort(e) == cursor[e] + 1 < SourceLen /\ (Document => cursor[e] = 0)

\* Mutant: a whole document is read from the cursor.
ReadableAnywhere(e) == cursor[e] < SourceLen

\* There is something to read; a whole document is only read from its start.
Readable(e) == cursor[e] < SourceLen /\ (Document => cursor[e] = 0)

\* read_next_raw_batch_with_limits at the cursor, from the file as it is now.
ReadBatch(w) ==
    /\ sender[w].pc = "observed"
    /\ LET e == sender[w].epoch
       IN  Become(w, IF Readable(e)
                       THEN [pc |-> "candidate", env |-> BatchFrom(w, e, cursor[e])]
                       ELSE Idle)
    /\ UNCHANGED <<hostVars, file, bound, registry, active, cursor, pending, late, backup, budget>>

Skippable(env) == Claude /\ env.start = 0 /\ StartupMetadata(env)

\* Startup metadata before the first host coordinate is passed over locally
\* (acknowledge_position is a compare-and-set on the cursor).
SkipStartupMetadata(w) ==
    /\ sender[w].pc = "candidate"
    /\ Skippable(sender[w].env)
    /\ AtCursor(sender[w].env)
    /\ cursor' = [cursor EXCEPT ![sender[w].env.epoch] = sender[w].env.end]
    /\ Become(w, Idle)
    /\ UNCHANGED <<hostVars, file, bound, registry, active, pending, late, backup, budget>>

\* persist_or_load: the first row of an epoch wins, and is what gets sent.
PersistPrepared(w) ==
    /\ sender[w].pc = "candidate"
    /\ ~Skippable(sender[w].env)
    /\ LET env == sender[w].env
           row == IF env.epoch \in DOMAIN pending THEN pending[env.epoch]
                  ELSE [env |-> env, attempted |-> FALSE, block |-> None]
       IN  /\ pending' = With(pending, env.epoch, row)
           /\ Become(w, Prepared(row))
    /\ UNCHANGED <<hostVars, file, bound, registry, active, cursor, late, backup, budget>>

-----------------------------------------------------------------------------
(* Shipping a prepared envelope.                                           *)

\* The reply-evidence gate gives back an envelope nobody has tried to send.
DiscardUngated(w) ==
    /\ w \in GatedSenders
    /\ sender[w].pc = "prepared"
    /\ Holds(sender[w].env)
    /\ Unsent(pending[sender[w].env.epoch])
    /\ pending' = Drop(pending, sender[w].env.epoch)
    /\ Become(w, Idle)
    /\ UNCHANGED <<hostVars, file, bound, registry, active, cursor, late, backup, budget>>

\* mark_attempt, then the POST leaves.
PostEnvelope(w) ==
    /\ sender[w].pc = "prepared"
    /\ Holds(sender[w].env)
    /\ pending[sender[w].env.epoch].block = None
    /\ pending' = [pending EXCEPT ![sender[w].env.epoch].attempted = TRUE]
    /\ Become(w, [pc |-> "posted", env |-> sender[w].env, block |-> None])
    /\ UNCHANGED <<hostVars, file, bound, registry, active, cursor, late, backup, budget>>

\* A blocked row is not re-sent but examined against the host's manifest.
ReexamineBlocked(w) ==
    /\ sender[w].pc = "prepared"
    /\ Holds(sender[w].env)
    /\ pending[sender[w].env.epoch].block # None
    /\ Become(w, [pc |-> "probing", env |-> sender[w].env,
                  block |-> pending[sender[w].env.epoch].block])
    /\ UNCHANGED <<hostVars, file, bound, registry, active, cursor, pending, late, backup, budget>>

\* The host answers a POST.  An envelope it finds in its table is answered with the
\* stored receipt, even of a retired row or a deleted session; otherwise, or when
\* the row came in after that look, the catalog transaction decides.
HostAnswers(w, screen) ==
    /\ sender[w].pc = "posted"
    /\ \/ /\ Replayed(sender[w].env)
          /\ Become(w, [sender[w] EXCEPT !.pc = "replay"])
          /\ UNCHANGED hostVars
       \/ LET reply == Verdict(sender[w].env, screen)
          IN  /\ Ingest(sender[w].env, screen, reply)
              /\ Become(w, [sender[w] EXCEPT !.pc = reply])
       \/ /\ Rejecting
          /\ Become(w, [sender[w] EXCEPT !.pc = "rejected"])
          /\ UNCHANGED hostVars
    /\ UNCHANGED <<file, bound, registry, active, cursor, pending, late, backup, budget>>

\* acknowledge_and_delete: only the exact row, and only from its own start.
Acknowledge(w) ==
    /\ sender[w].pc \in {"created", "replay"}
    /\ LET env == sender[w].env
       IN  IF Holds(env) /\ AtCursor(env)
             THEN /\ cursor' = [cursor EXCEPT ![env.epoch] = env.end]
                  /\ pending' = Drop(pending, env.epoch)
             ELSE UNCHANGED <<cursor, pending>>
    /\ Become(w, Idle)
    /\ UNCHANGED <<hostVars, file, bound, registry, active, late, backup, budget>>

\* quarantine: by epoch, and only a row that is not blocked yet.
Quarantine(e, kind) ==
    pending' = IF e \in DOMAIN pending /\ pending[e].block = None
                 THEN [pending EXCEPT ![e].block = kind]
                 ELSE pending

\* The host called the body invalid.
BlockRejected(w) ==
    /\ sender[w].pc = "rejected"
    /\ sender[w].block = None
    /\ Quarantine(sender[w].env.epoch, "envelope_rejected")
    /\ Become(w, Idle)
    /\ UNCHANGED <<hostVars, file, bound, registry, active, cursor, late, backup, budget>>

-----------------------------------------------------------------------------
(* Reconciling with the host's manifest.                                   *)

\* Mutant: whatever the host holds proves the whole envelope.
ProvenWhole(env) == env.end

\* The row is cut out of the envelope at record boundaries: its identifier is the
\* one recomputed from the envelope.  A whole document is a single record.
Matches(env, r) ==
    /\ r \in ActiveIn(env.epoch)
    /\ env.start <= r.start /\ r.start < r.end /\ r.end <= env.end
    /\ r.data = SubSeq(env.data, r.start - env.start + 1, r.end - env.start)
    /\ Document => r.start = env.start /\ r.end = env.end

\* The part of an envelope the host provably holds: consecutive active rows from
\* its start, each of which matches.
Proven(env, p) ==
    \A k \in env.start .. (p - 1) :
        \E r \in RawIn(env.epoch) :
            Matches(env, r) /\ r.start <= k /\ k < r.end /\ r.end <= p

ProvenThrough(env) ==
    CHOOSE p \in env.start .. env.end :
        /\ Proven(env, p)
        /\ \A q \in env.start .. env.end : Proven(env, q) => q <= p

\* storage_v2_source_manifest, with what both callers read out of it.
ManifestFor(env) == IF env.epoch \notin Known THEN None
                    ELSE [accepted |-> epochs[env.epoch].accepted, proven |-> ProvenThrough(env)]

\* After a conflict, or before giving a blocked row up again.
FetchManifest(w) ==
    /\ \/ sender[w].pc = "conflict" /\ sender[w].block = None
       \/ sender[w].pc = "probing"
    /\ Become(w, [pc |-> IF sender[w].pc = "probing" THEN "reexamine" ELSE "reconcile",
                  env |-> sender[w].env, block |-> sender[w].block,
                  manifest |-> ManifestFor(sender[w].env)])
    /\ UNCHANGED <<hostVars, file, bound, registry, active, cursor, pending, late, backup, budget>>

\* Mutant: the rewind waits for the file to grow past the envelope.
BehindHostGrown(env, manifest) ==
    /\ manifest # None
    /\ manifest.accepted < env.start
    /\ SourceLen > env.end
    /\ active # None /\ registry[active].inc = file.inc

\* resync_behind_host: the host holds less than this envelope starts from, and
\* the file on disk can serve the difference.
BehindHost(env, manifest) ==
    /\ manifest # None
    /\ manifest.accepted < env.start
    /\ SourceLen >= env.start
    /\ active # None /\ registry[active].inc = file.inc

\* The rewind and the discard are one transaction; either both or neither.
ResyncBehindHost(w) ==
    /\ sender[w].pc \in {"reconcile", "reexamine"}
    /\ BehindHost(sender[w].env, sender[w].manifest)
    /\ LET env == sender[w].env
           through == sender[w].manifest.accepted
       IN  IF Holds(env) /\ through < cursor[env.epoch]
             THEN /\ cursor' = [cursor EXCEPT ![env.epoch] = through]
                  /\ pending' = Drop(pending, env.epoch)
             ELSE UNCHANGED <<cursor, pending>>
    /\ Become(w, Idle)
    /\ UNCHANGED <<hostVars, file, bound, registry, active, late, backup, budget>>

\* Mutant: the suffix keeps the bytes of the whole envelope.
SuffixKeepsBytes(env, p) == [env EXCEPT !.start = p]

\* Mutant: the suffix is the whole envelope again.
SuffixFromStart(env, p) == env

\* Mutant: the suffix is cut one record too early.
SuffixShifted(env, p) == [env EXCEPT !.start = p,
                                     !.data = SubSeq(@, p - env.start, env.end - env.start - 1)]

Suffix(env, p) == [env EXCEPT !.start = p,
                              !.data = SubSeq(@, p - env.start + 1, env.end - env.start)]

\* reconcile_proven_prefix: keep only the part the host does not hold yet.
ReconcileProvenPrefix(w) ==
    /\ sender[w].pc = "reconcile"
    /\ sender[w].manifest # None
    /\ ~BehindHost(sender[w].env, sender[w].manifest)
    /\ sender[w].manifest.proven > sender[w].env.start
    /\ LET env == sender[w].env
           p == sender[w].manifest.proven
           rest == [env |-> Suffix(env, p), attempted |-> FALSE, block |-> None]
       IN  IF Holds(env) /\ pending[env.epoch].block = None /\ AtCursor(env)
             THEN /\ cursor' = [cursor EXCEPT ![env.epoch] = p]
                  /\ pending' = IF p < env.end THEN With(pending, env.epoch, rest)
                                ELSE Drop(pending, env.epoch)
             ELSE UNCHANGED <<cursor, pending>>
    /\ Become(w, Idle)
    /\ UNCHANGED <<hostVars, file, bound, registry, active, late, backup, budget>>

\* Nothing explains the conflict: keep the row, blocked.
BlockConflict(w) ==
    /\ sender[w].pc = "reconcile"
    /\ ~BehindHost(sender[w].env, sender[w].manifest)
    /\ sender[w].manifest # None => sender[w].manifest.proven = sender[w].env.start
    /\ Quarantine(sender[w].env.epoch,
                  IF sender[w].manifest = None THEN "source_epoch_conflict_unresolved"
                  ELSE "source_epoch_conflict")
    /\ Become(w, Idle)
    /\ UNCHANGED <<hostVars, file, bound, registry, active, cursor, late, backup, budget>>

\* A blocked row the manifest does not explain is examined again later; only a
\* body the host called invalid is posted again.
EndReexamination(w) ==
    /\ sender[w].pc = "reexamine"
    /\ ~BehindHost(sender[w].env, sender[w].manifest)
    /\ Become(w, IF sender[w].block = "envelope_rejected"
                   THEN [pc |-> "posted", env |-> sender[w].env, block |-> sender[w].block]
                   ELSE Idle)
    /\ UNCHANGED <<hostVars, file, bound, registry, active, cursor, pending, late, backup, budget>>

\* The error returns that change nothing: the row this sender prepared is gone,
\* the cursor moved under it, or the host's refusal leaves the row as it is (a
\* deleted session, missing media, a second refusal of a blocked row).
ErrorReturn(w) ==
    /\ \/ sender[w].pc = "prepared" /\ ~Holds(sender[w].env)
       \/ /\ sender[w].pc = "candidate"
          /\ Skippable(sender[w].env)
          /\ ~AtCursor(sender[w].env)
       \/ sender[w].pc \in {"session_deleted", "media_unavailable"}
       \/ sender[w].pc \in {"conflict", "rejected"} /\ sender[w].block # None
    /\ Become(w, Idle)
    /\ UNCHANGED <<hostVars, file, bound, registry, active, cursor, pending, late, backup, budget>>

-----------------------------------------------------------------------------
(* Time-outs, crashes, late requests, operators.                           *)

\* A sender gives up: a time-out, or the death of its process.  A request it had
\* sent may still reach the host.
Abandon(w) ==
    /\ sender[w].pc # "idle"
    /\ budget.abandons > 0
    /\ budget' = [budget EXCEPT !.abandons = @ - 1]
    /\ late' = IF sender[w].pc = "posted" THEN late \cup {sender[w].env} ELSE late
    /\ Become(w, Idle)
    /\ UNCHANGED <<hostVars, file, bound, registry, active, cursor, pending, backup>>

\* A request nobody waits for is admitted, refused, or lost.
LateArrival(env, screen) ==
    /\ env \in late
    /\ \/ Ingest(env, screen, Verdict(env, screen))
       \/ UNCHANGED hostVars
    /\ late' = late \ {env}
    /\ UNCHANGED <<file, bound, registry, active, cursor, pending, sender, backup, budget>>

\* `longhouse shipping discard --confirm`
OperatorDiscard(e) ==
    /\ e \in DOMAIN pending
    /\ pending[e].block # None
    /\ pending' = Drop(pending, e)
    /\ UNCHANGED <<hostVars, file, bound, registry, active, cursor, sender, late, backup, budget>>

\* A person deletes a session on the host.
DeleteSession(s) ==
    /\ budget.deletes > 0
    /\ budget' = [budget EXCEPT !.deletes = @ - 1]
    /\ DeleteStorageSession(s)
    /\ UNCHANGED <<file, bound, registry, active, cursor, pending, sender, late, backup>>

\* The host takes a restore point of its catalog (catalogd/backup.py).
TakeRestorePoint ==
    /\ budget.restores > 0 /\ backup = None
    /\ backup' = [epochs |-> epochs, raw |-> raw, retired |-> retired,
                  tombstones |-> tombstones, commitSeq |-> commitSeq, desired |-> desired,
                  unrendered |-> unrendered]
    /\ UNCHANGED <<hostVars, file, bound, registry, active, cursor, pending, sender, late, budget>>

\* The host comes back from its restore point and has forgotten the rest.
RestoreHost ==
    /\ budget.restores > 0 /\ backup # None
    /\ epochs' = backup.epochs /\ raw' = backup.raw /\ retired' = backup.retired
    /\ tombstones' = backup.tombstones /\ commitSeq' = backup.commitSeq
    /\ desired' = backup.desired /\ unrendered' = backup.unrendered
    /\ budget' = [budget EXCEPT !.restores = @ - 1]
    /\ backup' = None
    /\ UNCHANGED <<file, bound, registry, active, cursor, pending, sender, late>>

-----------------------------------------------------------------------------
Prepare(w) ==
    \/ \E limit \in {LiveBatch, MaxBatch} :
          \/ FindNothingPending(w, limit)
          \/ \E e \in Epochs : \/ ResumePending(w, e, limit)
                               \/ DiscardOversized(w, e, limit)
                               \/ RetireEmptySource(w, e, limit)
    \/ ObserveFirst(w) \/ ObserveRotation(w) \/ ObserveSame(w)
    \/ ReadBatch(w)
    \/ SkipStartupMetadata(w) \/ PersistPrepared(w)

Ship(w) ==
    \/ PostEnvelope(w) \/ ReexamineBlocked(w)
    \/ \E screen \in Screens : HostAnswers(w, screen)
    \/ Acknowledge(w) \/ BlockRejected(w)
    \/ FetchManifest(w)
    \/ ResyncBehindHost(w) \/ ReconcileProvenPrefix(w)
    \/ BlockConflict(w) \/ EndReexamination(w) \/ ErrorReturn(w)

Environment ==
    \/ AppendRecord
    \/ \E n \in 0 .. MaxLen : ReplaceFile(n) \/ TruncateFile(n)
    \/ \E s \in Sessions : BindSession(s) \/ DeleteSession(s)
    \/ \E w \in Senders : Abandon(w) \/ DiscardUngated(w)
    \/ \E env \in late, screen \in Screens : LateArrival(env, screen)
    \/ \E e \in Epochs : OperatorDiscard(e)
    \/ TakeRestorePoint \/ RestoreHost

Next == (\E w \in Senders : Prepare(w) \/ Ship(w)) \/ Environment

Spec == LaneInit /\ [][Next]_vars

\* A sender that can step does: the daemon polls due rows and watched paths for
\* ever, and every HTTP call ends in an answer or in a time-out (Abandon).
FairSpec == Spec /\ \A w \in Senders : WF_vars(Prepare(w) \/ Ship(w))

-----------------------------------------------------------------------------
(* What the lane promises.                                                 *)

Envelope == [source : Sources, epoch : Epochs, pred : Epochs \cup {None}, start : Nat,
             end : Nat, data : Seq([inc : Nat, rewrite : Nat, at : Nat]), session : Sessions]

IsEnvelope(env) == env \in Envelope /\ env.start < env.end /\ Len(env.data) = env.end - env.start

\* Type correctness of the agent's tables and of what senders carry.
LaneTypeOK ==
    /\ Registered \subseteq Epochs
    /\ active \in Registered \cup {None}
    /\ DOMAIN cursor = Registered
    /\ \A e \in Registered : cursor[e] \in Nat
    /\ DOMAIN pending \subseteq Registered
    /\ \A e \in DOMAIN pending : IsEnvelope(pending[e].env) /\ pending[e].env.epoch = e
    /\ \A w \in Senders : "env" \in DOMAIN sender[w] => IsEnvelope(sender[w].env)
    /\ \A env \in late : IsEnvelope(env)

Archived(e, k) == \E r \in RawIn(e) : r.start <= k /\ k < r.end

\* Positions of an epoch that are not shipped: startup metadata, and what the
\* pre-v2 cursor of the first epoch had shipped already.
Exempt(e, k) == \/ Claude /\ k \in Meta
                \/ registry[e].pred = None /\ registry[e].inc = 0 /\ k < LegacyOffset

\* The host has never forgotten anything.
NeverRestored == budget.restores = MaxRestores

\* No acknowledged byte is lost: while the host keeps its catalog, every record
\* the durable cursor of an epoch has passed is in the host's archive of that
\* epoch.  Lost replies, late requests, racing senders, discards and
\* reconciliation must all respect this (acknowledge_and_delete and its kin).
AckedIsArchived ==
    NeverRestored =>
        \A e \in Registered : \A k \in 0 .. (cursor[e] - 1) :
            Archived(e, k) \/ Exempt(e, k)

\* The archive is the transcript: what the host holds of the file on disk is
\* what the file holds at those positions, for a file that only grows or is
\* replaced.  A retry must send the frozen bytes, and a suffix the right ones.
ArchiveMatchesFile ==
    "truncate" \notin FileOps =>
        \A r \in raw : r.epoch \in Registered /\ registry[r.epoch].inc = file.inc =>
            r.end <= SourceLen /\ r.data = SubSeq(file.data, r.start + 1, r.end)

\* An epoch names one file: no record of another incarnation is ever archived or
\* queued under it (observe_source's rotation, and the resync's refusal to
\* rewind over a replaced file).
EpochNamesOneFile ==
    SteadyFile =>
        /\ \A r \in raw : \A i \in DOMAIN r.data : r.data[i].inc = registry[r.epoch].inc
        /\ \A e \in DOMAIN pending : \A i \in DOMAIN pending[e].env.data :
               pending[e].env.data[i].inc = registry[e].inc

\* An epoch of a whole-document source holds one copy of the document, whatever
\* is written between hashing it and reading it (read_whole_document and the
\* rotation on a new revision).
OneDocumentPerEpoch ==
    Document => \A r \in raw : r.start = 0 /\ RawIn(r.epoch) = {r}

\* With one sender, the queued envelope is always the next one the cursor needs.
PendingStartsAtCursor ==
    Cardinality(Senders) = 1 =>
        \A e \in DOMAIN pending : pending[e].env.start = cursor[e]

\* The source has no startup metadata for the cursor to pass over.
NoMetadata == Meta = {} \/ "claude" \notin Providers

\* A step that moves a cursor back: only a host that lost part of its archive may
\* cause one (resync_to_host_watermark).  Retired metadata is the exception: an
\* envelope of it given up for lost may still arrive, and leave the watermark
\* between what was retired with it and after it.  Then the row that is given
\* back has nothing but exempt positions between that watermark and its start.
RewindNeedsRestore ==
    [][\A e \in Registered : cursor'[e] < cursor[e] /\ NeverRestored =>
          /\ ~NoMetadata
          /\ e \in DOMAIN pending
          /\ \A k \in cursor'[e] .. (pending[e].env.start - 1) : Exempt(e, k)]_vars

\* An attempted envelope is the retry authority until the host answers for it:
\* it leaves the outbox only with its range acknowledged, rewound, or blocked.
AttemptedIsKept ==
    [][\A e \in DOMAIN pending :
          pending[e].attempted /\ pending[e].block = None /\ e \notin DOMAIN pending'
              => cursor'[e] # cursor[e]]_vars

\* Once the file stops changing, all of it reaches the archive of its epoch and
\* stays readable there, on a host that keeps its catalog.
Converges ==
    <>[](NeverRestored => \A k \in 0 .. (SourceLen - 1) :
            /\ active # None
            /\ \/ \E r \in raw \ retired : r.epoch = active /\ r.start <= k /\ k < r.end
               \/ Exempt(active, k))

\* A host that lost the tail of an epoch gets it back: once an envelope is
\* queued above its watermark, and no receipt for it is on its way, the cursor
\* returns to the watermark and the gap is shipped again (resync_behind_host),
\* for a file that was not replaced.  Without a further record to ship nothing
\* shows the agent that there is a gap.
GapsAreResynced ==
    \A e \in Epochs :
        (/\ e \in DOMAIN pending /\ e \in Known /\ epochs[e].accepted < pending[e].env.start
         /\ \A w \in Senders : sender[w].pc \notin {"created", "replay"})
            ~> (e \in Known /\ cursor[e] <= epochs[e].accepted)

\* A blocked range that holds nothing but startup metadata does not stay in the
\* way of the transcript behind it (retire_empty_blocked_source_if_safe).
EmptyBlocksAreRetired ==
    \A e \in Epochs :
        (e \in DOMAIN pending /\ RetirableEmpty(pending[e])) ~> (e \notin DOMAIN pending)

=============================================================================

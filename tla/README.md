# Longhouse: a TLA+ verification project

Longhouse keeps the transcripts of coding-agent sessions. A **Machine Agent** (Rust, `src/engine`)
runs beside the provider CLIs, watches the transcript files they write and ships them to a
**Runtime Host** (Python, `src/server`), which archives them, indexes them for search and serves web,
iOS and desktop clients. This directory holds TLA+ models of the parts of that system whose
correctness depends on interleavings, retries and failures, the TLC configurations that check them,
and theorems checked by TLAPS.

Paths below are relative to the repository; `store.py` is `src/server/zerg/catalogd/store.py`.
`PROJECT.json` maps every definition that models code to the lines it models.

Contents: [inventory](#1-inventory) · [plan](#2-plan) · [models and code](#3-the-models-and-the-code) ·
[runs](#4-runs) · [fairness](#5-fairness) · [proofs](#6-proofs) ·
[disagreements](#7-where-code-and-words-disagree) · [left out](#8-what-is-not-modelled)

## 1. Inventory

### Core: modelled

**Storage-v2 catalog** (`store.py`, `storage_v2/contracts.py`).
*State*: `source_epoch` rows (source identity, predecessor, open or closed, `accepted_through`,
`object_count`, `replaced_by`), `raw_object` rows (epoch, range, content hashes, session,
`retired_at`), session tombstones, `commit_seq`, and one `projector_state` row per projector and
session. *Operations*: `commit_raw_object`, `open_source_epoch`, `delete_storage_session`, the source
manifest a client reads after a conflict. *Talks to*: the Machine Agent (HTTP ingest), projectors
(revisions). catalogd has one writer, so an operation is one transaction. *Hard*: a client may repeat,
reorder and delay requests; the watermark is both stored and recomputed from rows; a new epoch closes
another and retires its rows; a request that is refused may still write. *Correct if*: the rows of an
epoch cover one range without a hole or an overlap, a source has one live history, readers never see a
superseded copy, the watermark never moves back, and whoever projects a session is told of every change or
the session is marked as unrendered.

**Machine Agent durable lane** (`storage_v2_shipper.rs`, `state/source_epoch.rs`,
`state/pending_source_envelope.rs`, `state/session_binding.rs`, `commands/cmd_ship.rs`).
*State*: the registry of epochs of a file, a durable cursor per epoch, at most one pending envelope per
epoch, all in SQLite; the file itself; what a running sender holds in memory. *Operations*: observe the
file and rotate its epoch, read a batch, persist it, post it, acknowledge, fetch the manifest, reconcile
a proven prefix, resynchronise behind the host, block, re-examine, discard, skip startup metadata.
*Talks to*: the catalog; other senders through the tables (the daemon's path job and the `ship`
command). *Hard*: every step of a sender is its own transaction, read or HTTP call and may act on what
another sender has changed; replies are lost; late requests arrive; the file is replaced or truncated;
the process dies; the host comes back from a backup. *Correct if*: no acknowledged byte is missing from
the archive, the archive holds what the file held, an epoch never mixes two files, a blocked envelope
does not stop the source for ever, and a file that stops changing ends up in the archive.

**Projector ledger, search and embedding projectors, searchd** (`store.py`,
`services/search_v2_projector.py`, `services/embeddings_v2_projector.py`, `searchd/store.py`).
*State*: wanted and completed revision, claim, lease and retry time per projector and session; the
identity of the bound search database; searchd's indexed objects, memberships, publications and
vectors. *Operations*: claim, complete, fail, expire, release at startup, requeue, bind; list a page,
reuse, index, publish, delete, read, embed. *Talks to*: catalogd and searchd, one call at a time.
*Hard*: what a pass read is out of date by its next call; a session is deleted, retired or brought
back under a pass; two projectors write the same searchd session; the database is replaced; claims
outlive their workers. *Correct if*: search serves one revision and not a mixture, vectors belong to the
text served, a ledger without lag means the session is served as it was at the revision last asked for, and
lag drains.

**Console turns** (`store.py`, `services/console_turns.py`, `routers/runtime.py`; in `src/engine`:
`control_channel.rs`, `turn_claims.rs`, `pi_print.rs`, `antigravity_print.rs`, `outbox.rs`).
*State*: a turn row and an input receipt per message, durable; the commands the server waits for; the
agent's cache of completed commands, its claim files, its monitors, its outbox of terminal events.
*Operations*: enqueue, dispatch, replay after a reconnect, apply an answer, apply a terminal event and
claim the next turn, interrupt; claim a run, launch the provider, watch it, report its end, recover.
*Hard*: the outcome of a start command may be unknown; requests, replays and terminal events race on one
row; server, agent and machine each die between two steps. *Correct if*: a thread runs one turn at a time,
a queued turn always has an owner to wait for, a message starts one process, and the end of a turn is
reported whenever the machine can still write its outbox and read its claims.

**Session inputs and the queued-input drain** (`routers/session_chat.py`,
`services/live_control_catalog.py`, `live_session_inputs.py`, `session_locks.py`, `store.py`).
*State*: a receipt per input and an operation per machine command, durable; the session's lock with its
TTL and watchers, in memory. *Operations*: send, queue or steer an input, cancel it, claim the oldest
queued one, send it, settle the receipt, expire. *Hard*: handlers and drains meet on one receipt; the
lock may expire under its watcher or be taken from a task that sends; a request time-out cuts a handler off at
any await; a reply may be lost after the effect. *Correct if*: an input is given to
the provider at most once, "queued" means not sent, "delivered" means given, automatic sends overlap only
when the lock is taken from one of them, and the queue drains.

**Machine control channel and operations** (`services/machine_control_channel.py`,
`managed_control_dispatcher.py`, `routers/agents_control.py`, `engine/src/control_channel.rs`). *State*:
the registered connection of a machine, commands pending on it, operation rows. *Operations*: register,
replace, unregister, send, complete, time out, reap. *Hard*: the two ends notice a lost connection at
different times; a result arrives on another connection than its command. It has no module of its own:
`ConsoleTurns` and `InputDelivery` each contain the half they use.

### Other parts

| Part | State and operations | What is hard, and what makes it correct |
|---|---|---|
| Pause requests, provider interactions (`store.py` 2295-2887) | a pending question and its answer | an answer reaches the request it was given for, once |
| Session titles (`store.py` 8187-8697) | a dependency ledger like the projectors' | a title of an old revision must not replace a newer one |
| Refresh tokens (`store.py` 1602-1767) | token families; rotate, reuse detection | two refreshes with one token |
| Runner dispatch (`services/runner_job_dispatcher.py`, `src/runner`) | one job per runner, a future per job | disconnect racing completion; the busy mark must clear |
| catalogd process (`catalogd/server.py`, `protocol.py`, supervisor) | one write transaction at a time, framing, restarts | the models rely on the single writer |
| Agent scheduler and pre-v2 spool (`scheduler.rs`, `state/spool.rs`) | priorities, deferrals, byte budgets | starvation; outbox limits |
| Managed sessions and bridges (`codex_bridge.rs`, `managed_launch_lifecycle.rs`, ...) | child processes, leases, janitors | process supervision, mostly I/O |
| Parsing, rendering, fact reducer | pure conversions and reductions | provider formats; `fact_reducer.py` is order-sensitive |
| Object store, backups | content-addressed files, restore points | a restore is modelled by what it does to the catalog |
| Legacy write serializer, routers, read models, notifications, clients, CLI, QA | thin or replaced by v2 | pure I/O or presentation |

The hazards these parts are exposed to, each at its line and with the property that would catch it, are
the list `hazards` in `PROJECT.json`.

## 2. Plan

The order is that of the path a transcript takes, because each part relies on the promise of the one
before it.

1. **Done.** `HostCatalog` and `CatalogClients`: the catalog under arbitrary clients. `HostProofs`,
   `CatalogProofs`.
2. **Done.** `TranscriptArchive` (abstract), `DurableLane` (composed with `HostCatalog`),
   `DurableLaneRefinement`: one file's lane under races, faults, rotation and restores. `LaneProofs`,
   `LaneRefinementProofs`.
3. **Done.** `ProjectorLedger`, `SearchProjection`: what becomes of a commit; `LedgerProofs`,
   `SearchProofs`.
4. **Done.** `ConsoleTurns` and `ConsoleProofs`: a thread's turns, from the request to the terminal event.
5. **Done.** `InputDelivery` and `InputProofs`: inputs of a live session, the lock, the drain and the command
   operations over a reconnecting channel.
6. *Next.* Pause requests and provider interactions, which use the operations of `InputDelivery`; runner
   dispatch, which has the shape of the control channel.
7. *Later.* Refresh-token rotation; session titles as an instance of the ledger; the agent's scheduler with
   the outbox byte limit (several sources sharing one lane); two search passes at once, once the code
   fences publication by revision.
8. **Done.** What the catalog promises any client, proved of the catalog under the lane and across restores;
   the refinement of `TranscriptArchive` for a source with startup metadata and one sender. *Left:* metadata
   with several senders (section 7), and what a rewound cursor guarantees for acknowledgements given before
   a restore.

## 3. The models and the code

### HostCatalog, CatalogClients

`HostCatalog` has the tables as variables and one action per transaction. `Verdict` is the ladder of checks of
`commit_raw_object`, in its order: tombstone, exact replay, the checks whose data is left out (`screen`:
media, owner, render generation), lineage or epoch mismatch, range. `CommitRawObject` is the whole transaction
of an admitted envelope: the epoch row, closing the predecessor, retiring its rows, the raw row, the render
state and the revisions the projectors are asked for. A commit raises only the projectors its caller names:
the ingest route names search and embeddings when the envelope was rendered and only `render-v2` when the
render is deferred, the legacy migration names none. `Renderings` are these two cases, `Told` the sessions
whose `desired` rises, `unrendered` those whose render state says that something is owed. `desired` is the
revision of search and embeddings; nothing consumes the rows of `render-v2`. `RepairWatermark` is the write a
*refused* request makes: the stored watermark is recomputed before the range is compared, and that stays.
`ContiguousPrefix` says what `_contiguous_range_prefix` computes; `Walk` is the loop itself, a recursive
function over a listing of the rows in `ORDER BY` order (`Listings`), and `WatermarkIsTheWalk` says that on
every listing of an epoch's active rows the loop ends there. The run checks it and `CheckUsesTheWalk` proves
it. `MCCatalogClients` only adds symmetry.

`CatalogClients` lets anyone send any envelope at any time, repeat it and delete any session. What holds
there holds for every version of the agent. Content is a value compared for equality and an envelope id
is the tuple it hashes.

### TranscriptArchive, DurableLane, DurableLaneRefinement

`DurableLane` extends `HostCatalog` with the agent's tables, its senders and their environment. A sender is a
small program counter, and each of its steps is one transaction, one read of the file or one HTTP call:
`FindNothingPending` / `ResumePending` / `DiscardOversized` / `RetireEmptySource`, then `ObserveFirst` /
`ObserveRotation` / `ObserveSame`, `ReadBatch`, `SkipStartupMetadata` or `PersistPrepared`, `PostEnvelope`,
`HostAnswers`, and what the answer leads to (`Acknowledge`, `FetchManifest`, `ResyncBehindHost`,
`ReconcileProvenPrefix`, `BlockRejected`, `BlockConflict`, `ReexamineBlocked`, `EndReexamination`,
`ErrorReturn`). The environment appends to, replaces or truncates the file, binds a session, times a sender
out or kills it (`Abandon`; its request may arrive later), discards a blocked row, deletes a session, and
restores the host from a backup. `HostAnswers` is the ingest route: it first asks for the receipt of the
envelope and returns the one it finds, of a retired row too, and commits only if there is none. A record is
one line of the file, known by its place, the file incarnation and the rewrite that wrote it.

`TranscriptArchive` is what all this promises: one log per epoch, written at its end only and only in
the newest, and a position acknowledged only once the log holds it. `DurableLaneRefinement` maps rows
to logs and cursors to acknowledgements; `ImplementsArchive` is checked as a property and proved.

`ProvenThrough` follows `proven_manifest_prefix`: records are walked while a row of the manifest matches
them (`Matches`, by the envelope id of the sub-range), and a whole document is proven whole or not at all
(`Proven`), since it has one record.

### ProjectorLedger, SearchProjection

`ProjectorLedger` is the `projector_state` table with every operation on it. A row's `until` stands for
`claim_expires_at` and `retry_at`: a clock is an action that ends the wait. `SearchProjection` adds the passes
(`_run_claim` of both projectors), one action per call to catalogd or searchd, and searchd's tables, with one
action per writer transaction. A commit, a retirement or a deletion is seen by what it does to render objects
and the ledger; `HostCatalog` has their other half. A commit may replace any part of the session's objects (a
session has one or several sources). `CommitUnrendered` is a commit without a render: it retires what it
replaces and leaves the ledger alone, so "no lag" speaks of the revision last asked for, not of the newest
commit. A session of which nothing was ever rendered is absent here; deleting it is not modelled. `StepFails`,
`ClaimReplyLost`, `FailureReportLost`, `RestartHost`, `RequeueOne` and `ReplaceStore` are the failures the
code handles.

### ConsoleTurns

One thread of one machine. `turn` and `receipt` are catalogd's rows. What the server process only holds in
memory is a set per kind of task: `due` (a turn a handler was given and has not sent), `recon` (turns the
reconnect task will replay), `pending` (commands awaited), `got` (answers not yet applied). All of it is lost
in `ServerRestart`. The connection has two ends, `registered` and `attached`, because the server notices a
loss later than the agent (`Disconnect`, then `Unregister` or a replacing `Connect`). On the machine, `claim`,
`adapter` and `cancel` are the claim file, `proc` the provider process, and `launch`, `watch` and `cache` the
agent's memory, which `AgentRestart` clears; `outbox` survives it. `unposted` are the turns whose terminal
event the outbox refused. A claim is *torn* if the agent died between creating its file and writing it: a
start command for it is then refused, and no recovery reads any claim.

| Actions | Code |
|---|---|
| `EnqueueConsoleTurn`, `RepeatEnqueue` | `enqueue_console_turn` of a new and of a repeated `client_request_id` |
| `UpdateConsoleTurn` | `update_console_turn`, with the claim of the next turn in the same transaction |
| `DispatchTurn`, `ReplayTurn`, `ApplyAnswer`, `ReplyTimeout`, `LoseAnswer` | `console_turns.py`: dispatch, reconcile on reconnect, and what becomes of the answer |
| `PostTerminal` | the runtime event endpoint on a terminal signal |
| `ReceiveStart`, `RejectStart`, `Evict` | `execute_turn_start`: cache, claim file, refusals |
| `SpawnProvider`, `LaunchFails`, `MarkSpawned` | the launch, step by step, since the agent may die between any two |
| `ProviderExits`, `MonitorPosts`, `MonitorLosesEvent`, `MonitorMarks`, `AgentRestart` | the monitor, `post_terminal` and its unchecked enqueue, `recover_*_print_turns` |

A turn is given its `run_id` once, so the message names its run, its command and its claim file. The model
has two providers: `pi` stands for the adapters whose transport `execute_turn_start` lists, `antigravity` is
the one it does not (section 7).

### InputDelivery

One live session. `status`, `owner` and `created` are columns of the receipts, `op` the operation rows. A
**sender** is a task: a request handler (used once) or a drain attempt. `pc` is the await it is at, `outcome`
what it knows of its command. Handlers and drains share `dispatch_managed_control_command` (`Prepare` to
`FinishOperation`) and `finish_queued_input` (`FinishReceipt`); they differ in the id of their command, in who
releases the lock, and in what they may retry. `created_at` has a resolution of one second, so receipts may
tie, and the drain then takes them in the order of random ids: `NextQueued` is a set.

| Actions | Code |
|---|---|
| `PostChecks`, `PostLocks`, `PostQueues`, `PostRecords`, `PostFails` | `_create_catalog_session_input_response` |
| `CancelInput` | `cancel_input_receipt` |
| `DrainStarts`, `DrainClaims`, `DrainFindsNothing`, `DrainExpires`, `DrainLosesClaim` | `wake_next_live_catalog_input`, `claim_queued_input` |
| `Prepare`, `PrepareFails`, `SendCommand`, `ReplyTimeout`, `CompleteCommand`, `FinishOperation` | the dispatcher and the channel registry |
| `Settle`, `SettleFails`, `SettleExpired` | `finish_queued_input` and the end of the task |
| `WatcherReleases`, `LockExpires`, `LockExpiresInSend` | `_release_catalog_lock_after_terminal`, `SessionLock.is_expired` under a task that has ended, and under a frame that cannot be written |
| `ForceRelease` | `SessionLockManager.release` without a holder: interrupt, terminate, `DELETE /lock` |
| `HandlerTimesOut` | `RequestTimeoutMiddleware` cancels the handler at its await; the call under way may still have its effect |
| `ReceiveCommand`, `ExecuteCommand`, `AgentRestart` | the agent's side |

## 4. Runs

Bounds are chosen so that each question's interesting case needs fewer steps or things than the
bound allows. `commitSeq`, file length and the budgets (`MaxCommits`, `MaxRewrites`, `MaxAbandons`,
`MaxRestores`, ...) bound the state spaces; identifiers are symmetric where they are only compared.

| Run | States | Bounds, and why they are enough | Shows |
|---|---|---|---|
| `host_any_client` | 41,187 | 3 epochs of one source (a chain with a middle), 2 sessions, positions 0..2, 4 commits, each rendered or deferred | no gap, overlap, second live history or visible superseded row; the watermark is the walk and never moves back; every change reaches the projectors of its session or leaves it marked unrendered |
| `host_open_rpc` | 26,762 | 2 sources in one session, 2 payloads (one range with two contents), epochs also opened ahead (`storage.source_epoch.open.v2`), commits refused by the other checks | a source never has two open epochs and an epoch no gap or overlap, although epochs without rows exist |
| `lane_race` | 672,560 | 2 ungated senders, a file of 2 replaced once, one time-out | the lane implements `TranscriptArchive`; no cursor moves back on a host that kept its catalog (this file has no metadata; the theorem covers files that do) |
| `lane_faults` | 78,433 | 1 gated sender, 4 records of which two are metadata (a cursor may pass both before a late request brings the first), a legacy cursor, 2 time-outs, every refusal, a deletion | the lane implements `TranscriptArchive` with metadata skipped and rewound over, archive equals file, the queue starts at the cursor, metadata blocks give way |
| `lane_rotation` | 254,781 | three providers, 3 epochs, replacement, truncation, rebinding | an epoch is one file, and one copy of a document |
| `lane_converges` | 296,544 | 3 records, a time-out, a replacement, a restore | the file ends in the archive; a lost tail is resynchronised |
| `search_projection` | 240,950 | 1 session, a pass of each projector, pages of 1, 2 commits that replace any part of it and may be unrendered, a removal, one fault of any kind | whole snapshots, vectors of what is served, no lag means served and embedded at the revision last asked for, lag drains; no deadlock |
| `console_turns` | 2,606,940 | 2 messages (an owner and a waiter), any 2 faults, retries or interventions | one owner, a queue that always has one, one process per message, delivered means started, outcomes final, the end of a turn on its way unless its event was refused or a claim is torn |
| `input_delivery` | 967,280 | 2 inputs, 2 handlers, 1 drain, the 3 intents, a queue of 1, any 2 faults (forced releases, stuck sends and request time-outs included); both handlers may send the same input | at most one injection of an input sent once, queued means unsent, delivered means injected, the queue drains |

In `console_turns` two faults cover a loss and the repetition that answers it (a time-out and a repeated
request, a lost answer and a restart); in `input_delivery` they let the lock expire or be taken away, be taken
again and be released by the old watcher, or a claim be lost and its owner restart. The queue of one makes the
soft limit of queued inputs bite. The theorems of section 6 have
neither bound. Both systems may stop (every message ended, every input settled), so deadlock is not checked.

Sessions do not share a row of the ledger or of searchd, so one session is enough for the search run.
With `PageSize` 1, two commits make a listing of more than one page. One fault of each kind is enough to
meet each recovery path; two time-outs in `lane_faults` let a late request meet a second retry.

In `lane_rotation` and the other lane runs `SteadyFile` says the file is not swapped between the agent's
`stat` and its read, a window of the code that no later check closes (`EpochNamesOneFile` fails without
the assumption, the properties of `lane_race` hold without it, on 1.4 million states); `SafeReplace` (only in
`lane_converges`) says the file is replaced once it is drained, since section 7 shows that a lane whose
first epoch shipped nothing may stay blocked. Deadlock is not checked where the system may stop: clients that
have sent everything, a lane that has nothing to ship.

The remaining three runs each refute a statement the repository makes about itself; see section 7.

Every property of a passing run is shown to depend on the code: for each, `PROJECT.json` names a
variant of a modelled definition (a dropped guard, a missing reset, a wrong comparison; the definitions
marked *Mutant*) under which TLC finds the property violated.

## 5. Fairness

- `DurableLane!FairSpec`: weak fairness of each sender's steps. The daemon polls due rows and watched
  paths for ever, and every HTTP call ends with an answer or a time-out. Nothing is assumed of providers,
  operators, late requests or backups. Weak fairness of the whole sender does not favour any branch of it.
- `SearchProjection!FairSpec`: weak fairness of each worker loop (`run_once` in a `while` loop that survives its
  exceptions; every call ends) and of the clock of each ledger row.
- `InputDelivery!FairSpec`: weak fairness of each handler and of each drain as a whole, whichever branch it
  takes (each await ends with a result or a time-out; a frame that cannot be written ends when its connection
  breaks), of a drain's watcher (300 s at most), of the lock's expiry, of the agent's reconnect loop and of
  the recovery loop that wakes the drain every five seconds; strong fairness of a drain's claim, because the
  session is quiescent again and again and a drain that keeps looking finds it so. Nothing is assumed of the
  machine while it is away, of users, or of catalogd's replies beyond `MaxFaults`.
- `ConsoleTurns` has no liveness run: an unknown outcome waits for a reconnect or for the client's own
  retry, which the code does not force. `QueueHasOwner` and `EndIsReported` are the safety halves.

Failures are bounded in number, never forced. `Converges`, `LagDrains`, `QueueDrains` and the other liveness
properties say what happens after the last of them.

## 6. Proofs

Eight modules of theorems, each checked to the last leaf. Every theorem holds for all values of the
constants within the named assumptions: any number of epochs, senders, records, sessions, passes,
messages, inputs and faults. Each inductive invariant below was first checked with TLC on the instances of
section 4.

| Module | Obligations | About |
|---|---|---|
| `HostProofs` | 1237 | what each catalog transaction does to `HostInv`, to readers and to projectors, and what the loop over the rows finds; used by the next three |
| `CatalogProofs` | 160 | `CatalogClients!Spec` |
| `LaneProofs` | 1343 | `DurableLane!Spec`: tables, files and archive |
| `LaneRefinementProofs` | 2169 | `DurableLane!Spec`: acknowledgements, cursors, refinement, the catalog under the lane |
| `LedgerProofs` | 330 | `ProjectorLedger!LedgerSpec` |
| `SearchProofs` | 3097 | `SearchProjection!Spec` |
| `ConsoleProofs` | 768 | `ConsoleTurns!Spec` |
| `InputProofs` | 1206 | `InputDelivery!Spec` |

### Catalog

| Theorem | States |
|---|---|
| `HostTyping` | type correctness |
| `ArchiveIsContiguous` | `ContiguousArchive` |
| `SourceHasOneOpenEpoch` | `OneOpenEpoch` |
| `LineageForms` | `LineageIsAChain` |
| `ReadersSeeLiveRows` | `ActiveRowsAreLive`, if epochs are only opened by their first envelope |
| `CheckUsesTheWalk` | `WatermarkIsTheWalk`: on every listing of an epoch's active rows, the loop ends at the position the host compares the next envelope with |
| `ArchiveGrows` | `Grows`: no step moves a watermark back, drops or revives a row, changes a closed epoch |
| `OneSourceIsProjected` | `ChangeIsProjected` of each session all of whose rows came from one source: a step that changes what its readers see asks its projectors to follow, or leaves it marked unrendered, or empties a session nobody was ever asked to project |
| `ChangesReachProjectors` | `Projected`, on a host that archives one source |

Assumptions: `HostAssumption` (`None` is not an epoch) and `ClientsAssumption` (bounds are naturals, the
outcomes of omitted checks are not called "created" or "replay").

*The argument.* `ContiguousArchive` is about all rows of an epoch, while `commit_raw_object` compares a
request with the rows that are **not retired**, and with `object_count`. `HostInv` therefore adds what makes
the two agree: rows of an epoch belong to one session (`OneSession`), a row is
retired only with its epoch or its session (`RetiredWithCause`), so an open epoch of a live session has no
retired row; `Counted` and `NoRowsNoWatermark` tie `object_count` and the watermark to the rows, and `Based`
gives an epoch a first row and one that ends at the watermark. Lemma `PrefixOfGapFree` then shows that the
recomputed prefix of gap-free rows is the stored watermark (`WatermarkIsComputed`), so an admitted range
starts exactly there, and the repair of a refused request writes what was there (`RepairKeepsInv`).

`CheckUsesTheWalk` is about the loop. The library's induction principles take an operator as parameter, which
the provers cannot instantiate, so the walk lemmas of `HostProofs` argue by a least counterexample:
`LeastMember` picks the first row after which the loop is not at that row's end, and
`NeighboursMeet` (neighbours in a listing of gap-free, disjoint rows touch) refutes it.
`RetiredTogether` says the rows of an epoch are retired all or none, so the listing of active rows is a
listing of all rows or empty, and `RowsAreListable` that they are finitely many, so that a listing exists.

`ReadersSeeLiveRows` needs `~ExplicitOpen`: `open_source_epoch` closes a predecessor without retiring its
rows. That RPC has no caller in production code. `OneSourceIsProjected` uses it: active rows are of open
epochs and a source has one, so a session with one source that loses a row loses all of them, which is the
case the code tells projectors of; section 7 has the other one. A commit into the session itself either tells
its projectors or, its render deferred, leaves the session in `unrendered`. `DesiredIsPast` (no revision was
asked for that is not committed yet) makes every telling a raise.

### Durable lane

| Theorem | States |
|---|---|
| `LaneTyping` | `LaneTypeOK` |
| `ArchiveIsTheTranscript` | `ArchiveMatchesFile` |
| `EpochsNameOneFile` | `EpochNamesOneFile` |
| `OneDocument` | `OneDocumentPerEpoch` |
| `AcknowledgedIsArchived` | `AckedIsArchived` |
| `AttemptsAreKept` | `AttemptedIsKept` |
| `RewindsNeedARestore` | `RewindNeedsRestore` |
| `OneSenderStartsAtCursor` | `PendingStartsAtCursor` |
| `RefinesUntilRestored` | on a host that may be restored, every step before the first restore refines `TranscriptArchive`, for the sources and senders of the next row |
| `LaneImplementsArchive` | `ImplementsArchive`, if the host is not restored: any number of senders for a source without startup metadata, one sender for any source |
| `LaneIsAClient` | on the catalog's tables every step of the lane is a request some sender carries or carried, a deletion, a restore, or nothing |
| `LaneKeepsCatalog` | `ContiguousArchive`, `OneOpenEpoch`, `LineageIsAChain`, `ActiveRowsAreLive`, `WatermarkIsTheWalk` under the lane, after a restore as before it |
| `LaneTellsProjectors` | every step but a restore keeps what the archive holds and is `ChangeIsProjected` of every session: projectors are told or the session is marked unrendered |

Assumption: `LaneAssumption` (one source, known providers, batches of at least one record, bounds are
naturals, epochs opened by their first envelope).

*The argument.* `LaneInv` has one part per table, `HostInv` for the catalog and for the restore point, and
`PiecesOK`, which does the work: every envelope the agent holds anywhere (outbox, senders, late requests)
and every row of the host or of a restore point is a **piece** of a registered epoch, that is, a range with
as many records as it is long, all of the file incarnation the epoch was registered for, and equal to what
that file still holds there. Suffixes, retries, late requests and restores only ever move pieces, so the
first four theorems are read off. For a whole document a proven prefix is nothing or everything, which keeps
pieces at 0 and the epoch at one row.

`AckInv` follows the evidence for an acknowledgement: a receipt in a sender's hands, and a manifest's proven
prefix however old, are archived, because the archive only grows; so moving a cursor over them is safe.
`WatermarkInv` says no cursor of a source without metadata is ahead of the host, every envelope starts at or
below its cursor, and exactly at it while the host does not know the epoch; so the host is never *behind*
and `resync_behind_host` rewinds nothing. With metadata a cursor may be ahead, and `GapInv` says what lies
between: all below an envelope is archived or exempt, and what lies between the watermark of a manifest,
however old, and the start of the envelope its sender holds is exempt: startup metadata, which the lane may
skip. A rewind goes to that watermark, and finds the envelope queued, for any number of senders
(`RewindsNeedARestore`).

`OneSenderInv` is `PendingStartsAtCursor` with what a batch in preparation knows. With one sender the queued
envelope starts at the cursor, so a rewind drops no acknowledgement of a record the archive must hold. The
refinement maps rows to logs and acknowledgements to the non-exempt positions below the cursor; `LogsOK` says
that the logs are intervals that hold what the rows hold, an admitted envelope is then `Begin` or `Extend` of
the abstract specification, a cursor step is `Acknowledge`, and all else stutters.

`LaneIsAClient` is what makes the lane and the catalog one system: the lemmas of `HostProofs` about an
operation are applied to the requests the lane makes of it. `ViewInv` states the facts `LaneKeepsCatalog`
reads (`ReadersInv`, `RowsAreListable`, `RetiredTogether`, `DesiredIsPast`) of the catalog **and of the
restore point**, so that a restore leads back to a state in which they hold. `LaneTellsProjectors` excludes
the restore step itself, which puts back the rows and the projectors' revisions of an older catalog.

### Projector ledger and search

| Theorem | States |
|---|---|
| `LedgerCoverage` | `CoverageIsBounded`, of any workers: completed ≤ wanted ≤ `commit_seq`, a claim has a token and promises progress |
| `CompletionIsFenced` | `ProgressIsFenced`: completed moves forward only to the revision of the claim in force, back only to nothing |
| `ProjectionImplementsLedger` | `Spec => LedgerSpec`: passes, searchd and environment use the ledger only as it allows |
| `PassesKeepTheLedger` | `CoverageIsBounded` and `ProgressIsFenced` of the passes |
| `SearchServesSnapshots` | `ServedIsASnapshot`, any number of passes at a time |
| `VectorsFollowText` | `EmbeddingsFollowServed`, any number of passes at a time |
| `LaglessIsServed` | `NoLagIsServed`, if no two passes of a projector work on one session |
| `LaglessIsEmbedded` | `NoLagIsEmbedded`, if no two passes of a projector work on one session |
| `OnlyEmbeddingBreaksIt` | `SearchRowIsCertificate`, if no two passes of a projector work on one session, of behaviours in which no embedding pass sends `search.session.delete.v2` |

Assumptions: `LedgerAssumption` (`None` is none of the values it stands beside) and `SearchAssumption` (pages of at
least one object, a slot belongs to one projector, as many databases as faults, and a token left when every
slot and row holds one: tokens are `uuid4`).

*The argument.* Each kind of row update keeps the bounds of a row, and an embedding claim is bounded because
search's completed revision is. A pass takes a token nobody uses (`TokenIsFresh`, by counting), which is what
makes its claim a claim of `LedgerSpec`. `SearchInv` relates three things read at
different times. A pass has listed a lower part of *the snapshot at its revision*, and all of it once
there is no further page (`ListsOK`); a snapshot at a past revision never changes, since commits add objects with
higher ids and retirement is stamped with a later revision; so what `publish_generation` accepts, the whole
listing, is a snapshot (`ServedOK`). None of this uses the number of passes.

`OnePassInv` is about what "no lag" means, and needs `OnePassPerSession`: passes of one projector that run
together are of different sessions, and none of them binds a database while another works. `run_once` of one
worker guarantees it whatever the size of its batch (four by default for embeddings): it binds, claims a batch
of different sessions and awaits all their passes before it starts over. The theorems assume it of the
behaviour, for any number of slots. Then a pass works ahead of the completed revision (`PassAhead`), a search
pass is never behind an embedding pass or what is embedded (`PassLeads`), a pass on the revision still wanted
has not seen the session go (`PassSeesReady`), a deleting pass is of a session that is gone or came back
(`DeletesTheGone`), and a pass about to complete has left its result in the bound database
(`CompletesWhatItServed`, `CompletesWhatItEmbedded`), even if the database, the binding or the session changed
since. With two search passes on one session `PassAhead` fails, and with it `NoLagIsServed` (section 7). A
commit without a render changes no snapshot up to the revision asked for (`UntoldFacts`, `SnapshotStays`), so
it disturbs none of this.

`OnlyEmbeddingBreaksIt` isolates the cause of the finding `doc_search_certificate`: take the embedding pass's
delete away and the documented certificate holds of every session, those that were retired and came back
included. `GoneIsEmpty` says that retiring and deleting leave nothing at the revision they ask for.
`CertificateInv` drops the exception for returned sessions from three parts of `OnePassInv`: a search pass
about to remove a session on the revision still wanted is right (`DeletesTheMissing`), one about to complete
left the session served or it holds nothing (`CompletesWhatIsThere`), and so does a row without lag
(`ThereWhenNoLag`). A search pass that deletes a session written again meanwhile is on an old revision, so lag
is left; an embedding pass that does the same leaves none, as its delete is not counted in search's row. The
theorem's hypothesis is satisfiable, also with embedding passes: TLC checked the conclusion on 2,779,167
states under it.

### Console turns and inputs

`ConsoleProofs` proves about `ConsoleTurns!Spec`, for any set of messages and any number of
faults:

| Theorem | States |
|---|---|
| `ConsoleTyping` | type correctness |
| `ThreadHasOneOwner` | `OneOwner` |
| `QueueIsNeverStranded` | `QueueHasOwner` |
| `ProviderStartsOnce` | `SpawnedOnce` |
| `DeliveryIsReal` | `DeliveredRan` |
| `OutcomesAreFinal` | `OutcomeIsFinal` |
| `QueueIsFifo` | `StartsInOrder`: of two turns that wait together, the earlier stamp starts first |
| `TurnEndIsReported` | `EndIsReported`, if `Provider = "pi"`: an active turn is watched or its end is in the outbox, unless the outbox refused it or a claim is torn |

Assumption: `ConsoleAssumption` (stamps are naturals, the provider is one of the two). *The argument.* The
server believes answers, and an answer is true because the claim file is. `MachineInv` says what a claim file
tells of the process (`ClaimTellsLaunch`: no process without a claim, none before the launch forked it;
`ClaimTellsWatch`: a monitor belongs to a spawned claim). `VouchedIsLive` follows every "ok" from the cache
over the wire to the task that holds it, and says the process was started; `WaitingIsUntouched` says a queued
turn left no trace in any task, frame or file, which is what makes its first claim fresh. `OneOwner` and
`QueueHasOwner` are inductive only together, since claiming the next turn relies on the ending one being the only
owner; the oldest queued turn exists by well-foundedness of the naturals. The last theorem adds
`LiveIsReported`, which needs the adapter in the claim to be the provider's own.

`InputProofs` proves about `InputDelivery!Spec`, for any number of inputs, handlers, drains
and faults:

| Theorem | States |
|---|---|
| `InputTyping` | type correctness |
| `SendersDoNotOverlap` | `OneSender`, of behaviours in which nobody takes the lock from a dispatch (`LocksAreKept`) |
| `DeliveredMeansInjected` | `DeliveredIsInjected` |
| `QueuedInputsAreUnsent` | `QueuedIsUnsent` |
| `InputsInjectedAtMostOnce` | `AtMostOnce` |

Assumption: `InputAssumption` (ids are positive numbers, handlers are neither inputs nor drains, inputs are
finitely many). *The argument.* `JobsKnown` gives every attempt and every command in flight its input.
`LockIsHeld` says who needs the lock has it and that no watcher works for a task that still does, so a late
release or an expiry after the task frees no lock in use; only a release without a holder and a send that
outlasts the lock do, which `LocksAreKept` excludes. The other theorems do without it. `AnswersAreTrue`
carries "ok" from the machine to the receipt. `AtMostOnce` itself is far from inductive; `DeliveryInv` is: for
an input posted once, an attempt owns the receipt while it lasts, an attempt that has not sent (`Fresh`) and a
receipt in the queue mean that nothing was sent (`Unsent`), the receipt has no row while its handler is on its
way (`Arriving`), and at most one command carries the input, and none after it was injected.

### Only model-checked

Liveness (`Converges`, `GapsAreResynced`, `EmptyBlocksAreRetired`, `LagDrains`, `QueueDrains`) needs fairness
and ENABLED, which this prover does not reason about. Every invariant, action property and refinement of a
passing run is a theorem, within the assumptions its table names.

## 7. Where code and words disagree

Each has a run whose counterexample is the evidence.

| Run | The code | The words |
|---|---|---|
| `doc_search_certificate` | an embedding pass that saw a session retired deletes it after the search pass republished it; nothing is left to do (`embeddings_v2_projector.py:184`) | "a search row is the durable certificate that this session has entered the served corpus" |
| `doc_antigravity` | the claim of an Antigravity turn is rewritten to `codex_exec` (`control_channel.rs:1867`), so its own recovery skips it after a restart and the turn stays active | "Without this an engine restart strands every in-flight claim non-terminal: the session shows a turn that never ends" (`antigravity_print.rs:223`) |
| `doc_send_lock` | interrupt, terminate and `DELETE /lock` release without a holder, which frees the lock of a task in the middle of a dispatch (`session_chat.py:596`, `session_locks.py:72`); another input is then dispatched beside it | "Per-session locks prevent concurrent send collisions" (`session_chat.py:4`); only the docstring of `DELETE /lock` warns |

`NoLagIsServed`, `NoLagIsEmbedded` and `LagDrains` state what remains true beside `doc_search_certificate`:
they make an exception for a session that was retired and came back, and only for that.
`OnlyEmbeddingBreaksIt` shows that the embedding pass's delete is the only cause.

Seen while modelling or proving, without a run of its own:

- A session that loses the rows of one of two sources to another session keeps its old `desired_revision`,
  since projectors are told only `if has_active_raw is None` (`store.py:6853`); search goes on showing the
  retired rows until something else touches the session. No document promises otherwise.
- A commit whose render was deferred asks only `render-v2` to follow (`agents_storage_v2.py:1124`), and no
  worker consumes those rows. If its epoch replaces another, the old render objects are retired and search
  keeps serving the revision last asked for. A later envelope with a render sets the session to "ready" again,
  although the deferred one never got its render object: `unrendered` is a mark of the session, not of the
  envelope, in the code as in the model.
- `post_terminal` marks the claim terminal although `post_events` may have logged and dropped the event
  (`pi_print.rs:615`, `:712`): the turn stays active. A claim file torn by a crash (`turn_claims.rs:150`)
  makes `list_all` fail, and no claim of any adapter is adopted after the restart (`control_channel.rs:643`).
  `EndIsReported` names both.
- A handler cut off by the request time-out (`request_timeout.py:208`) leaves its lock to expire and its receipt
  `delivering`.

- A cursor of a Claude file can move back although the host lost nothing: an envelope of startup metadata
  times out and is given up, the cursor passes over it and over a second one, and the late request is then
  admitted; the watermark lies below the cursor and the next conflict resynchronises to it. Harmless (the
  records are skipped again): `RewindNeedsRestore` says that an envelope is queued and that everything between
  the rewound cursor and that envelope is a record the lane may skip. The refinement is proved with metadata
  for one sender. With more it can fail in principle: a sender decides to rewind on an old manifest, a second
  ships and acknowledges the envelope, a third persists the same one again, and the rewind then takes the
  acknowledgement back.
- `NoLagIsEmbedded` does not depend on search being without lag: the proof shows it of the embedding row alone.
- After a restore older than an epoch, that epoch is admitted again from the middle (`store.py:6704`), although
  a base is said to be "a proven legacy cursor".
- An envelope persisted after another sender acknowledged its range is receipted and then refused by the
  cursor for ever (`pending_source_envelope.rs:353`); the header calls the row the retry authority until the
  host "returns its exact receipt".
- A successor of an epoch that never shipped is refused and stays blocked for providers other than Cursor
  (`storage_v2_shipper.rs:830`), "the absorbing state this whole area exists to avoid".
- A start command whose outcome is unknown can still be failed: `turn_start_ambiguous` on a replay, or
  `adapter_unavailable` when the client repeats its request while the machine is away. The next turn is then
  dispatched beside a process that may be running. `console_turns.py` says: "Keep the FIFO blocked until
  runtime truth or an idempotent retry of this same run_id resolves the outcome". `OneOwner` is about rows.
- An input sent in two requests may be injected twice: the second passes the receipt check before the first
  has recorded its receipt, or after an unknown outcome was settled as failed. `AtMostOnce` is about inputs sent
  in one request. "Dropping a message is bad; delivering it twice is worse" (`live_control_catalog.py:465`).
- Cancelling or expiring the receipt of a queued Console message does not stop its turn.
- Inputs queued within one second are delivered in the order of random ids (`created_at` defaults to
  `CURRENT_TIMESTAMP`).
- A receipt whose settling call failed, or whose claim's reply was lost, stays `delivering` for ever
  (`store.py:4421`); a start command answered after its time-out leaves the turn `starting` until the machine
  reconnects (`machine_control_channel.py:310`).
- A blocked row keeps a rotated file from being observed (`storage_v2_shipper.rs:1072`), and a resync is
  judged against the file of the *active* epoch (`:1060`).
- A host that lost the tail of an epoch is only found out when a further record is shipped
  (`GapsAreResynced` is conditional for that reason).
- `publish_generation` accepts an older revision after a newer one. Two search passes on one session
  (more than one worker, or passes left over by a failed gather) can republish a deleted session or an old
  revision, although the ledger refuses the older pass's completion. `NoLagIsServed` fails with two search
  slots on one session; the run has one, as with the default of `LONGHOUSE_SEARCH_PROJECTOR_WORKERS`.
- `embeddings_v2_projector.py:109` says partial work is released without raising the failure count, while
  `fail_projector_claim` always raises it.

## 8. What is not modelled

- *Catalog*: display columns, render and media rows (a deferred render is modelled by whom it tells), the
  `media_refs_hash` part of a replay.
- *Lane*: the `storage_target_changed` block, Antigravity's settling wait, the ordinal sources (Cursor and
  OpenCode databases), the outbox byte limit (a sum over all sources).
- *Search*: the semantic-v2 projector, the alignment of ledger rows at start-up
  (`ensure_known_projector_states`), `advance_projector_state` (no caller), render generations after the
  first, vectors chunk by chunk, queries and ranking, visibility columns, the deletion of benchmark
  sessions by the embedding projector.
- *Console turns*: a failure of `mark_terminal` itself, which it ignores (`turn_claims.rs:390`); the
  pre-catalog path, the launch and reuse of the session itself, the `codex_exec` adapter, cached results of
  interrupts, claim writes of two processes at once.
- *Inputs*: attachments, replies to pause requests, malformed results, archive projection, the pre-catalog path
  (`session_inputs.py`, `session_input_queue.py`); the soft limit on queued inputs is a guard, which two
  handlers may pass together as in the code.
- *Control channel*: `prepare_machine_operation` and `machine_control_operations.py`, heartbeats, the
  archive-backlog and live-proof commands.
- The parts of the table in section 1, with the reasons given in `PROJECT.json`.

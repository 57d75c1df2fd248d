------------------------ MODULE LaneRefinementProofs ------------------------
(***************************************************************************)
(* Theorems about DurableLane that relate its durable cursors to the       *)
(* host's archive, and with them that the lane implements                  *)
(* TranscriptArchive.  LaneProofs shows that tables, envelopes and rows    *)
(* are well-formed; everything here rests on it.                           *)
(***************************************************************************)
EXTENDS DurableLaneRefinement, LaneProofs

-----------------------------------------------------------------------------
(* What a step can do to the cursors, the outbox and the senders.          *)

\* The steps that move a cursor or register an epoch.
MovesCursor(w) ==
    \/ ObserveFirst(w) \/ ObserveRotation(w)
    \/ SkipStartupMetadata(w)
    \/ \E limit \in {LiveBatch, MaxBatch}, e \in Epochs : RetireEmptySource(w, e, limit)
    \/ Acknowledge(w) \/ ResyncBehindHost(w) \/ ReconcileProvenPrefix(w)

\* All others leave the cursors as they are.
LEMMA CursorSteps ==
    ASSUME [Next]_vars, \A w \in Senders : ~MovesCursor(w)
    PROVE  cursor' = cursor /\ (registry' = registry \/ \E w \in Senders : ObserveSame(w))
<1>1. ASSUME NEW w \in Senders, Prepare(w)
      PROVE  cursor' = cursor /\ (registry' = registry \/ ObserveSame(w))
    BY <1>1 DEF Prepare, MovesCursor, FindNothingPending, ResumePending, DiscardOversized,
                ObserveSame, ReadBatch, PersistPrepared
<1>2. ASSUME NEW w \in Senders, Ship(w) PROVE UNCHANGED <<cursor, registry>>
    BY <1>2 DEF Ship, MovesCursor, PostEnvelope, ReexamineBlocked, HostAnswers, BlockRejected,
                FetchManifest, BlockConflict, EndReexamination, ErrorReturn
<1>3. CASE Environment
    BY <1>3 DEF Environment, AppendRecord, ReplaceFile, TruncateFile, BindSession, DeleteSession,
                Abandon, DiscardUngated, LateArrival, OperatorDiscard, TakeRestorePoint, RestoreHost
<1>4. CASE UNCHANGED vars
    BY <1>4 DEF vars, laneVars
<1>5. QED BY <1>1, <1>2, <1>3, <1>4 DEF Next

\* The epoch an observation registers is a new one.
LEMMA FreshEpochFacts ==
    ASSUME LaneInv, NEW w \in Senders, ObserveFirst(w) \/ ObserveRotation(w)
    PROVE  /\ FreshEpoch \in Epochs /\ FreshEpoch \notin Registered
           /\ \E p \in Epochs \cup {None}, b \in Sessions \cup {None}, n \in Nat :
                 /\ registry' = With(registry, FreshEpoch, EpochOpened(p, b))
                 /\ cursor' = With(cursor, FreshEpoch, n)
                 /\ n = 0 \/ (p = None /\ n = LegacyPosition)
           /\ UNCHANGED <<hostVars, file, pending, late>>
           /\ \E x : Become(w, Observed(w, FreshEpoch, x))
<1>1. sender[w].pc = "scan"
    BY DEF ObserveFirst, ObserveRotation
<1>2. sender[w].bound \in Sessions \cup {None} /\ LegacyPosition \in Nat
    BY <1>1, ObservationFacts
<1>3. \E e \in Epochs : e \notin Registered
    <2>1. CASE ObserveFirst(w)
        BY <2>1, LaneAssumption DEF ObserveFirst, LaneInv, RegistryOK
    <2>2. CASE ObserveRotation(w)
        BY <2>2 DEF ObserveRotation, LaneInv, RegistryOK
    <2>3. QED BY <2>1, <2>2
<1>4. FreshEpoch \in Epochs /\ FreshEpoch \notin Registered
    BY <1>3 DEF FreshEpoch
<1>5. active \in Epochs \cup {None}
    BY DEF LaneInv, RegistryOK
<1>6. QED BY <1>2, <1>4, <1>5 DEF ObserveFirst, ObserveRotation

\* The registry only grows, and the incarnation and the predecessor of an epoch
\* never change.  The provider of a path never does.
LEMMA RegistryGrows ==
    ASSUME LaneInv, [Next]_vars
    PROVE  /\ Registered \subseteq Registered'
           /\ \A e \in Registered : /\ registry'[e].inc = registry[e].inc
                                    /\ registry'[e].pred = registry[e].pred
           /\ file'.provider = file.provider
<1>1. registry \in [Registered -> EpochRecord]
    BY DEF LaneInv, RegistryOK
<1>2. ASSUME registry' = registry \/ \E w \in Senders : ObserveSame(w)
      PROVE  /\ Registered \subseteq Registered'
             /\ \A e \in Registered : /\ registry'[e].inc = registry[e].inc
                                      /\ registry'[e].pred = registry[e].pred
    <2>1. CASE registry' = registry
        BY <2>1 DEF Registered
    <2>2. ASSUME NEW w \in Senders, ObserveSame(w)
          PROVE  /\ Registered \subseteq Registered'
                 /\ \A e \in Registered : /\ registry'[e].inc = registry[e].inc
                                          /\ registry'[e].pred = registry[e].pred
        <3> DEFINE row == [registry[active] EXCEPT
                       !.maxLen = IF SourceLen > @ THEN SourceLen ELSE @,
                       !.revision = IF Revision # None THEN Revision ELSE @,
                       !.bound = IF sender[w].bound # None THEN sender[w].bound ELSE @]
        <3>1. active \in Registered /\ registry' = [registry EXCEPT ![active] = row]
            BY <2>2 DEF ObserveSame, LaneInv, RegistryOK
        <3>2. row.inc = registry[active].inc /\ row.pred = registry[active].pred
            BY <1>1, <3>1 DEF EpochRecord
        <3> HIDE DEF row
        <3>3. QED BY <1>1, <3>1, <3>2 DEF Registered
    <2>3. QED BY <1>2, <2>1, <2>2
<1>3. ASSUME NEW w \in Senders, MovesCursor(w)
      PROVE  /\ Registered \subseteq Registered'
             /\ \A e \in Registered : /\ registry'[e].inc = registry[e].inc
                                      /\ registry'[e].pred = registry[e].pred
             /\ file' = file
    <2>1. CASE ObserveFirst(w) \/ ObserveRotation(w)
        BY <2>1, FreshEpochFacts DEF With, Registered
    <2>2. CASE ~(ObserveFirst(w) \/ ObserveRotation(w))
        BY <1>3, <2>2 DEF MovesCursor, SkipStartupMetadata, RetireEmptySource, Acknowledge,
                          ResyncBehindHost, ReconcileProvenPrefix, Registered
    <2>3. QED BY <2>1, <2>2
<1>4. file'.provider = file.provider
    <2>1. file \in [provider : Providers, inc : Nat, rewrites : Nat, data : Seq(Record)]
        BY DEF LaneInv, FileOK
    <2>2. ASSUME NEW w \in Senders, Prepare(w) PROVE file' = file
        BY <2>2 DEF Prepare, FindNothingPending, ResumePending, DiscardOversized,
                    RetireEmptySource, ObserveFirst, ObserveRotation, ObserveSame, ReadBatch,
                    SkipStartupMetadata, PersistPrepared
    <2>3. ASSUME NEW w \in Senders, Ship(w) PROVE file' = file
        BY <2>3 DEF Ship, PostEnvelope, ReexamineBlocked, HostAnswers, Acknowledge, BlockRejected,
                    FetchManifest, ResyncBehindHost, ReconcileProvenPrefix, BlockConflict,
                    EndReexamination, ErrorReturn
    <2>4. ASSUME Environment PROVE file'.provider = file.provider
        <3>1. CASE AppendRecord \/ \E n \in 0 .. MaxLen : ReplaceFile(n) \/ TruncateFile(n)
            BY <2>1, <3>1 DEF AppendRecord, ReplaceFile, TruncateFile
        <3>2. CASE ~(AppendRecord \/ \E n \in 0 .. MaxLen : ReplaceFile(n) \/ TruncateFile(n))
            BY <2>4, <3>2 DEF Environment, BindSession, DeleteSession, Abandon, DiscardUngated,
                    LateArrival, OperatorDiscard, TakeRestorePoint, RestoreHost
        <3>3. QED BY <3>1, <3>2
    <2>5. CASE UNCHANGED vars
        BY <2>5 DEF vars, laneVars
    <2>6. QED BY <2>2, <2>3, <2>4, <2>5 DEF Next
<1>5. QED BY <1>2, <1>3, <1>4, CursorSteps

\* A host that is not restored only adds to its archive.
LEMMA HostGrows ==
    ASSUME LaneInv, [Next]_vars, NeverRestored'
    PROVE  /\ NeverRestored
           /\ ArchiveOnlyGrows
<1>1. ASSUME NEW w \in Senders, NEW screen \in Screens, HostAnswers(w, screen)
      PROVE  ArchiveOnlyGrows
    <2>1. sender[w].env \in Carried
        BY <1>1, CarriedFacts DEF HostAnswers, Carrying, Waiting
    <2>2. IsRequest(sender[w].env)
        BY <2>1, CarriedIsRequest
    <2>3. QED BY <1>1, <2>2, IngestGrows, ScreensAreRefusals, StutterGrows DEF HostAnswers, LaneInv
<1>2. ASSUME NEW env \in late, NEW screen \in Screens, LateArrival(env, screen)
      PROVE  ArchiveOnlyGrows
    <2>1. IsRequest(env)
        BY CarriedIsRequest DEF Carried
    <2>2. QED BY <1>2, <2>1, IngestGrows, ScreensAreRefusals, StutterGrows DEF LateArrival, LaneInv
<1>3. ASSUME NEW s \in Sessions, DeleteSession(s)
      PROVE  ArchiveOnlyGrows
    <2>1. \A f \in Known : epochs[f].accepted \in Nat
        BY DEF LaneInv, HostInv, HostTypeOK, EpochRow
    <2>2. QED BY <1>3, <2>1 DEF DeleteSession, DeleteStorageSession, ArchiveOnlyGrows, Known
<1>4. budget \in [binds : Nat, deletes : Nat, restores : Nat, abandons : Nat]
      /\ budget.restores <= MaxRestores /\ MaxRestores \in Nat
    BY LaneAssumption DEF LaneInv, BudgetOK
<1>5. ~RestoreHost
    BY <1>4 DEF RestoreHost, NeverRestored
<1>6. ASSUME NEW w \in Senders, Prepare(w) PROVE UNCHANGED <<hostVars, budget>>
    BY <1>6 DEF Prepare, FindNothingPending, ResumePending, DiscardOversized,
                RetireEmptySource, ObserveFirst, ObserveRotation, ObserveSame, ReadBatch,
                SkipStartupMetadata, PersistPrepared
<1>7. ASSUME NEW w \in Senders, Ship(w) PROVE budget' = budget /\ ArchiveOnlyGrows
    <2>1. CASE \E screen \in Screens : HostAnswers(w, screen)
        BY <1>1, <2>1 DEF HostAnswers
    <2>2. CASE ~\E screen \in Screens : HostAnswers(w, screen)
        <3>1. UNCHANGED <<hostVars, budget>>
            BY <1>7, <2>2 DEF Ship, PostEnvelope, ReexamineBlocked, Acknowledge, BlockRejected,
                    FetchManifest, ResyncBehindHost, ReconcileProvenPrefix, BlockConflict,
                    EndReexamination, ErrorReturn
        <3>2. QED BY <3>1, StutterGrows DEF LaneInv
    <2>3. QED BY <2>1, <2>2
<1>8. ASSUME Environment PROVE budget'.restores = budget.restores /\ ArchiveOnlyGrows
    <2>1. CASE \E env \in late, screen \in Screens : LateArrival(env, screen)
        BY <1>2, <2>1 DEF LateArrival
    <2>2. CASE \E s \in Sessions : DeleteSession(s)
        BY <1>3, <1>4, <2>2 DEF DeleteSession
    <2>3. CASE \/ AppendRecord
               \/ \E n \in 0 .. MaxLen : ReplaceFile(n) \/ TruncateFile(n)
               \/ \E s \in Sessions : BindSession(s)
               \/ \E w \in Senders : Abandon(w) \/ DiscardUngated(w)
               \/ \E e \in Epochs : OperatorDiscard(e)
               \/ TakeRestorePoint
        <3>1. UNCHANGED hostVars /\ budget'.restores = budget.restores
            BY <1>4, <2>3 DEF AppendRecord, ReplaceFile, TruncateFile, BindSession,
                    Abandon, DiscardUngated, OperatorDiscard, TakeRestorePoint
        <3>2. QED BY <3>1, StutterGrows DEF LaneInv
    <2>4. QED BY <1>5, <1>8, <2>1, <2>2, <2>3 DEF Environment
<1>9. CASE UNCHANGED vars
    BY <1>9, StutterGrows DEF vars, laneVars, LaneInv, NeverRestored
<1>10. QED BY <1>6, <1>7, <1>8, <1>9, StutterGrows DEF Next, LaneInv, NeverRestored

\* A sender comes to a receipt or to a manifest only by asking the host.
LEMMA SenderSteps ==
    ASSUME LaneInv, [Next]_vars, NEW w \in Senders
    PROVE  \/ sender'[w] = sender[w]
           \/ \E screen \in Screens : HostAnswers(w, screen)
           \/ FetchManifest(w)
           \/ sender'[w].pc \notin {"created", "replay"} \cup Deciding
<1> DEFINE Still == sender'[w] = sender[w]
           Away == sender'[w].pc \notin {"created", "replay"} \cup Deciding
<1>1. ASSUME NEW v \in Senders, NEW st, Become(v, st),
             st.pc \notin {"created", "replay"} \cup Deciding
      PROVE  Still \/ Away
    BY <1>1 DEF Become, LaneInv, SendersOK
<1>2. ASSUME NEW v \in Senders, NEW st, Become(v, st), v # w
      PROVE  Still
    BY <1>2 DEF Become, LaneInv, SendersOK
<1>3. Idle.pc \notin {"created", "replay"} \cup Deciding
    BY DEF Idle, Deciding
<1>4. ASSUME NEW v \in Senders, Prepare(v) PROVE Still \/ Away
    <2> HIDE DEF Still, Away
    <2>1. \A limit \in {LiveBatch, MaxBatch} :
              Scanning(limit).pc \notin {"created", "replay"} \cup Deciding
        BY DEF Scanning, Deciding
    <2>2. \A row : Prepared(row).pc \notin {"created", "replay"} \cup Deciding
        BY DEF Prepared, Deciding
    <2>3. \A e, x : Observed(v, e, x).pc \notin {"created", "replay"} \cup Deciding
        BY DEF Observed, Deciding
    <2>4. ASSUME NEW limit \in {LiveBatch, MaxBatch}, NEW e \in Epochs,
                 \/ FindNothingPending(v, limit) \/ ResumePending(v, e, limit)
                 \/ DiscardOversized(v, e, limit) \/ RetireEmptySource(v, e, limit)
          PROVE  Still \/ Away
        BY <1>1, <2>1, <2>2, <2>4
           DEF FindNothingPending, ResumePending, DiscardOversized, RetireEmptySource
    <2>5. ASSUME ObserveFirst(v) \/ ObserveRotation(v) \/ ObserveSame(v)
          PROVE  Still \/ Away
        BY <1>1, <2>3, <2>5 DEF ObserveFirst, ObserveRotation, ObserveSame
    <2>6. ASSUME ReadBatch(v) PROVE Still \/ Away
        <3>1. PICK env : Become(v, [pc |-> "candidate", env |-> env]) \/ Become(v, Idle)
            BY <2>6 DEF ReadBatch
        <3>2. [pc |-> "candidate", env |-> env].pc \notin {"created", "replay"} \cup Deciding
            BY DEF Deciding
        <3>3. QED BY <1>1, <1>3, <3>1, <3>2
    <2>7. ASSUME SkipStartupMetadata(v) \/ PersistPrepared(v) PROVE Still \/ Away
        BY <1>1, <1>3, <2>2, <2>7 DEF SkipStartupMetadata, PersistPrepared
    <2>8. QED BY <1>4, <2>4, <2>5, <2>6, <2>7, LaneAssumption DEF Prepare
<1>5. ASSUME NEW v \in Senders, Ship(v)
      PROVE  \/ Still \/ Away
             \/ \E screen \in Screens : HostAnswers(w, screen)
             \/ FetchManifest(w)
    <2> HIDE DEF Still, Away
    <2>1. CASE \/ Acknowledge(v) \/ BlockRejected(v) \/ ResyncBehindHost(v)
               \/ ReconcileProvenPrefix(v) \/ BlockConflict(v) \/ ErrorReturn(v)
        BY <1>1, <1>3, <2>1 DEF Acknowledge, BlockRejected, ResyncBehindHost,
               ReconcileProvenPrefix, BlockConflict, ErrorReturn
    <2>2. CASE PostEnvelope(v) \/ ReexamineBlocked(v)
        <3>1. \E pc \in {"posted", "probing"} : \E env, b :
                  Become(v, [pc |-> pc, env |-> env, block |-> b])
            BY <2>2 DEF PostEnvelope, ReexamineBlocked
        <3>2. \A pc \in {"posted", "probing"} : \A env, b :
                  [pc |-> pc, env |-> env, block |-> b].pc \notin {"created", "replay"} \cup Deciding
            BY DEF Deciding
        <3>3. QED BY <1>1, <3>1, <3>2
    <2>3. CASE EndReexamination(v)
        <3>1. PICK env, b : Become(v, [pc |-> "posted", env |-> env, block |-> b]) \/ Become(v, Idle)
            BY <2>3 DEF EndReexamination
        <3>2. [pc |-> "posted", env |-> env, block |-> b].pc \notin {"created", "replay"} \cup Deciding
            BY DEF Deciding
        <3>3. QED BY <1>1, <1>3, <3>1, <3>2
    <2>4. CASE (\E screen \in Screens : HostAnswers(v, screen)) \/ FetchManifest(v)
        BY <1>2, <2>4 DEF HostAnswers, FetchManifest
    <2>5. QED BY <1>5, <2>1, <2>2, <2>3, <2>4 DEF Ship
<1>6. CASE Environment
    BY <1>1, <1>3, <1>6 DEF Environment, AppendRecord, ReplaceFile, TruncateFile, BindSession,
       DeleteSession, Abandon, DiscardUngated, LateArrival, OperatorDiscard, TakeRestorePoint,
       RestoreHost
<1>7. CASE UNCHANGED vars
    BY <1>7 DEF vars, laneVars
<1>8. QED BY <1>4, <1>5, <1>6, <1>7 DEF Next

-----------------------------------------------------------------------------
(* The outbox.                                                             *)

\* The steps by which a row leaves the outbox.
DropsRow(e) ==
    \/ \E w \in Senders, limit \in {LiveBatch, MaxBatch} :
          DiscardOversized(w, e, limit) \/ RetireEmptySource(w, e, limit)
    \/ \E w \in Senders : /\ sender[w].env.epoch = e
                          /\ \/ DiscardUngated(w) \/ Acknowledge(w)
                             \/ ResyncBehindHost(w) \/ ReconcileProvenPrefix(w)
    \/ OperatorDiscard(e)

\* All others keep it.
LEMMA OutboxSteps ==
    ASSUME LaneInv, [Next]_vars, NEW e \in DOMAIN pending, e \notin DOMAIN pending'
    PROVE  DropsRow(e)
<1>0. e \in Epochs
    BY DEF LaneInv, PendingOK, RegistryOK
<1>1. \A f : pending' = Drop(pending, f) => e = f
    BY DEF Drop
<1>2. \A f, v : pending' # With(pending, f, v)
    BY DEF With
<1>3. \A f, k : ~Quarantine(f, k)
    BY DEF Quarantine
<1>4. pending' # pending /\ \A f, v : pending' # [pending EXCEPT ![f] = v]
    OBVIOUS
<1>5. ASSUME NEW w \in Senders, Prepare(w) PROVE DropsRow(e)
    BY <1>1, <1>2, <1>4, <1>5, LaneAssumption DEF Prepare, FindNothingPending, ResumePending,
       DiscardOversized, RetireEmptySource, ObserveFirst, ObserveRotation, ObserveSame, ReadBatch,
       SkipStartupMetadata, PersistPrepared, DropsRow
<1>6. ASSUME NEW w \in Senders, Ship(w) PROVE DropsRow(e)
    <2>1. CASE Acknowledge(w)
        BY <1>1, <1>4, <2>1 DEF Acknowledge, DropsRow
    <2>2. CASE ResyncBehindHost(w)
        BY <1>1, <1>4, <2>2 DEF ResyncBehindHost, DropsRow
    <2>3. CASE ReconcileProvenPrefix(w)
        BY <1>1, <1>2, <1>4, <2>3 DEF ReconcileProvenPrefix, DropsRow
    <2>4. CASE PostEnvelope(w) \/ BlockRejected(w) \/ BlockConflict(w)
        BY <1>3, <1>4, <2>4 DEF PostEnvelope, BlockRejected, BlockConflict
    <2>5. CASE \/ ReexamineBlocked(w) \/ FetchManifest(w) \/ EndReexamination(w) \/ ErrorReturn(w)
               \/ \E screen \in Screens : HostAnswers(w, screen)
        BY <1>4, <2>5 DEF ReexamineBlocked, FetchManifest, EndReexamination, ErrorReturn, HostAnswers
    <2>6. QED BY <1>6, <2>1, <2>2, <2>3, <2>4, <2>5 DEF Ship
<1>7. CASE Environment
    BY <1>1, <1>4, <1>7 DEF Environment, AppendRecord, ReplaceFile, TruncateFile, BindSession,
       DeleteSession, Abandon, DiscardUngated, LateArrival, OperatorDiscard, TakeRestorePoint,
       RestoreHost, DropsRow
<1>8. CASE UNCHANGED vars
    BY <1>4, <1>8 DEF vars, laneVars
<1>9. QED BY <1>5, <1>6, <1>7, <1>8 DEF Next

\* An envelope somebody tried to send, and that is not blocked, leaves the outbox
\* only as its cursor moves: an oversized or ungated row is given back only if it
\* was never sent, an operator discards only a blocked one, and metadata is
\* retired only from a blocked one.
THEOREM AttemptsAreKept == Spec => AttemptedIsKept
<1> DEFINE Kept == \A e \in DOMAIN pending :
                       pending[e].attempted /\ pending[e].block = None /\ e \notin DOMAIN pending'
                           => cursor'[e] # cursor[e]
<1>1. LaneInv /\ [Next]_vars => [Kept]_vars
    <2> SUFFICES ASSUME LaneInv, [Next]_vars, NEW e \in DOMAIN pending, pending[e].attempted,
                        pending[e].block = None, e \notin DOMAIN pending'
                 PROVE  cursor'[e] # cursor[e]
        OBVIOUS
    <2>1. DropsRow(e)
        BY OutboxSteps
    <2>2. /\ e \in Registered /\ cursor \in [Registered -> Nat]
        BY CarriedFacts DEF LaneInv, CursorOK
    <2>3. \A w \in Senders, limit \in {LiveBatch, MaxBatch} :
              ~DiscardOversized(w, e, limit) /\ ~RetireEmptySource(w, e, limit)
        BY LaneAssumption DEF DiscardOversized, RetireEmptySource, Unsent, RetirableEmpty
    <2>4. ~OperatorDiscard(e)
        BY DEF OperatorDiscard
    <2>5. PICK w \in Senders : /\ sender[w].env.epoch = e
                               /\ \/ DiscardUngated(w) \/ Acknowledge(w)
                                  \/ ResyncBehindHost(w) \/ ReconcileProvenPrefix(w)
        BY <2>1, <2>3, <2>4 DEF DropsRow
    <2>6. ~DiscardUngated(w)
        BY <2>5 DEF DiscardUngated, Unsent
    <2>7. sender[w].pc \in Carrying
        BY <2>5, <2>6 DEF Acknowledge, ResyncBehindHost, ReconcileProvenPrefix, Carrying, Waiting,
                          Deciding
    <2>8. /\ sender[w].env.start \in Nat /\ sender[w].env.end \in Nat
          /\ sender[w].env.start < sender[w].env.end
        BY <2>7, CarriedFacts
    <2>9. pending' # pending
        OBVIOUS
    <2>10. CASE Acknowledge(w)
        BY <2>2, <2>5, <2>8, <2>9, <2>10 DEF Acknowledge, AtCursor
    <2>11. CASE ResyncBehindHost(w)
        BY <2>2, <2>5, <2>9, <2>11 DEF ResyncBehindHost
    <2>12. CASE ReconcileProvenPrefix(w)
        <3>1. sender[w].manifest.proven \in Nat
            BY <2>8, <2>12 DEF ReconcileProvenPrefix, LaneInv, SendersOK, Deciding, ProvenInside
        <3>2. QED BY <2>2, <2>5, <2>8, <2>9, <2>12, <3>1 DEF ReconcileProvenPrefix, AtCursor
    <2>13. QED BY <2>5, <2>6, <2>10, <2>11, <2>12
<1>2. QED BY <1>1, LaneInvariant, PTL DEF Spec, AttemptedIsKept

-----------------------------------------------------------------------------
(* Acknowledged is archived.                                               *)

\* A receipt is for a range the host holds.
ReceiptsAreArchived ==
    \A w \in Senders : sender[w].pc \in {"created", "replay"} =>
        \A k \in sender[w].env.start .. (sender[w].env.end - 1) :
            Archived(sender[w].env.epoch, k)

\* What a manifest proved, however long ago, the host still holds.
ManifestsAreArchived ==
    \A w \in Senders : sender[w].pc \in Deciding /\ sender[w].manifest # None =>
        \A k \in sender[w].env.start .. (sender[w].manifest.proven - 1) :
            Archived(sender[w].env.epoch, k)

AckInv == NeverRestored => ReceiptsAreArchived /\ ManifestsAreArchived /\ AckedIsArchived

\* A row keeps its range archived as the archive grows.
LEMMA ArchivedStays ==
    ASSUME raw \subseteq raw', NEW e, NEW k, Archived(e, k)
    PROVE  Archived(e, k)'
BY DEF Archived, RawIn

\* The host's receipt, a new one or the original, is for the range it names.
LEMMA ReceiptFacts ==
    ASSUME LaneInv, NEW env \in Carried, NEW screen \in Screens,
           Ingest(env, screen, Verdict(env, screen)),
           Verdict(env, screen) \in {"created", "replay"}
    PROVE  \E r \in raw' : r.epoch = env.epoch /\ r.start = env.start /\ r.end = env.end
<1>1. CASE Verdict(env, screen) = "created"
    <2>1. raw' = raw \cup {RawOf(env)}
        BY <1>1 DEF Ingest, CommitRawObject
    <2>2. /\ RawOf(env).epoch = env.epoch /\ RawOf(env).start = env.start
          /\ RawOf(env).end = env.end
        BY DEF RawOf
    <2>3. QED BY <2>1, <2>2
<1>2. CASE Verdict(env, screen) = "replay"
    <2>1. Replayed(env)
        BY <1>2, LaneAssumption DEF Verdict
    <2>2. raw' = raw
        BY <1>2 DEF Ingest, hostVars
    <2>3. QED BY <2>1, <2>2 DEF Replayed, EnvelopeId
<1>3. QED BY <1>1, <1>2

\* A sender that reads a receipt has just got it from the host.
LEMMA AnswerFacts ==
    ASSUME LaneInv, NEW w \in Senders, NEW screen \in Screens, HostAnswers(w, screen)
    PROVE  /\ sender[w].env \in Carried
           /\ sender'[w].env = sender[w].env
           /\ sender'[w].pc \in Waiting
           /\ sender'[w].pc \in {"created", "replay"} =>
                 \E r \in raw' : /\ r.epoch = sender[w].env.epoch
                                 /\ r.start = sender[w].env.start /\ r.end = sender[w].env.end
<1>1. sender[w].pc = "posted"
    BY DEF HostAnswers
<1>2. sender[w].env \in Carried
    BY <1>1, CarriedFacts DEF Carrying, Waiting
<1>3. sender[w] \in [pc : Waiting, env : Envelope, block : Blocks \cup {None}]
    BY <1>1, CarriedFacts, SenderFields DEF Waiting
<1>4. ASSUME NEW pc, Become(w, [sender[w] EXCEPT !.pc = pc])
      PROVE  sender'[w].env = sender[w].env /\ sender'[w].pc = pc
    BY <1>3, <1>4 DEF Become, LaneInv, SendersOK
<1>5. "rejected" \in Waiting \ {"created", "replay"}
    BY DEF Waiting
<1>6. CASE Replayed(sender[w].env) /\ UNCHANGED hostVars
           /\ Become(w, [sender[w] EXCEPT !.pc = "replay"])
    <2>1. \E r \in raw' : /\ r.epoch = sender[w].env.epoch
                          /\ r.start = sender[w].env.start /\ r.end = sender[w].env.end
        BY <1>6 DEF Replayed, EnvelopeId, hostVars
    <2>2. QED BY <1>2, <1>4, <1>6, <2>1 DEF Waiting
<1>7. CASE /\ Ingest(sender[w].env, screen, Verdict(sender[w].env, screen))
           /\ Become(w, [sender[w] EXCEPT !.pc = Verdict(sender[w].env, screen)])
    BY <1>2, <1>4, <1>7, ScreensAreRefusals, ReceiptFacts
<1>8. CASE Become(w, [sender[w] EXCEPT !.pc = "rejected"])
    BY <1>2, <1>4, <1>5, <1>8
<1>9. QED BY <1>6, <1>7, <1>8 DEF HostAnswers

\* What FetchManifest hands over.
LEMMA ManifestFacts ==
    ASSUME LaneInv, NEW w \in Senders, FetchManifest(w)
    PROVE  /\ sender[w].env \in Carried
           /\ sender'[w].env = sender[w].env
           /\ sender'[w].pc \in Deciding
           /\ sender'[w].manifest = ManifestFor(sender[w].env)
           /\ UNCHANGED <<hostVars, cursor, pending, late, registry>>
<1>1. sender[w].env \in Carried
    BY CarriedFacts DEF FetchManifest, Carrying, Waiting
<1>2. QED BY <1>1 DEF FetchManifest, Become, LaneInv, SendersOK, Deciding

\* A proven prefix is archived.
LEMMA ProvenIsArchived ==
    ASSUME LaneInv, NEW env \in Carried, ManifestFor(env) # None
    PROVE  /\ env.epoch \in Known
           /\ ManifestFor(env).accepted = epochs[env.epoch].accepted
           /\ ManifestFor(env).proven \in env.start .. env.end
           /\ \A k \in env.start .. (ManifestFor(env).proven - 1) : Archived(env.epoch, k)
<1>1. env.start \in Nat /\ env.end \in Nat /\ env.start <= env.end
    BY CarriedIsRequest DEF IsRequest
<1>2. /\ ProvenThrough(env) \in env.start .. env.end
      /\ Proven(env, ProvenThrough(env))
    BY <1>1, ProvenThroughFacts DEF ProvenInside
<1>3. /\ env.epoch \in Known
      /\ ManifestFor(env) = [accepted |-> epochs[env.epoch].accepted, proven |-> ProvenThrough(env)]
    BY DEF ManifestFor
<1>4. QED BY <1>2, <1>3 DEF Proven, Archived

\* The first epoch starts at the legacy cursor, which exempts what is before it.
LEMMA RegisteredFacts ==
    ASSUME LaneInv, NEW w \in Senders, ObserveFirst(w) \/ ObserveRotation(w)
    PROVE  \E f \in Epochs :
              /\ f \notin Registered
              /\ Registered' = Registered \cup {f}
              /\ \A e \in Registered : cursor'[e] = cursor[e]
              /\ cursor'[f] \in Nat
              /\ \A k \in 0 .. (cursor'[f] - 1) : Exempt(f, k)'
<1>1. PICK f \in Epochs, p \in Epochs \cup {None}, b \in Sessions \cup {None}, n \in Nat :
         /\ f \notin Registered
         /\ registry' = With(registry, f, EpochOpened(p, b))
         /\ cursor' = With(cursor, f, n)
         /\ n = 0 \/ (p = None /\ n = LegacyPosition)
    BY FreshEpochFacts
<1>2. DOMAIN cursor = Registered
    BY DEF LaneInv, CursorOK
<1>3. /\ Registered' = Registered \cup {f}
      /\ \A e \in Registered : cursor'[e] = cursor[e]
      /\ cursor'[f] = n
      /\ registry'[f] = EpochOpened(p, b)
    BY <1>1, <1>2 DEF With, Registered
<1>4. n # 0 => n = LegacyOffset /\ file.inc = 0
    BY <1>1 DEF LegacyPosition
<1>5. registry'[f].inc = file.inc /\ registry'[f].pred = p
    BY <1>3 DEF EpochOpened
<1>6. \A k \in 0 .. (n - 1) : Exempt(f, k)'
    BY <1>1, <1>4, <1>5, LaneAssumption DEF Exempt
<1>7. QED BY <1>1, <1>3, <1>6

\* What the steps that move the cursor of a registered epoch do to it.
LEMMA CursorMoveFacts ==
    ASSUME LaneInv, NEW w \in Senders, MovesCursor(w),
           ~(ObserveFirst(w) \/ ObserveRotation(w))
    PROVE  /\ UNCHANGED <<hostVars, file, registry>>
           /\ \/ cursor' = cursor
              \/ \E env \in Carried, n \in Nat :
                    /\ cursor' = [cursor EXCEPT ![env.epoch] = n]
                    /\ \/ AtCursor(env) /\ n = env.end /\ Claude /\ StartupMetadata(env)
                       \/ /\ AtCursor(env) /\ n = env.end /\ env = sender[w].env
                          /\ sender[w].pc \in {"created", "replay"}
                       \/ /\ AtCursor(env) /\ n > env.start /\ env = sender[w].env
                          /\ sender[w].pc \in Deciding /\ sender[w].manifest # None
                          /\ n = sender[w].manifest.proven
                       \/ /\ n < cursor[env.epoch] /\ env = sender[w].env /\ Holds(env)
                          /\ sender[w].pc \in Deciding /\ sender[w].manifest # None
                          /\ n = sender[w].manifest.accepted /\ n < env.start
<1>1. CASE SkipStartupMetadata(w)
    <2>1. sender[w].env \in Carried /\ sender[w].env.end \in Nat
        BY <1>1, CarriedFacts DEF SkipStartupMetadata, Carrying, Holding
    <2>2. QED BY <1>1, <2>1 DEF SkipStartupMetadata, Skippable
<1>2. ASSUME NEW limit \in {LiveBatch, MaxBatch}, NEW e \in Epochs, RetireEmptySource(w, e, limit)
      PROVE  /\ UNCHANGED <<hostVars, file, registry>>
             /\ \E env \in Carried, n \in Nat :
                    /\ cursor' = [cursor EXCEPT ![env.epoch] = n]
                    /\ AtCursor(env) /\ n = env.end /\ Claude /\ StartupMetadata(env)
    <2>1. /\ pending[e].env \in Carried /\ pending[e].env.end \in Nat /\ pending[e].env.epoch = e
        BY <1>2, CarriedFacts, EnvelopeFields DEF RetireEmptySource
    <2>2. QED BY <1>2, <2>1 DEF RetireEmptySource, RetirableEmpty
<1>3. CASE Acknowledge(w)
    <2>1. sender[w].env \in Carried /\ sender[w].env.end \in Nat
        BY <1>3, CarriedFacts DEF Acknowledge, Carrying, Waiting
    <2>2. QED BY <1>3, <2>1 DEF Acknowledge
<1>4. CASE ResyncBehindHost(w)
    <2>1. sender[w].pc \in Deciding /\ sender[w].manifest # None
        BY <1>4 DEF ResyncBehindHost, BehindHost, Deciding
    <2>2. sender[w].env \in Carried /\ sender[w].manifest.accepted \in Nat
        BY <2>1, CarriedFacts, SenderFields DEF Carrying, Manifest
    <2>3. QED BY <1>4, <2>1, <2>2 DEF ResyncBehindHost, BehindHost
<1>5. CASE ReconcileProvenPrefix(w)
    <2>1. sender[w].pc \in Deciding /\ sender[w].manifest # None
        BY <1>5 DEF ReconcileProvenPrefix, Deciding
    <2>2. sender[w].env \in Carried /\ sender[w].manifest.proven \in Nat
        BY <2>1, CarriedFacts, SenderFields DEF Carrying, Manifest
    <2>3. QED BY <1>5, <2>1, <2>2 DEF ReconcileProvenPrefix
<1>6. QED BY <1>1, <1>2, <1>3, <1>4, <1>5 DEF MovesCursor

\* Every step keeps AckInv.
LEMMA AckStep ==
    ASSUME LaneInv, AckInv, [Next]_vars
    PROVE  AckInv'
<1> SUFFICES ASSUME NeverRestored'
             PROVE  ReceiptsAreArchived' /\ ManifestsAreArchived' /\ AckedIsArchived'
    BY DEF AckInv
<1>1. NeverRestored /\ raw \subseteq raw'
    BY HostGrows DEF ArchiveOnlyGrows
<1>2. ReceiptsAreArchived /\ ManifestsAreArchived /\ AckedIsArchived
    BY <1>1 DEF AckInv
<1>3. \A e, k : Archived(e, k) => Archived(e, k)'
    BY <1>1, ArchivedStays
<1>4. \A k : \A e \in Registered : Exempt(e, k) => Exempt(e, k)'
    BY RegistryGrows DEF Exempt, Claude
<1>5. ReceiptsAreArchived'
    <2> SUFFICES ASSUME NEW w \in Senders, sender'[w].pc \in {"created", "replay"},
                        NEW e, e = sender'[w].env.epoch,
                        NEW k \in sender'[w].env.start .. (sender'[w].env.end - 1)
                 PROVE  Archived(e, k)'
        BY DEF ReceiptsAreArchived, Archived, RawIn
    <2>1. CASE sender'[w] = sender[w]
        BY <1>2, <1>3, <2>1 DEF ReceiptsAreArchived
    <2>2. ASSUME NEW screen \in Screens, HostAnswers(w, screen)
          PROVE  Archived(e, k)'
        <3>1. /\ sender[w].env \in Carried /\ sender'[w].env = sender[w].env
              /\ \E r \in raw' : /\ r.epoch = sender[w].env.epoch
                                 /\ r.start = sender[w].env.start /\ r.end = sender[w].env.end
            BY <2>2, AnswerFacts
        <3>2. sender[w].env.start \in Nat /\ sender[w].env.end \in Nat
            BY <3>1, CarriedIsRequest DEF IsRequest
        <3>3. QED BY <3>1, <3>2 DEF Archived, RawIn
    <2>3. sender'[w].pc \notin Deciding
        BY DEF Deciding
    <2>4. QED BY <2>1, <2>2, <2>3, SenderSteps, ManifestFacts
<1>6. ManifestsAreArchived'
    <2> SUFFICES ASSUME NEW w \in Senders, sender'[w].pc \in Deciding, sender'[w].manifest # None,
                        NEW e, e = sender'[w].env.epoch,
                        NEW k \in sender'[w].env.start .. (sender'[w].manifest.proven - 1)
                 PROVE  Archived(e, k)'
        BY DEF ManifestsAreArchived, Archived, RawIn
    <2>1. CASE sender'[w] = sender[w]
        BY <1>2, <1>3, <2>1 DEF ManifestsAreArchived
    <2>2. CASE FetchManifest(w)
        <3>1. /\ sender[w].env \in Carried /\ sender'[w].env = sender[w].env
              /\ sender'[w].manifest = ManifestFor(sender[w].env)
            BY <2>2, ManifestFacts
        <3>2. QED BY <1>3, <3>1, ProvenIsArchived
    <2>3. ASSUME NEW screen \in Screens, HostAnswers(w, screen) PROVE FALSE
        BY <2>3, AnswerFacts DEF Deciding, Waiting
    <2>4. QED BY <2>1, <2>2, <2>3, SenderSteps
<1>7. ASSUME NEW e \in Registered', NEW k \in 0 .. (cursor'[e] - 1)
      PROVE  Archived(e, k)' \/ Exempt(e, k)'
    <2>0. cursor \in [Registered -> Nat]
        BY DEF LaneInv, CursorOK
    <2>1. ASSUME e \in Registered, k < cursor[e] PROVE Archived(e, k)' \/ Exempt(e, k)'
        <3>1. k \in 0 .. (cursor[e] - 1)
            BY <2>0, <2>1
        <3>2. Archived(e, k) \/ Exempt(e, k)
            BY <1>1, <1>2, <2>1, <3>1 DEF AckedIsArchived
        <3>3. QED BY <1>3, <1>4, <2>1, <3>2
    <2>2. CASE \A w \in Senders : ~MovesCursor(w)
        <3>1. cursor' = cursor
            BY <2>2, CursorSteps
        <3>2. CursorOK'
            BY LaneStepInv DEF LaneInv
        <3>3. e \in Registered /\ cursor[e] \in Nat
            BY <2>0, <3>1, <3>2 DEF CursorOK
        <3>4. QED BY <2>1, <3>1, <3>3
    <2>3. ASSUME NEW w \in Senders, ObserveFirst(w) \/ ObserveRotation(w)
          PROVE  Archived(e, k)' \/ Exempt(e, k)'
        <3>1. PICK f \in Epochs :
                  /\ Registered' = Registered \cup {f}
                  /\ \A x \in Registered : cursor'[x] = cursor[x]
                  /\ \A n \in 0 .. (cursor'[f] - 1) : Exempt(f, n)'
            BY <2>3, RegisteredFacts
        <3>2. CASE e = f
            BY <3>1, <3>2
        <3>3. CASE e \in Registered
            BY <2>0, <2>1, <3>1, <3>3
        <3>4. QED BY <3>1, <3>2, <3>3
    <2>4. ASSUME NEW w \in Senders, MovesCursor(w), ~(ObserveFirst(w) \/ ObserveRotation(w))
          PROVE  Archived(e, k)' \/ Exempt(e, k)'
        <3>1. UNCHANGED <<file, registry>>
            BY <2>4, CursorMoveFacts
        <3>2. e \in Registered /\ cursor[e] \in Nat
            BY <2>0, <3>1 DEF Registered
        <3>3. CASE cursor' = cursor
            BY <2>1, <3>2, <3>3
        <3>4. ASSUME NEW env \in Carried, NEW n \in Nat,
                     cursor' = [cursor EXCEPT ![env.epoch] = n],
                     \/ AtCursor(env) /\ n = env.end /\ Claude /\ StartupMetadata(env)
                     \/ /\ AtCursor(env) /\ n = env.end /\ env = sender[w].env
                        /\ sender[w].pc \in {"created", "replay"}
                     \/ /\ AtCursor(env) /\ n > env.start /\ env = sender[w].env
                        /\ sender[w].pc \in Deciding /\ sender[w].manifest # None
                        /\ n = sender[w].manifest.proven
                     \/ n < cursor[env.epoch]
              PROVE  Archived(e, k)' \/ Exempt(e, k)'
            <4>1. env.start \in Nat /\ env.end \in Nat /\ env.epoch \in Registered
                BY CarriedIsRequest DEF IsRequest, Piece
            <4>2. CASE e # env.epoch \/ k < cursor[e]
                BY <2>0, <2>1, <3>2, <3>4, <4>1, <4>2
            <4>3. CASE e = env.epoch /\ k >= cursor[e]
                <5>1. cursor'[e] = n
                    BY <2>0, <3>2, <3>4, <4>3
                <5>2. k \in Nat /\ k < n
                    BY <5>1
                <5>3. AtCursor(env) /\ k \in env.start .. (n - 1)
                    BY <3>2, <3>4, <4>1, <4>3, <5>2 DEF AtCursor
                <5>4. CASE n = env.end /\ Claude /\ StartupMetadata(env)
                    BY <1>4, <3>2, <5>3, <5>4 DEF StartupMetadata, Exempt
                <5>5. CASE n = env.end /\ env = sender[w].env /\ sender[w].pc \in {"created", "replay"}
                    BY <1>2, <1>3, <4>3, <5>3, <5>5 DEF ReceiptsAreArchived
                <5>6. CASE /\ env = sender[w].env /\ sender[w].pc \in Deciding
                           /\ sender[w].manifest # None /\ n = sender[w].manifest.proven
                    BY <1>2, <1>3, <4>3, <5>3, <5>6 DEF ManifestsAreArchived
                <5>7. QED BY <3>2, <3>4, <4>3, <5>2, <5>4, <5>5, <5>6
            <4>4. QED BY <3>2, <4>2, <4>3
        <3>5. QED BY <2>4, <3>3, <3>4, CursorMoveFacts
    <2>5. QED BY <2>2, <2>3, <2>4
<1>8. AckedIsArchived'
    BY <1>7 DEF AckedIsArchived
<1>9. QED BY <1>5, <1>6, <1>8

\* AckInv is an invariant of the lane.
LEMMA AckInvariant == Spec => []AckInv
<1>1. LaneInit => AckInv
    BY DEF LaneInit, AckInv, ReceiptsAreArchived, ManifestsAreArchived, AckedIsArchived, Idle,
           Deciding, Registered
<1>2. LaneInv /\ AckInv /\ [Next]_vars => AckInv'
    BY AckStep
<1>3. QED BY <1>1, <1>2, LaneInvariant, PTL DEF Spec

\* No acknowledged byte is lost while the host keeps its catalog: lost replies,
\* late requests, racing senders, discards and reconciliation all move the cursor
\* over nothing but what the host holds, or what is not shipped at all.
THEOREM AcknowledgedIsArchived == Spec => []AckedIsArchived
<1>1. AckInv => AckedIsArchived
    BY DEF AckInv, AckedIsArchived
<1>2. QED BY <1>1, AckInvariant, PTL

-----------------------------------------------------------------------------
(* Where envelopes come from.                                              *)

\* A row of the outbox holds what it held, a batch just persisted, or the rest of
\* a proven envelope, which starts where the cursor then is.
LEMMA RowSteps ==
    ASSUME LaneInv, [Next]_vars, NEW e \in DOMAIN pending'
    PROVE  \/ e \in DOMAIN pending /\ pending'[e].env = pending[e].env
           \/ \E w \in Senders : /\ PersistPrepared(w) /\ e = sender[w].env.epoch
                                 /\ pending'[e].env = sender[w].env
           \/ \E w \in Senders : /\ ReconcileProvenPrefix(w) /\ e = sender[w].env.epoch
                                 /\ pending'[e].env = Suffix(sender[w].env, cursor'[e])
                                 /\ cursor'[e] = sender[w].manifest.proven
<1> DEFINE Kept == e \in DOMAIN pending /\ pending'[e].env = pending[e].env
<1>1. \A f : pending' = Drop(pending, f) => Kept
    BY DEF Drop
<1>2. pending' = pending => Kept
    OBVIOUS
<1>3. ASSUME NEW f, NEW k, Quarantine(f, k) PROVE Kept
    <2>1. CASE f \in DOMAIN pending /\ pending[f].block = None
        <3> DEFINE row == [pending[f] EXCEPT !.block = k]
        <3>1. row.env = pending[f].env
            BY <2>1, CarriedFacts DEF PendingRow
        <3>2. pending' = [pending EXCEPT ![f] = row]
            BY <1>3, <2>1 DEF Quarantine
        <3> HIDE DEF row
        <3>3. QED BY <2>1, <3>1, <3>2
    <2>2. CASE ~(f \in DOMAIN pending /\ pending[f].block = None)
        BY <1>3, <2>2 DEF Quarantine
    <2>3. QED BY <2>1, <2>2
<1>4. ASSUME NEW w \in Senders, PersistPrepared(w)
      PROVE  Kept \/ (e = sender[w].env.epoch /\ pending'[e].env = sender[w].env)
    <2> DEFINE env == sender[w].env
               new == [env |-> env, attempted |-> FALSE, block |-> None]
               row == IF env.epoch \in DOMAIN pending THEN pending[env.epoch] ELSE new
    <2>1. pending' = With(pending, env.epoch, row)
        BY <1>4 DEF PersistPrepared
    <2>2. new.env = env
        OBVIOUS
    <2> HIDE DEF new, env
    <2>3. QED BY <2>1, <2>2 DEF With, env
<1>5. ASSUME NEW w \in Senders, ReconcileProvenPrefix(w)
      PROVE  Kept \/ (/\ e = sender[w].env.epoch
                      /\ pending'[e].env = Suffix(sender[w].env, cursor'[e])
                      /\ cursor'[e] = sender[w].manifest.proven)
    <2> DEFINE env == sender[w].env
               p == sender[w].manifest.proven
               rest == [env |-> Suffix(env, p), attempted |-> FALSE, block |-> None]
    <2>1. \/ pending' = pending
          \/ pending' = Drop(pending, env.epoch)
          \/ /\ Holds(env)
             /\ cursor' = [cursor EXCEPT ![env.epoch] = p]
             /\ pending' = With(pending, env.epoch, rest)
        BY <1>5 DEF ReconcileProvenPrefix
    <2>2. rest.env = Suffix(env, p)
        OBVIOUS
    <2>3. env.epoch \in DOMAIN cursor
        BY <1>5, CarriedFacts DEF ReconcileProvenPrefix, Carrying, Deciding, LaneInv, CursorOK
    <2> HIDE DEF rest
    <2>4. QED BY <1>1, <2>1, <2>2, <2>3 DEF With
<1>6. ASSUME NEW w \in Senders, PostEnvelope(w) PROVE Kept
    <2> DEFINE f == sender[w].env.epoch
               row == [pending[f] EXCEPT !.attempted = TRUE]
    <2>1. f \in DOMAIN pending /\ pending' = [pending EXCEPT ![f] = row]
        BY <1>6 DEF PostEnvelope, Holds
    <2>2. row.env = pending[f].env
        BY <2>1, CarriedFacts DEF PendingRow
    <2> HIDE DEF row
    <2>3. QED BY <2>1, <2>2
<1> HIDE DEF Kept
<1>7. ASSUME NEW w \in Senders, Prepare(w), ~PersistPrepared(w) PROVE Kept
    BY <1>1, <1>2, <1>7 DEF Prepare, FindNothingPending, ResumePending, DiscardOversized,
       RetireEmptySource, ObserveFirst, ObserveRotation, ObserveSame, ReadBatch,
       SkipStartupMetadata
<1>8. ASSUME NEW w \in Senders, Ship(w), ~ReconcileProvenPrefix(w) PROVE Kept
    BY <1>1, <1>2, <1>3, <1>6, <1>8 DEF Ship, ReexamineBlocked, HostAnswers, Acknowledge,
       BlockRejected, FetchManifest, ResyncBehindHost, BlockConflict, EndReexamination, ErrorReturn
<1>9. CASE Environment
    <2>1. ASSUME \/ \E f \in Epochs : OperatorDiscard(f)
                 \/ \E w \in Senders : DiscardUngated(w)
          PROVE  Kept
        <3>1. PICK f : pending' = Drop(pending, f)
            BY <2>1 DEF OperatorDiscard, DiscardUngated
        <3>2. QED BY <1>1, <3>1
    <2>2. ASSUME ~\E f \in Epochs : OperatorDiscard(f), ~\E w \in Senders : DiscardUngated(w)
          PROVE  pending' = pending
        BY <1>9, <2>2 DEF Environment, AppendRecord, ReplaceFile, TruncateFile, BindSession,
           DeleteSession, Abandon, LateArrival, TakeRestorePoint, RestoreHost
    <2>3. QED BY <1>2, <2>1, <2>2 DEF Kept
<1>10. CASE UNCHANGED vars
    BY <1>2, <1>10 DEF vars, laneVars
<1>11. QED BY <1>4, <1>5, <1>7, <1>8, <1>9, <1>10 DEF Next, Kept

\* A sender comes to a new envelope only by reading a batch, at the cursor.
LEMMA EnvelopeSteps ==
    ASSUME LaneInv, [Next]_vars, NEW w \in Senders, sender'[w].pc \in Carrying
    PROVE  \/ sender'[w].env \in Carried
           \/ /\ ReadBatch(w) /\ sender'[w].pc = "candidate"
              /\ sender'[w].env.epoch = sender[w].epoch
              /\ sender'[w].env.start = cursor[sender[w].epoch]
<1>1. ASSUME NEW v \in Senders, NEW st, Become(v, st), v # w \/ st.pc \notin Carrying
      PROVE  sender'[w].env \in Carried
    BY <1>1, CarriedFacts DEF Become, LaneInv, SendersOK
<1>2. ASSUME NEW st, Become(w, st)
      PROVE  sender'[w] = st
    BY <1>2 DEF Become, LaneInv, SendersOK
<1>3. Idle.pc \notin Carrying
    BY DEF Idle, Carrying, Holding, Waiting, Deciding
<1>4. ASSUME NEW v \in Senders, Prepare(v), ~ReadBatch(v) PROVE sender'[w].env \in Carried
    <2>1. \A limit \in {LiveBatch, MaxBatch} : Scanning(limit).pc \notin Carrying
        BY DEF Scanning, Carrying, Holding, Waiting, Deciding
    <2>2. \A f, x : Observed(v, f, x).pc \notin Carrying
        BY DEF Observed, Carrying, Holding, Waiting, Deciding
    <2>3. ASSUME NEW limit \in {LiveBatch, MaxBatch}, NEW e \in Epochs,
                 \/ FindNothingPending(v, limit)
                 \/ DiscardOversized(v, e, limit) \/ RetireEmptySource(v, e, limit)
          PROVE  sender'[w].env \in Carried
        BY <1>1, <2>1, <2>3 DEF FindNothingPending, DiscardOversized, RetireEmptySource
    <2>4. ASSUME ObserveFirst(v) \/ ObserveRotation(v) \/ ObserveSame(v) \/ SkipStartupMetadata(v)
          PROVE  sender'[w].env \in Carried
        BY <1>1, <1>3, <2>2, <2>4 DEF ObserveFirst, ObserveRotation, ObserveSame, SkipStartupMetadata
    <2>5. ASSUME NEW limit \in {LiveBatch, MaxBatch}, NEW e \in Epochs, ResumePending(v, e, limit)
          PROVE  sender'[w].env \in Carried
        <3>1. e \in DOMAIN pending /\ Become(v, Prepared(pending[e]))
            BY <2>5 DEF ResumePending
        <3>2. Prepared(pending[e]).env = pending[e].env
            BY DEF Prepared
        <3>3. QED BY <1>1, <1>2, <3>1, <3>2, CarriedFacts
    <2>6. ASSUME PersistPrepared(v)
          PROVE  sender'[w].env \in Carried
        <3> DEFINE env == sender[v].env
                   new == [env |-> env, attempted |-> FALSE, block |-> None]
                   row == IF env.epoch \in DOMAIN pending THEN pending[env.epoch] ELSE new
        <3>1. env \in Carried /\ Become(v, Prepared(row))
            BY <2>6, CarriedFacts DEF PersistPrepared, Carrying, Holding
        <3>2. new.env = env
            OBVIOUS
        <3> HIDE DEF new, env
        <3>3. row.env \in Carried
            BY <3>1, <3>2, CarriedFacts
        <3> HIDE DEF row
        <3>4. Prepared(row).env = row.env
            BY DEF Prepared
        <3>5. QED BY <1>1, <1>2, <3>1, <3>3, <3>4
    <2>7. QED BY <1>4, <2>3, <2>4, <2>5, <2>6, LaneAssumption DEF Prepare
<1>5. ASSUME NEW v \in Senders, ReadBatch(v)
      PROVE  \/ sender'[w].env \in Carried
             \/ /\ v = w /\ sender'[w].pc = "candidate"
                /\ sender'[w].env.epoch = sender[w].epoch
                /\ sender'[w].env.start = cursor[sender[w].epoch]
    <2> DEFINE f == sender[v].epoch
               env == BatchFrom(v, f, cursor[f])
    <2>1. Become(v, [pc |-> "candidate", env |-> env]) \/ Become(v, Idle)
        BY <1>5 DEF ReadBatch
    <2>2. env.epoch = f /\ env.start = cursor[f]
        BY DEF BatchFrom
    <2> HIDE DEF env
    <2>3. QED BY <1>1, <1>2, <1>3, <2>1, <2>2
<1>6. ASSUME NEW v \in Senders, Ship(v) PROVE sender'[w].env \in Carried
    <2>1. CASE \/ Acknowledge(v) \/ BlockRejected(v) \/ ResyncBehindHost(v)
               \/ ReconcileProvenPrefix(v) \/ BlockConflict(v) \/ ErrorReturn(v)
        BY <1>1, <1>3, <2>1 DEF Acknowledge, BlockRejected, ResyncBehindHost,
               ReconcileProvenPrefix, BlockConflict, ErrorReturn
    <2>2. CASE PostEnvelope(v) \/ ReexamineBlocked(v) \/ EndReexamination(v)
        <3>1. sender[v].env \in Carried
            BY <2>2, CarriedFacts DEF PostEnvelope, ReexamineBlocked, EndReexamination, Carrying,
                   Holding, Deciding
        <3>2. PICK pc, b : Become(v, [pc |-> pc, env |-> sender[v].env, block |-> b]) \/ Become(v, Idle)
            BY <2>2 DEF PostEnvelope, ReexamineBlocked, EndReexamination
        <3>3. [pc |-> pc, env |-> sender[v].env, block |-> b].env = sender[v].env
            OBVIOUS
        <3>4. QED BY <1>1, <1>2, <1>3, <3>1, <3>2, <3>3
    <2>3. ASSUME NEW screen \in Screens, HostAnswers(v, screen) PROVE sender'[w].env \in Carried
        <3>1. CASE v = w
            BY <2>3, <3>1, AnswerFacts
        <3>2. CASE v # w
            BY <1>1, <2>3, <3>2 DEF HostAnswers
        <3>3. QED BY <3>1, <3>2
    <2>4. CASE FetchManifest(v)
        <3>1. CASE v = w
            BY <2>4, <3>1, ManifestFacts
        <3>2. CASE v # w
            BY <1>1, <2>4, <3>2 DEF FetchManifest
        <3>3. QED BY <3>1, <3>2
    <2>5. QED BY <1>6, <2>1, <2>2, <2>3, <2>4 DEF Ship
<1>7. sender' = sender => sender'[w].env \in Carried
    BY CarriedFacts
<1>8. CASE Environment
    BY <1>1, <1>3, <1>7, <1>8 DEF Environment, AppendRecord, ReplaceFile, TruncateFile, BindSession,
       DeleteSession, Abandon, DiscardUngated, LateArrival, OperatorDiscard, TakeRestorePoint,
       RestoreHost
<1>9. CASE UNCHANGED vars
    BY <1>7, <1>9 DEF vars, laneVars
<1>10. QED BY <1>4, <1>5, <1>6, <1>8, <1>9 DEF Next

\* A late request was one a sender had posted.
LEMMA LateSteps ==
    ASSUME LaneInv, [Next]_vars
    PROVE  late' \subseteq Carried
<1>1. late \subseteq Carried
    BY DEF Carried
<1>2. ASSUME NEW w \in Senders, Prepare(w) PROVE late' = late
    BY <1>2 DEF Prepare, FindNothingPending, ResumePending, DiscardOversized,
       RetireEmptySource, ObserveFirst, ObserveRotation, ObserveSame, ReadBatch,
       SkipStartupMetadata, PersistPrepared
<1>3. ASSUME NEW w \in Senders, Ship(w) PROVE late' = late
    BY <1>3 DEF Ship, PostEnvelope, ReexamineBlocked, HostAnswers, Acknowledge, BlockRejected,
       FetchManifest, ResyncBehindHost, ReconcileProvenPrefix, BlockConflict, EndReexamination,
       ErrorReturn
<1>4. ASSUME NEW w \in Senders, Abandon(w) PROVE late' \subseteq Carried
    <2>1. sender[w].pc = "posted" => sender[w].env \in Carried
        BY CarriedFacts DEF Carrying, Waiting
    <2>2. QED BY <1>1, <1>4, <2>1 DEF Abandon
<1>5. CASE Environment
    BY <1>1, <1>4, <1>5 DEF Environment, AppendRecord, ReplaceFile, TruncateFile, BindSession,
       DeleteSession, DiscardUngated, LateArrival, OperatorDiscard, TakeRestorePoint, RestoreHost
<1>6. CASE UNCHANGED vars
    BY <1>1, <1>6 DEF vars, laneVars
<1>7. QED BY <1>1, <1>2, <1>3, <1>5, <1>6 DEF Next

\* So an envelope is an old one, a batch read at the cursor, or the rest of one
\* whose prefix was proven.
LEMMA CarriedSteps ==
    ASSUME LaneInv, [Next]_vars, NEW x \in Carried'
    PROVE  \/ x \in Carried
           \/ \E w \in Senders : /\ ReadBatch(w) /\ sender[w].epoch = x.epoch
                                 /\ x.start = cursor[x.epoch]
           \/ \E w \in Senders : /\ ReconcileProvenPrefix(w) /\ sender[w].env.epoch = x.epoch
                                 /\ x.start = cursor'[x.epoch]
                                 /\ x.start = sender[w].manifest.proven
<1>1. ASSUME NEW e \in DOMAIN pending', x = pending'[e].env
      PROVE  \/ x \in Carried
             \/ \E w \in Senders : /\ ReconcileProvenPrefix(w) /\ sender[w].env.epoch = x.epoch
                                   /\ x.start = cursor'[x.epoch]
                                   /\ x.start = sender[w].manifest.proven
    <2>1. CASE e \in DOMAIN pending /\ pending'[e].env = pending[e].env
        BY <1>1, <2>1, CarriedFacts
    <2>2. ASSUME NEW w \in Senders, PersistPrepared(w), pending'[e].env = sender[w].env
          PROVE  x \in Carried
        BY <1>1, <2>2, CarriedFacts DEF PersistPrepared, Carrying, Holding
    <2>3. ASSUME NEW w \in Senders, ReconcileProvenPrefix(w), e = sender[w].env.epoch,
                 pending'[e].env = Suffix(sender[w].env, cursor'[e]),
                 cursor'[e] = sender[w].manifest.proven
          PROVE  /\ sender[w].env.epoch = x.epoch /\ x.start = cursor'[x.epoch]
                 /\ x.start = sender[w].manifest.proven
        <3>1. sender[w].env \in Envelope
            BY <2>3, CarriedFacts DEF ReconcileProvenPrefix, Carrying, Deciding
        <3> DEFINE d == SubSeq(sender[w].env.data, cursor'[e] - sender[w].env.start + 1,
                               sender[w].env.end - sender[w].env.start)
        <3>2. x = [sender[w].env EXCEPT !.start = cursor'[e], !.data = d]
            BY <1>1, <2>3 DEF Suffix
        <3> HIDE DEF d
        <3>3. x.epoch = e /\ x.start = cursor'[e]
            BY <2>3, <3>1, <3>2 DEF Envelope
        <3>4. QED BY <2>3, <3>3
    <2>4. QED BY <1>1, <2>1, <2>2, <2>3, RowSteps
<1>2. ASSUME NEW w \in Senders, sender'[w].pc \in Carrying, x = sender'[w].env
      PROVE  \/ x \in Carried
             \/ ReadBatch(w) /\ sender[w].epoch = x.epoch /\ x.start = cursor[x.epoch]
    BY <1>2, EnvelopeSteps
<1>3. CASE x \in late'
    BY <1>3, LateSteps
<1>4. QED BY <1>1, <1>2, <1>3 DEF Carried

-----------------------------------------------------------------------------
(* The host is never behind a cursor.                                      *)

\* The host learns of an epoch from an envelope the agent built for it.
KnownIsRegistered == Known \subseteq Registered

CursorBelowWatermark == \A e \in Known : cursor[e] <= epochs[e].accepted

\* An envelope starts at or below its cursor, and at it until the host has
\* admitted one of its epoch.
EnvelopesBelowCursor ==
    \A x \in Carried : /\ x.start <= cursor[x.epoch]
                       /\ x.epoch \notin Known => x.start = cursor[x.epoch]

ReceiptsBelowWatermark ==
    \A w \in Senders : sender[w].pc \in {"created", "replay"} =>
        /\ sender[w].env.epoch \in Known
        /\ sender[w].env.end <= epochs[sender[w].env.epoch].accepted

ManifestsBelowWatermark ==
    \A w \in Senders : sender[w].pc \in Deciding /\ sender[w].manifest # None =>
        /\ sender[w].env.epoch \in Known
        /\ sender[w].env.start <= sender[w].manifest.accepted
        /\ sender[w].manifest.proven <= epochs[sender[w].env.epoch].accepted

Watermarks == /\ KnownIsRegistered /\ CursorBelowWatermark /\ EnvelopesBelowCursor
              /\ ReceiptsBelowWatermark /\ ManifestsBelowWatermark

WatermarkInv == NeverRestored /\ NoMetadata => Watermarks

\* No cursor falls, and none rises above the host's watermark.
LEMMA CursorsRise ==
    ASSUME LaneInv, Watermarks, NoMetadata, [Next]_vars, NEW e \in Registered
    PROVE  /\ cursor[e] <= cursor'[e]
           /\ e \in Known => cursor'[e] <= epochs[e].accepted
           /\ e \notin Known => cursor'[e] = cursor[e]
<1>1. cursor \in [Registered -> Nat] /\ cursor[e] \in Nat
    BY DEF LaneInv, CursorOK
<1>2. CASE cursor'[e] = cursor[e]
    BY <1>1, <1>2 DEF Watermarks, CursorBelowWatermark
<1>3. ASSUME NEW w \in Senders, MovesCursor(w), ~(ObserveFirst(w) \/ ObserveRotation(w)),
             cursor' # cursor
      PROVE  /\ cursor[e] <= cursor'[e]
             /\ e \in Known => cursor'[e] <= epochs[e].accepted
             /\ e \notin Known => cursor'[e] = cursor[e]
    <2>1. PICK env \in Carried, n \in Nat :
             /\ cursor' = [cursor EXCEPT ![env.epoch] = n]
             /\ \/ AtCursor(env) /\ n = env.end /\ Claude /\ StartupMetadata(env)
                \/ /\ AtCursor(env) /\ n = env.end /\ env = sender[w].env
                   /\ sender[w].pc \in {"created", "replay"}
                \/ /\ AtCursor(env) /\ n > env.start /\ env = sender[w].env
                   /\ sender[w].pc \in Deciding /\ sender[w].manifest # None
                   /\ n = sender[w].manifest.proven
                \/ /\ n < cursor[env.epoch] /\ env = sender[w].env
                   /\ sender[w].pc \in Deciding /\ sender[w].manifest # None
                   /\ n = sender[w].manifest.accepted /\ n < env.start
        BY <1>3, CursorMoveFacts
    <2>2. /\ env.start \in Nat /\ env.end \in Nat /\ env.start < env.end
          /\ env.epoch \in Registered
        BY CarriedIsRequest DEF Piece
    <2>3. ~(Claude /\ StartupMetadata(env))
        <3>1. Claude => "claude" \in Providers
            BY DEF Claude, LaneInv, FileOK
        <3>2. StartupMetadata(env) => env.start \in Meta
            BY <2>2 DEF StartupMetadata
        <3>3. QED BY <3>1, <3>2 DEF NoMetadata
    <2>4. CASE /\ AtCursor(env) /\ n = env.end /\ env = sender[w].env
               /\ sender[w].pc \in {"created", "replay"}
        BY <1>1, <2>1, <2>2, <2>4 DEF AtCursor, Watermarks, ReceiptsBelowWatermark,
                                      CursorBelowWatermark
    <2>5. CASE /\ AtCursor(env) /\ n > env.start /\ env = sender[w].env
               /\ sender[w].pc \in Deciding /\ sender[w].manifest # None
               /\ n = sender[w].manifest.proven
        BY <1>1, <2>1, <2>2, <2>5 DEF AtCursor, Watermarks, ManifestsBelowWatermark,
                                      CursorBelowWatermark
    <2>6. CASE /\ env = sender[w].env
               /\ sender[w].pc \in Deciding /\ sender[w].manifest # None
               /\ n = sender[w].manifest.accepted /\ n < env.start
        BY <2>2, <2>6 DEF Watermarks, ManifestsBelowWatermark
    <2>7. QED BY <2>1, <2>3, <2>4, <2>5, <2>6
<1>4. ASSUME NEW w \in Senders, ObserveFirst(w) \/ ObserveRotation(w)
      PROVE  cursor'[e] = cursor[e]
    BY <1>4, RegisteredFacts
<1>5. QED BY <1>2, <1>3, <1>4, CursorSteps

\* An epoch becomes known with the admission of its first envelope.
LEMMA KnownSteps ==
    ASSUME LaneInv, [Next]_vars, NeverRestored', NEW e \in Known', e \notin Known
    PROVE  /\ \E env \in Carried : e = env.epoch /\ epochs'[e].accepted = env.end
           /\ UNCHANGED <<cursor, registry>>
<1>1. ASSUME NEW env \in Carried, NEW screen, Ingest(env, screen, Verdict(env, screen))
      PROVE  e = env.epoch /\ epochs'[e].accepted = env.end
    <2>1. DOMAIN epochs' # DOMAIN epochs
        BY DEF Known
    <2>2. CommitRawObject(env, screen)
        BY <1>1, <2>1 DEF Ingest, RepairWatermark, hostVars
    <2>3. env.epoch \notin Known
        BY <2>1, <2>2 DEF CommitRawObject, Known
    <2>4. QED BY <2>2, <2>3 DEF CommitRawObject, Known
<1>2. ~UNCHANGED epochs
    BY DEF Known
<1>3. ~RestoreHost
    BY LaneAssumption DEF RestoreHost, NeverRestored, LaneInv, BudgetOK
<1>4. ASSUME NEW w \in Senders, Prepare(w) PROVE FALSE
    BY <1>2, <1>4 DEF Prepare, FindNothingPending, ResumePending, DiscardOversized,
                RetireEmptySource, ObserveFirst, ObserveRotation, ObserveSame, ReadBatch,
                SkipStartupMetadata, PersistPrepared, hostVars
<1>5. ASSUME NEW w \in Senders, Ship(w)
      PROVE  /\ \E env \in Carried : e = env.epoch /\ epochs'[e].accepted = env.end
             /\ UNCHANGED <<cursor, registry>>
    <2>1. PICK screen \in Screens : HostAnswers(w, screen)
        BY <1>2, <1>5 DEF Ship, PostEnvelope, ReexamineBlocked, Acknowledge, BlockRejected,
                FetchManifest, ResyncBehindHost, ReconcileProvenPrefix, BlockConflict,
                EndReexamination, ErrorReturn, hostVars
    <2>2. sender[w].env \in Carried
        BY <2>1, AnswerFacts
    <2>3. /\ Ingest(sender[w].env, screen, Verdict(sender[w].env, screen))
          /\ UNCHANGED <<cursor, registry>>
        BY <1>2, <2>1 DEF HostAnswers, hostVars
    <2>4. QED BY <1>1, <2>2, <2>3
<1>6. CASE Environment
    <2>1. PICK env \in late, screen \in Screens : LateArrival(env, screen)
        BY <1>2, <1>3, <1>6 DEF Environment, AppendRecord, ReplaceFile, TruncateFile, BindSession,
           DeleteSession, DeleteStorageSession, Abandon, DiscardUngated, OperatorDiscard,
           TakeRestorePoint, hostVars
    <2>2. env \in Carried
        BY DEF Carried
    <2>3. Ingest(env, screen, Verdict(env, screen)) /\ UNCHANGED <<cursor, registry>>
        BY <1>2, <2>1 DEF LateArrival, hostVars
    <2>4. QED BY <1>1, <2>2, <2>3
<1>7. CASE UNCHANGED vars
    BY <1>2, <1>7 DEF vars, hostVars
<1>8. QED BY <1>4, <1>5, <1>6, <1>7 DEF Next

\* Every step keeps WatermarkInv.
LEMMA WatermarkStep ==
    ASSUME LaneInv, WatermarkInv, [Next]_vars
    PROVE  WatermarkInv'
<1> SUFFICES ASSUME NeverRestored', NoMetadata
             PROVE  Watermarks'
    BY DEF WatermarkInv, NoMetadata
<1>1. NeverRestored /\ Watermarks
    BY HostGrows DEF WatermarkInv
<1>2. \A e \in Known : e \in Known' /\ epochs[e].accepted <= epochs'[e].accepted
    BY HostGrows DEF ArchiveOnlyGrows, Known
<1>3. LaneInv'
    BY LaneStepInv
<1>4. /\ \A e \in Known : epochs[e].accepted \in Nat
      /\ \A e \in Known' : epochs'[e].accepted \in Nat
      /\ cursor \in [Registered -> Nat] /\ cursor' \in [Registered' -> Nat]
    BY <1>3 DEF LaneInv, HostInv, HostTypeOK, EpochRow, CursorOK
<1>5. \A e \in Registered : /\ cursor[e] <= cursor'[e]
                            /\ e \in Known => cursor'[e] <= epochs[e].accepted
                            /\ e \notin Known => cursor'[e] = cursor[e]
    BY <1>1, CursorsRise
<1>6. Registered \subseteq Registered'
    BY RegistryGrows
<1>7. \A x \in Carried : x.start \in Nat /\ x.end \in Nat /\ x.start < x.end /\ x.epoch \in Registered
    BY CarriedIsRequest DEF Piece
<1>8. KnownIsRegistered'
    BY <1>1, <1>6, <1>7, KnownSteps DEF Watermarks, KnownIsRegistered
<1>9. CursorBelowWatermark'
    <2> SUFFICES ASSUME NEW e \in Known' PROVE cursor'[e] <= epochs'[e].accepted
        BY DEF CursorBelowWatermark
    <2>1. CASE e \in Known
        <3>1. e \in Registered /\ e \in Registered'
            BY <1>1, <1>6, <2>1 DEF Watermarks, KnownIsRegistered
        <3>2. QED BY <1>2, <1>4, <1>5, <2>1, <3>1
    <2>2. CASE e \notin Known
        <3>1. PICK env \in Carried : e = env.epoch /\ epochs'[e].accepted = env.end
            BY <2>2, KnownSteps
        <3>2. cursor' = cursor /\ env.start = cursor[e]
            BY <1>1, <2>2, <3>1, KnownSteps DEF Watermarks, EnvelopesBelowCursor
        <3>3. QED BY <1>7, <3>1, <3>2
    <2>3. QED BY <2>1, <2>2
<1>10. EnvelopesBelowCursor'
    <2> SUFFICES ASSUME NEW x \in Carried'
                 PROVE  /\ x.start <= cursor'[x.epoch]
                        /\ x.epoch \notin Known' => x.start = cursor'[x.epoch]
        BY DEF EnvelopesBelowCursor
    <2>0. x.start \in Nat
        BY <1>3 DEF LaneInv, PiecesOK, Piece
    <2>1. CASE x \in Carried
        <3>1. x.start <= cursor[x.epoch] /\ (x.epoch \notin Known => x.start = cursor[x.epoch])
            BY <1>1, <2>1 DEF Watermarks, EnvelopesBelowCursor
        <3>2. x.epoch \in Registered /\ x.epoch \in Registered'
            BY <1>6, <1>7, <2>1
        <3>3. QED BY <1>2, <1>4, <1>5, <2>0, <3>1, <3>2
    <2>2. ASSUME NEW w \in Senders, ReadBatch(w), x.start = cursor[x.epoch]
          PROVE  x.start = cursor'[x.epoch]
        BY <2>2 DEF ReadBatch
    <2>3. QED BY <2>0, <2>1, <2>2, CarriedSteps
<1>11. ReceiptsBelowWatermark'
    <2> SUFFICES ASSUME NEW w \in Senders, sender'[w].pc \in {"created", "replay"}
                 PROVE  /\ sender'[w].env.epoch \in Known'
                        /\ sender'[w].env.end <= epochs'[sender'[w].env.epoch].accepted
        BY DEF ReceiptsBelowWatermark
    <2>1. CASE sender'[w] = sender[w]
        <3>1. sender[w].env \in Carried
            BY <2>1, CarriedFacts DEF Carrying, Waiting
        <3>2. /\ sender[w].env.epoch \in Known
              /\ sender[w].env.end <= epochs[sender[w].env.epoch].accepted
            BY <1>1, <2>1 DEF Watermarks, ReceiptsBelowWatermark
        <3>3. QED BY <1>2, <1>4, <1>7, <2>1, <3>1, <3>2
    <2>2. ASSUME NEW screen \in Screens, HostAnswers(w, screen)
          PROVE  /\ sender'[w].env.epoch \in Known'
                 /\ sender'[w].env.end <= epochs'[sender'[w].env.epoch].accepted
        <3>1. PICK r \in raw' : /\ r.epoch = sender'[w].env.epoch /\ r.end = sender'[w].env.end
            BY <2>2, AnswerFacts
        <3>2. r.epoch \in Known' /\ r \in RawIn(r.epoch)'
            BY <1>3, <3>1 DEF LaneInv, HostInv, HostTypeOK, RawIn
        <3>3. r.end <= epochs'[r.epoch].accepted
            BY <1>3, <3>2 DEF LaneInv, HostInv, ContiguousArchive, RawIn
        <3>4. QED BY <3>1, <3>2, <3>3
    <2>3. sender'[w].pc \notin Deciding
        BY DEF Deciding
    <2>4. QED BY <2>1, <2>2, <2>3, SenderSteps, ManifestFacts
<1>12. ManifestsBelowWatermark'
    <2> SUFFICES ASSUME NEW w \in Senders, sender'[w].pc \in Deciding, sender'[w].manifest # None
                 PROVE  /\ sender'[w].env.epoch \in Known'
                        /\ sender'[w].env.start <= sender'[w].manifest.accepted
                        /\ sender'[w].manifest.proven <= epochs'[sender'[w].env.epoch].accepted
        BY DEF ManifestsBelowWatermark
    <2>1. CASE sender'[w] = sender[w]
        <3>1. /\ sender[w].env.epoch \in Known
              /\ sender[w].env.start <= sender[w].manifest.accepted
              /\ sender[w].manifest.proven <= epochs[sender[w].env.epoch].accepted
            BY <1>1, <2>1 DEF Watermarks, ManifestsBelowWatermark
        <3>2. sender[w].manifest.proven \in Nat
            BY <2>1, CarriedFacts, SenderFields DEF Manifest
        <3>3. QED BY <1>2, <1>4, <2>1, <3>1, <3>2
    <2>2. CASE FetchManifest(w)
        <3> DEFINE env == sender[w].env
                   e == env.epoch
                   m == ManifestFor(env)
        <3>1. /\ env \in Carried /\ sender'[w].env = env /\ sender'[w].manifest = m
              /\ epochs' = epochs
            BY <2>2, ManifestFacts DEF hostVars
        <3>2. /\ e \in Known /\ m.accepted = epochs[e].accepted /\ m.proven \in env.start .. env.end
              /\ \A k \in env.start .. (m.proven - 1) : Archived(e, k)
            BY <3>1, ProvenIsArchived
        <3>3. env.start <= epochs[e].accepted
            <4>1. e \in Registered /\ cursor[e] <= epochs[e].accepted /\ env.start <= cursor[e]
                BY <1>1, <3>1, <3>2 DEF Watermarks, KnownIsRegistered, CursorBelowWatermark,
                                        EnvelopesBelowCursor
            <4>2. QED BY <1>4, <1>7, <3>1, <3>2, <4>1
        <3>4. m.proven <= epochs[e].accepted
            <4>1. CASE m.proven = env.start
                BY <3>3, <4>1
            <4>2. CASE m.proven # env.start
                <5>1. m.proven - 1 \in env.start .. (m.proven - 1) /\ m.proven \in Nat
                    BY <1>7, <3>1, <3>2, <4>2
                <5>2. PICK r \in RawIn(e) : r.start <= m.proven - 1 /\ m.proven - 1 < r.end
                    BY <3>2, <5>1 DEF Archived
                <5>3. r.end <= epochs[e].accepted /\ r.end \in Nat
                    BY <3>2, <5>2 DEF LaneInv, HostInv, HostTypeOK, ContiguousArchive, RawIn
                <5>4. QED BY <1>4, <3>2, <5>1, <5>2, <5>3
            <4>3. QED BY <4>1, <4>2
        <3>5. QED BY <3>1, <3>2, <3>3, <3>4 DEF Known
    <2>3. ASSUME NEW screen \in Screens, HostAnswers(w, screen) PROVE FALSE
        BY <2>3, AnswerFacts DEF Deciding, Waiting
    <2>4. QED BY <2>1, <2>2, <2>3, SenderSteps
<1>13. QED BY <1>8, <1>9, <1>10, <1>11, <1>12 DEF Watermarks

\* The host's watermark stays at or above every cursor and every manifest.
THEOREM WatermarkInvariant == Spec => []WatermarkInv
<1>1. LaneInit => WatermarkInv
    BY DEF LaneInit, HostInit, WatermarkInv, Watermarks, KnownIsRegistered, CursorBelowWatermark,
       EnvelopesBelowCursor, ReceiptsBelowWatermark, ManifestsBelowWatermark, Carried, Known,
       Idle, Carrying, Holding, Waiting, Deciding
<1>2. LaneInv /\ WatermarkInv /\ [Next]_vars => WatermarkInv'
    BY WatermarkStep
<1>3. QED BY <1>1, <1>2, LaneInvariant, PTL DEF Spec

-----------------------------------------------------------------------------
(* What a rewind passes.                                                   *)

\* Below an envelope everything is archived or exempt.
EnvelopesSupported ==
    \A x \in Carried : \A k \in 0 .. (x.start - 1) :
        Archived(x.epoch, k) \/ Exempt(x.epoch, k)

\* Between a manifest's watermark and the envelope above it everything is exempt.
ManifestGapsExempt ==
    \A w \in Senders : sender[w].pc \in Deciding /\ sender[w].manifest # None =>
        \A k \in sender[w].manifest.accepted .. (sender[w].env.start - 1) :
            Exempt(sender[w].env.epoch, k)

GapInv == NeverRestored => EnvelopesSupported /\ ManifestGapsExempt

\* Every step keeps GapInv.
LEMMA GapStep ==
    ASSUME LaneInv, AckInv, GapInv, [Next]_vars
    PROVE  GapInv'
<1> SUFFICES ASSUME NeverRestored'
             PROVE  EnvelopesSupported' /\ ManifestGapsExempt'
    BY DEF GapInv
<1>1. NeverRestored /\ raw \subseteq raw'
    BY HostGrows DEF ArchiveOnlyGrows
<1>2. /\ EnvelopesSupported /\ ManifestGapsExempt
      /\ AckedIsArchived /\ ManifestsAreArchived
    BY <1>1 DEF GapInv, AckInv
<1>3. \A e, k : Archived(e, k) => Archived(e, k)'
    BY <1>1, ArchivedStays
<1>4. \A k : \A e \in Registered : Exempt(e, k) => Exempt(e, k)'
    BY RegistryGrows DEF Exempt, Claude
<1>5. \A x \in Carried : x.start \in Nat /\ x.end \in Nat /\ x.epoch \in Registered
    BY CarriedIsRequest DEF Piece
<1>6. ASSUME NEW x \in Carried', NEW k \in 0 .. (x.start - 1)
      PROVE  Archived(x.epoch, k)' \/ Exempt(x.epoch, k)'
    <2>1. CASE x \in Carried
        BY <1>2, <1>3, <1>4, <1>5, <2>1 DEF EnvelopesSupported
    <2>2. ASSUME NEW w \in Senders, ReadBatch(w), sender[w].epoch = x.epoch,
                 x.start = cursor[x.epoch]
          PROVE  Archived(x.epoch, k)' \/ Exempt(x.epoch, k)'
        <3>1. LaneInv'
            BY LaneStepInv
        <3>2. x.epoch \in Registered
            BY <2>2, <3>1 DEF LaneInv, PiecesOK, Piece, ReadBatch, Registered
        <3>3. QED BY <1>1, <1>2, <1>3, <1>4, <2>2, <3>2 DEF AckedIsArchived
    <2>3. ASSUME NEW w \in Senders, ReconcileProvenPrefix(w), sender[w].env.epoch = x.epoch,
                 x.start = sender[w].manifest.proven
          PROVE  Archived(x.epoch, k)' \/ Exempt(x.epoch, k)'
        <3> DEFINE env == sender[w].env
        <3>1. /\ sender[w].pc \in Deciding /\ sender[w].manifest # None /\ env \in Carried
              /\ sender[w].manifest.proven \in Nat
            BY <2>3, CarriedFacts, SenderFields DEF ReconcileProvenPrefix, Deciding, Carrying, Manifest
        <3>2. CASE k < env.start
            <4>1. k \in 0 .. (env.start - 1)
                BY <1>5, <2>3, <3>1, <3>2
            <4>2. QED BY <1>2, <1>3, <1>4, <1>5, <2>3, <3>1, <4>1 DEF EnvelopesSupported
        <3>3. CASE ~(k < env.start)
            <4>1. k \in env.start .. (sender[w].manifest.proven - 1)
                BY <1>5, <2>3, <3>1, <3>3
            <4>2. QED BY <1>2, <1>3, <2>3, <3>1, <4>1 DEF ManifestsAreArchived
        <3>4. QED BY <3>2, <3>3
    <2>4. QED BY <2>1, <2>2, <2>3, CarriedSteps
<1>7. ASSUME NEW w \in Senders, sender'[w].pc \in Deciding, sender'[w].manifest # None,
             NEW e, e = sender'[w].env.epoch,
             NEW k \in sender'[w].manifest.accepted .. (sender'[w].env.start - 1)
      PROVE  Exempt(e, k)'
    <2>1. CASE sender'[w] = sender[w]
        <3>1. sender[w].env \in Carried
            BY <1>7, <2>1, CarriedFacts DEF Carrying
        <3>2. Exempt(e, k) /\ e \in Registered
            BY <1>2, <1>5, <1>7, <2>1, <3>1 DEF ManifestGapsExempt
        <3>3. QED BY <1>4, <3>2
    <2>2. CASE FetchManifest(w)
        <3> DEFINE env == sender[w].env
        <3>1. /\ env \in Carried /\ sender'[w].env = env
              /\ sender'[w].manifest = ManifestFor(env)
            BY <2>2, ManifestFacts
        <3>2. e \in Known /\ sender'[w].manifest.accepted = epochs[e].accepted
            BY <1>7, <3>1, ProvenIsArchived
        <3>3. epochs[e].accepted \in Nat
            BY <3>2 DEF LaneInv, HostInv, HostTypeOK, EpochRow
        <3>4. ~Archived(e, k)
            <4>1. ASSUME NEW r \in RawIn(e) PROVE r.end \in Nat /\ r.end <= epochs[e].accepted
                BY <3>2 DEF LaneInv, HostInv, HostTypeOK, ContiguousArchive, RawIn
            <4>2. QED BY <1>7, <3>2, <3>3, <4>1 DEF Archived
        <3>5. k \in 0 .. (env.start - 1)
            BY <1>5, <1>7, <3>1, <3>2, <3>3
        <3>6. Exempt(e, k) /\ e \in Registered
            BY <1>2, <1>5, <1>7, <3>1, <3>4, <3>5 DEF EnvelopesSupported
        <3>7. QED BY <1>4, <3>6
    <2>3. ASSUME NEW screen \in Screens, HostAnswers(w, screen) PROVE FALSE
        BY <1>7, <2>3, AnswerFacts DEF Deciding, Waiting
    <2>4. QED BY <1>7, <2>1, <2>2, <2>3, SenderSteps
<1>8. EnvelopesSupported'
    BY <1>6 DEF EnvelopesSupported
<1>9. ManifestGapsExempt'
    BY <1>7 DEF ManifestGapsExempt
<1>10. QED BY <1>8, <1>9

\* However long ago a manifest was fetched, nothing that had to be archived lies
\* between its watermark and the envelope it was fetched for.
LEMMA GapInvariant == Spec => []GapInv
<1>1. LaneInit => GapInv
    BY DEF LaneInit, GapInv, EnvelopesSupported, ManifestGapsExempt, Carried, Idle, Carrying,
           Holding, Waiting, Deciding
<1>2. LaneInv /\ AckInv /\ GapInv /\ [Next]_vars => GapInv'
    BY GapStep
<1>3. QED BY <1>1, <1>2, LaneInvariant, AckInvariant, PTL DEF Spec

\* Before the first restore a cursor moves back only as its row is given back, and
\* only to a watermark with nothing but exempt positions below the row.
LEMMA RewindFacts ==
    ASSUME LaneInv, GapInv, [Next]_vars, NeverRestored, NEW e \in Registered,
           cursor'[e] < cursor[e]
    PROVE  /\ e \in DOMAIN pending
           /\ \A k \in cursor'[e] .. (pending[e].env.start - 1) : Exempt(e, k)
<1>1. cursor \in [Registered -> Nat] /\ cursor[e] \in Nat
    BY DEF LaneInv, CursorOK
<1>2. cursor'[e] # cursor[e]
    BY <1>1
<1>3. PICK w \in Senders : MovesCursor(w) /\ ~(ObserveFirst(w) \/ ObserveRotation(w))
    BY <1>2, CursorSteps, RegisteredFacts
<1>4. PICK env \in Carried, n \in Nat :
         /\ cursor' = [cursor EXCEPT ![env.epoch] = n]
         /\ \/ AtCursor(env) /\ n >= env.start
            \/ /\ Holds(env) /\ env = sender[w].env
               /\ sender[w].pc \in Deciding /\ sender[w].manifest # None
               /\ n = sender[w].manifest.accepted
    <2>1. \A env \in Carried : env.start \in Nat /\ env.end \in Nat /\ env.start < env.end
        BY CarriedIsRequest DEF Piece
    <2>2. QED BY <1>2, <1>3, <2>1, CursorMoveFacts
<1>5. env.epoch = e /\ cursor'[e] = n
    BY <1>1, <1>2, <1>4
<1>6. ~(AtCursor(env) /\ n >= env.start)
    <2>1. env.start \in Nat
        BY CarriedIsRequest DEF Piece
    <2>2. QED BY <1>1, <1>5, <2>1 DEF AtCursor
<1>7. e \in DOMAIN pending /\ pending[e].env = env
    BY <1>4, <1>5, <1>6 DEF Holds
<1>8. QED BY <1>4, <1>5, <1>6, <1>7 DEF GapInv, ManifestGapsExempt

\* Only a host that lost part of its archive makes a cursor move back, except over
\* startup metadata: a stale manifest, a late request or a racing sender never does.
THEOREM RewindsNeedARestore == Spec => RewindNeedsRestore
<1> DEFINE Rise == \A e \in Registered : cursor'[e] < cursor[e] /\ NeverRestored =>
                       /\ ~NoMetadata
                       /\ e \in DOMAIN pending
                       /\ \A k \in cursor'[e] .. (pending[e].env.start - 1) : Exempt(e, k)
<1>1. LaneInv /\ WatermarkInv /\ GapInv /\ [Next]_vars => [Rise]_vars
    <2> SUFFICES ASSUME LaneInv, WatermarkInv, GapInv, [Next]_vars, NEW e \in Registered,
                        cursor'[e] < cursor[e], NeverRestored
                 PROVE  /\ ~NoMetadata
                        /\ e \in DOMAIN pending
                        /\ \A k \in cursor'[e] .. (pending[e].env.start - 1) : Exempt(e, k)
        OBVIOUS
    <2>1. cursor[e] \in Nat /\ cursor'[e] \in Nat
        <3>1. CursorOK /\ CursorOK'
            BY LaneStepInv DEF LaneInv
        <3>2. QED BY <3>1, RegistryGrows DEF CursorOK
    <2>2. ~NoMetadata
        <3>1. NoMetadata => cursor[e] <= cursor'[e]
            BY CursorsRise DEF WatermarkInv
        <3>2. QED BY <2>1, <3>1
    <2>3. QED BY <2>2, RewindFacts
<1>2. QED BY <1>1, LaneInvariant, WatermarkInvariant, GapInvariant, PTL DEF Spec, RewindNeedsRestore

-----------------------------------------------------------------------------
(* One sender.                                                             *)

\* What a sender is doing between finding no row and persisting one.
Preparing == {"scan", "observed", "candidate"}

\* With one sender there is at most one row, none while a batch is prepared, and
\* the batch starts at the cursor.
OneSenderInv ==
    Cardinality(Senders) = 1 =>
        /\ PendingStartsAtCursor
        /\ \A e, f \in DOMAIN pending : e = f
        /\ \A w \in Senders : sender[w].pc \in Preparing => DOMAIN pending = {}
        /\ \A w \in Senders : sender[w].pc = "candidate" =>
              sender[w].env.start = cursor[sender[w].env.epoch]

\* The steps of the only sender keep its rows at the cursor.
LEMMA OneSenderRows ==
    ASSUME LaneInv, OneSenderInv, [Next]_vars, Cardinality(Senders) = 1, NEW w, Senders = {w}
    PROVE  /\ \A e \in DOMAIN pending' : pending'[e].env.start = cursor'[e]
           /\ \A e, f \in DOMAIN pending' : e = f
<1> DEFINE Rows == /\ \A e \in DOMAIN pending' : pending'[e].env.start = cursor'[e]
                   /\ \A e, f \in DOMAIN pending' : e = f
<1>1. /\ \A e \in DOMAIN pending : pending[e].env.start = cursor[e]
      /\ \A e, f \in DOMAIN pending : e = f
      /\ sender[w].pc \in Preparing => DOMAIN pending = {}
      /\ sender[w].pc = "candidate" => sender[w].env.start = cursor[sender[w].env.epoch]
    BY DEF OneSenderInv, PendingStartsAtCursor
<1>2. CASE ~MovesCursor(w)
    <2>1. cursor' = cursor
        BY <1>2, CursorSteps
    <2>2. ~ReconcileProvenPrefix(w)
        BY <1>2 DEF MovesCursor
    <2>3. PersistPrepared(w) => sender[w].pc = "candidate" /\ DOMAIN pending = {}
        BY <1>1 DEF PersistPrepared, Preparing
    <2>4. \A e \in DOMAIN pending' :
             \/ e \in DOMAIN pending /\ pending'[e].env = pending[e].env
             \/ /\ PersistPrepared(w) /\ e = sender[w].env.epoch
                /\ pending'[e].env = sender[w].env
        BY <2>2, RowSteps
    <2>5. QED BY <1>1, <2>1, <2>3, <2>4
<1>3. DOMAIN pending' = {} => Rows
    OBVIOUS
<1>4. UNCHANGED <<pending, cursor>> => Rows
    BY <1>1
<1>5. \A e \in DOMAIN pending : pending' = Drop(pending, e) => Rows
    BY <1>1, <1>3 DEF Drop
<1>6. CASE ObserveFirst(w) \/ ObserveRotation(w)
    BY <1>1, <1>3, <1>6 DEF ObserveFirst, ObserveRotation, Preparing
<1>7. CASE SkipStartupMetadata(w)
    BY <1>1, <1>3, <1>7 DEF SkipStartupMetadata, Preparing
<1>8. CASE \E limit \in {LiveBatch, MaxBatch}, e \in Epochs : RetireEmptySource(w, e, limit)
    BY <1>5, <1>8 DEF RetireEmptySource
<1>9. CASE Acknowledge(w)
    BY <1>4, <1>5, <1>9 DEF Acknowledge, Holds
<1>10. CASE ResyncBehindHost(w)
    BY <1>4, <1>5, <1>10 DEF ResyncBehindHost, Holds
<1>11. CASE ReconcileProvenPrefix(w)
    <2> DEFINE env == sender[w].env
               p == sender[w].manifest.proven
               rest == [env |-> Suffix(env, p), attempted |-> FALSE, block |-> None]
    <2>1. \/ UNCHANGED <<cursor, pending>>
          \/ Holds(env) /\ pending' = Drop(pending, env.epoch)
          \/ /\ Holds(env)
             /\ cursor' = [cursor EXCEPT ![env.epoch] = p]
             /\ pending' = With(pending, env.epoch, rest)
        BY <1>11 DEF ReconcileProvenPrefix
    <2>2. env \in Envelope /\ env.epoch \in Registered
        BY <1>11, CarriedFacts DEF ReconcileProvenPrefix, Carrying, Deciding
    <2>3. Suffix(env, p).start = p
        <3> DEFINE d == SubSeq(env.data, p - env.start + 1, env.end - env.start)
        <3>1. Suffix(env, p) = [env EXCEPT !.start = p, !.data = d]
            BY DEF Suffix
        <3> HIDE DEF d
        <3>2. QED BY <2>2, <3>1 DEF Envelope
    <2>4. rest.env.start = p
        BY <2>3
    <2>5. DOMAIN cursor = Registered
        BY DEF LaneInv, CursorOK
    <2> HIDE DEF rest
    <2>6. CASE /\ Holds(env)
               /\ cursor' = [cursor EXCEPT ![env.epoch] = p]
               /\ pending' = With(pending, env.epoch, rest)
        <3>1. DOMAIN pending = {env.epoch}
            BY <1>1, <2>6 DEF Holds
        <3>2. DOMAIN pending' = {env.epoch} /\ pending'[env.epoch] = rest
            BY <2>6, <3>1 DEF With
        <3>3. QED BY <2>2, <2>4, <2>5, <2>6, <3>2
    <2>7. QED BY <1>4, <1>5, <2>1, <2>6 DEF Holds
<1>12. QED BY <1>2, <1>6, <1>7, <1>8, <1>9, <1>10, <1>11 DEF MovesCursor

\* While it prepares a batch there is no row, and the batch is at the cursor.
LEMMA OneSenderBatch ==
    ASSUME LaneInv, OneSenderInv, [Next]_vars, Cardinality(Senders) = 1, NEW w, Senders = {w},
           sender'[w].pc \in Preparing
    PROVE  /\ DOMAIN pending' = {}
           /\ sender'[w].pc = "candidate" => sender'[w].env.start = cursor'[sender'[w].env.epoch]
<1>1. /\ \A e, f \in DOMAIN pending : e = f
      /\ sender[w].pc \in Preparing => DOMAIN pending = {}
      /\ sender[w].pc = "candidate" => sender[w].env.start = cursor[sender[w].env.epoch]
    BY DEF OneSenderInv
<1>2. \A st : Become(w, st) => sender'[w] = st
    BY DEF Become, LaneInv, SendersOK
<1>3. \A e \in DOMAIN pending : pending' = Drop(pending, e) => DOMAIN pending' = {}
    BY <1>1 DEF Drop
<1>4. ~Become(w, Idle)
    BY <1>2 DEF Idle, Preparing
<1>5. ASSUME NEW limit \in {LiveBatch, MaxBatch}, NEW e \in Epochs,
             \/ FindNothingPending(w, limit) \/ ResumePending(w, e, limit)
             \/ DiscardOversized(w, e, limit) \/ RetireEmptySource(w, e, limit)
      PROVE  DOMAIN pending' = {} /\ sender'[w].pc # "candidate"
    <2>1. ~Become(w, Prepared(pending[e]))
        BY <1>2 DEF Prepared, Preparing
    <2>2. Become(w, Scanning(limit)) => sender'[w].pc # "candidate"
        BY <1>2 DEF Scanning
    <2>3. QED BY <1>3, <1>5, <2>1, <2>2
              DEF FindNothingPending, ResumePending, DiscardOversized, RetireEmptySource
<1>6. ASSUME ObserveFirst(w) \/ ObserveRotation(w) \/ ObserveSame(w)
      PROVE  DOMAIN pending' = {} /\ sender'[w].pc # "candidate"
    <2>1. \A e, x : Become(w, Observed(w, e, x)) => sender'[w].pc # "candidate"
        BY <1>2 DEF Observed
    <2>2. QED BY <1>1, <1>6, <2>1 DEF ObserveFirst, ObserveRotation, ObserveSame, Preparing
<1>7. ASSUME ReadBatch(w)
      PROVE  DOMAIN pending' = {} /\ sender'[w].env.start = cursor'[sender'[w].env.epoch]
    <2> DEFINE e == sender[w].epoch
               env == BatchFrom(w, e, cursor[e])
    <2>1. DOMAIN pending' = {} /\ cursor' = cursor
        BY <1>1, <1>7 DEF ReadBatch, Preparing
    <2>2. Become(w, [pc |-> "candidate", env |-> env])
        BY <1>4, <1>7 DEF ReadBatch
    <2>3. env.epoch = e /\ env.start = cursor[e]
        BY DEF BatchFrom
    <2> HIDE DEF env
    <2>4. sender'[w].env = env
        BY <1>2, <2>2
    <2>5. QED BY <2>1, <2>3, <2>4
<1>8. ~SkipStartupMetadata(w) /\ ~PersistPrepared(w)
    <2>1. \A row : ~Become(w, Prepared(row))
        BY <1>2 DEF Prepared, Preparing
    <2>2. QED BY <1>4, <2>1 DEF SkipStartupMetadata, PersistPrepared
<1>9. ~Ship(w)
    <2>1. \A env, b : \A pc \in {"posted", "probing"} : ~Become(w, [pc |-> pc, env |-> env, block |-> b])
        BY <1>2 DEF Preparing
    <2>2. ~PostEnvelope(w) /\ ~ReexamineBlocked(w) /\ ~EndReexamination(w)
        BY <1>4, <2>1 DEF PostEnvelope, ReexamineBlocked, EndReexamination
    <2>3. \A screen \in Screens : ~HostAnswers(w, screen)
        BY AnswerFacts DEF Preparing, Waiting
    <2>4. ~FetchManifest(w)
        BY ManifestFacts DEF Preparing, Deciding
    <2>5. QED BY <1>4, <2>2, <2>3, <2>4 DEF Ship, Acknowledge, BlockRejected, ResyncBehindHost,
              ReconcileProvenPrefix, BlockConflict, ErrorReturn
<1>10. ASSUME Environment \/ UNCHANGED vars
       PROVE  /\ sender' = sender /\ cursor' = cursor
              /\ pending' = pending \/ \E e : pending' = Drop(pending, e)
    <2>1. \A v \in Senders : ~Abandon(v) /\ ~DiscardUngated(v)
        BY <1>4 DEF Abandon, DiscardUngated
    <2>2. ASSUME NEW e \in Epochs, OperatorDiscard(e)
          PROVE  /\ sender' = sender /\ cursor' = cursor
                 /\ pending' = Drop(pending, e)
        BY <2>2 DEF OperatorDiscard
    <2>3. ASSUME UNCHANGED vars PROVE UNCHANGED <<sender, cursor, pending>>
        BY <2>3 DEF vars, laneVars
    <2>4. ASSUME Environment, ~\E e \in Epochs : OperatorDiscard(e)
          PROVE  UNCHANGED <<sender, cursor, pending>>
        BY <2>1, <2>4 DEF Environment, AppendRecord, ReplaceFile, TruncateFile, BindSession,
           DeleteSession, LateArrival, TakeRestorePoint, RestoreHost
    <2>5. QED BY <1>10, <2>2, <2>3, <2>4
<1>11. CASE Environment \/ UNCHANGED vars
    <2>1. DOMAIN pending = {}
        BY <1>1, <1>10, <1>11
    <2>2. DOMAIN pending' = {}
        BY <1>10, <1>11, <2>1 DEF Drop
    <2>3. QED BY <1>1, <1>10, <1>11, <2>2
<1>12. CASE Prepare(w)
    BY <1>5, <1>6, <1>7, <1>8, <1>12, LaneAssumption DEF Prepare
<1>13. QED BY <1>9, <1>11, <1>12 DEF Next

\* OneSenderInv is an invariant of the lane.
LEMMA OneSenderInvariant == Spec => []OneSenderInv
<1>1. LaneInit => OneSenderInv
    BY DEF LaneInit, OneSenderInv, PendingStartsAtCursor, Idle, Preparing
<1>2. LaneInv /\ OneSenderInv /\ [Next]_vars => OneSenderInv'
    <2> SUFFICES ASSUME LaneInv, OneSenderInv, [Next]_vars, Cardinality(Senders) = 1
                 PROVE  /\ PendingStartsAtCursor'
                        /\ \A e, f \in DOMAIN pending' : e = f
                        /\ \A w \in Senders : sender'[w].pc \in Preparing => DOMAIN pending' = {}
                        /\ \A w \in Senders : sender'[w].pc = "candidate" =>
                              sender'[w].env.start = cursor'[sender'[w].env.epoch]
        BY DEF OneSenderInv
    <2>1. PICK w : Senders = {w}
        BY LaneAssumption, FS_Singleton
    <2>2. /\ \A e \in DOMAIN pending' : pending'[e].env.start = cursor'[e]
          /\ \A e, f \in DOMAIN pending' : e = f
        BY <2>1, OneSenderRows
    <2>3. sender'[w].pc \in Preparing =>
             /\ DOMAIN pending' = {}
             /\ sender'[w].pc = "candidate" =>
                   sender'[w].env.start = cursor'[sender'[w].env.epoch]
        BY <2>1, OneSenderBatch
    <2>4. sender'[w].pc = "candidate" => sender'[w].pc \in Preparing
        BY DEF Preparing
    <2>5. QED BY <2>1, <2>2, <2>3, <2>4 DEF PendingStartsAtCursor
<1>3. QED BY <1>1, <1>2, LaneInvariant, PTL DEF Spec

\* With one sender, the queued envelope is always the next one the cursor needs.
THEOREM OneSenderStartsAtCursor == Spec => []PendingStartsAtCursor
<1>1. OneSenderInv => PendingStartsAtCursor
    BY DEF OneSenderInv, PendingStartsAtCursor
<1>2. QED BY <1>1, OneSenderInvariant, PTL

-----------------------------------------------------------------------------
(* The refinement.                                                         *)

\* A host that is not restored does nothing to its rows but admit an envelope of
\* the agent.
LEMMA HostSteps ==
    ASSUME LaneInv, [Next]_vars, NeverRestored'
    PROVE  \/ UNCHANGED <<epochs, raw>>
           \/ /\ \E env \in Carried, screen \in Screens :
                    Verdict(env, screen) = "created" /\ CommitRawObject(env, screen)
              /\ UNCHANGED <<cursor, registry, file>>
<1> SUFFICES ASSUME ~UNCHANGED <<epochs, raw>>
             PROVE  /\ \E env \in Carried, screen \in Screens :
                          Verdict(env, screen) = "created" /\ CommitRawObject(env, screen)
                    /\ UNCHANGED <<cursor, registry, file>>
    OBVIOUS
<1>1. ASSUME NEW env \in Carried, NEW screen \in Screens, Ingest(env, screen, Verdict(env, screen))
      PROVE  Verdict(env, screen) = "created" /\ CommitRawObject(env, screen)
    <2>1. ~UNCHANGED hostVars
        BY DEF hostVars
    <2>2. ~(Verdict(env, screen) = "conflict" /\ RangeExamined(env, screen) /\ RepairWatermark(env))
        BY <2>1, RefusedFacts, RepairKeepsInv DEF LaneInv
    <2>3. QED BY <1>1, <2>1, <2>2 DEF Ingest
<1>2. ~RestoreHost
    BY LaneAssumption DEF RestoreHost, NeverRestored, LaneInv, BudgetOK
<1>3. ASSUME NEW w \in Senders, Prepare(w) PROVE FALSE
    BY <1>3 DEF Prepare, FindNothingPending, ResumePending, DiscardOversized,
                RetireEmptySource, ObserveFirst, ObserveRotation, ObserveSame, ReadBatch,
                SkipStartupMetadata, PersistPrepared, hostVars
<1>4. ASSUME NEW w \in Senders, Ship(w)
      PROVE  /\ \E env \in Carried, screen \in Screens :
                    Verdict(env, screen) = "created" /\ CommitRawObject(env, screen)
             /\ UNCHANGED <<cursor, registry, file>>
    <2>1. PICK screen \in Screens : HostAnswers(w, screen)
        BY <1>4 DEF Ship, PostEnvelope, ReexamineBlocked, Acknowledge, BlockRejected,
                FetchManifest, ResyncBehindHost, ReconcileProvenPrefix, BlockConflict,
                EndReexamination, ErrorReturn, hostVars
    <2>2. sender[w].env \in Carried
        BY <2>1, AnswerFacts
    <2>3. /\ Ingest(sender[w].env, screen, Verdict(sender[w].env, screen))
          /\ UNCHANGED <<cursor, registry, file>>
        BY <2>1 DEF HostAnswers, hostVars
    <2>4. QED BY <1>1, <2>2, <2>3
<1>5. CASE Environment
    <2>1. PICK env \in late, screen \in Screens : LateArrival(env, screen)
        BY <1>2, <1>5 DEF Environment, AppendRecord, ReplaceFile, TruncateFile, BindSession,
           DeleteSession, DeleteStorageSession, Abandon, DiscardUngated, OperatorDiscard,
           TakeRestorePoint, hostVars
    <2>2. env \in Carried
        BY DEF Carried
    <2>3. Ingest(env, screen, Verdict(env, screen)) /\ UNCHANGED <<cursor, registry, file>>
        BY <2>1 DEF LateArrival, hostVars
    <2>4. QED BY <1>1, <2>2, <2>3
<1>6. CASE UNCHANGED vars
    BY <1>6 DEF vars, hostVars
<1>7. QED BY <1>3, <1>4, <1>5, <1>6 DEF Next

\* The positions a log holds are the archived ones.
LEMMA LogDomain ==
    ASSUME LaneInv, NEW e, NEW k
    PROVE  k \in DOMAIN LogOf(e) <=> k \in Nat /\ Archived(e, k)
<1>1. DOMAIN LogOf(e) = UNION {r.start .. (r.end - 1) : r \in RawIn(e)}
    BY DEF LogOf
<1>2. \A r \in RawIn(e) : r.start \in Nat /\ r.end \in Nat
    BY DEF LaneInv, HostInv, HostTypeOK, RawIn
<1>3. QED BY <1>1, <1>2 DEF Archived

\* A position is in one row only, so a log reads it from there.
LEMMA LogAt ==
    ASSUME LaneInv, NEW e \in Known, NEW r \in RawIn(e), NEW k \in Nat, r.start <= k, k < r.end
    PROVE  LogOf(e)[k] = r.data[k - r.start + 1]
<1> DEFINE row == CHOOSE x \in RawIn(e) : x.start <= k /\ k < x.end
<1>1. k \in DOMAIN LogOf(e)
    BY LogDomain DEF Archived
<1>2. LogOf(e)[k] = row.data[k - row.start + 1]
    BY <1>1 DEF LogOf
<1>3. row \in RawIn(e) /\ row.start <= k /\ k < row.end
    OBVIOUS
<1> HIDE DEF row
<1>4. \A x \in RawIn(e) : x.start \in Nat /\ x.end \in Nat
    BY DEF LaneInv, HostInv, HostTypeOK, RawIn
<1>5. row # r => row.end <= r.start \/ r.end <= row.start
    BY <1>3 DEF LaneInv, HostInv, ContiguousArchive
<1>6. row = r
    BY <1>3, <1>4, <1>5
<1>7. QED BY <1>2, <1>6

\* A log has no hole.
LEMMA LogIsInterval ==
    ASSUME LaneInv, NEW e \in Known
    PROVE  Archive!IsInterval(DOMAIN LogOf(e))
<1> SUFFICES ASSUME NEW i \in DOMAIN LogOf(e), NEW j \in DOMAIN LogOf(e), NEW q \in i .. j
             PROVE  q \in DOMAIN LogOf(e)
    BY DEF Archive!IsInterval
<1>1. i \in Nat /\ j \in Nat /\ Archived(e, i) /\ Archived(e, j)
    BY LogDomain
<1>2. PICK r \in RawIn(e) : r.start <= i /\ i < r.end
    BY <1>1 DEF Archived
<1>3. PICK t \in RawIn(e) : t.start <= j /\ j < t.end
    BY <1>1 DEF Archived
<1>4. /\ r.start \in Nat /\ t.end \in Nat /\ epochs[e].accepted \in Nat
      /\ t.end <= epochs[e].accepted
    BY <1>2, <1>3 DEF LaneInv, HostInv, HostTypeOK, EpochRow, ContiguousArchive, RawIn
<1>5. q \in Nat /\ q \in r.start .. (epochs[e].accepted - 1)
    BY <1>1, <1>2, <1>3, <1>4
<1>6. \E x \in RawIn(e) : x.start <= q /\ q < x.end
    BY <1>2, <1>5 DEF LaneInv, HostInv, ContiguousArchive
<1>7. QED BY <1>5, <1>6, LogDomain DEF Archived

\* The log of an epoch that gets no row stays.
LEMMA LogStays ==
    ASSUME NEW e, RawIn(e)' = RawIn(e)
    PROVE  LogOf(e)' = LogOf(e)
BY DEF LogOf

\* The one open epoch of the source is the current log.
LEMMA CurrentIs ==
    ASSUME LaneInv, NEW e \in Known, epochs[e].state = "open"
    PROVE  OpenEpochs(Source) = {e}
<1>1. \A f \in Known : epochs[f].source = Source
    BY LaneAssumption DEF LaneInv, HostInv, HostTypeOK, EpochRow
<1>2. QED BY <1>1 DEF OpenEpochs, LaneInv, HostInv, OneOpenEpoch

\* What is relied on stays, unless the cursor moves.
LEMMA ReliedStays ==
    ASSUME LaneInv, [Next]_vars, NEW e,
           e \in Registered => cursor'[e] = cursor[e],
           e \in Registered' \ Registered => \A k \in 0 .. (cursor'[e] - 1) : Exempt(e, k)'
    PROVE  Relied(e)' = Relied(e)
<1>1. CASE e \in Registered
    <2>1. e \in Registered' /\ \A k : Exempt(e, k)' <=> Exempt(e, k)
        BY <1>1, RegistryGrows DEF Exempt, Claude
    <2>2. QED BY <1>1, <2>1 DEF Relied
<1>2. CASE e \notin Registered
    BY <1>2 DEF Relied
<1>3. QED BY <1>1, <1>2

\* All of this together, to be used of the state after a step too.
LogsOK ==
    /\ \A e, k : k \in DOMAIN LogOf(e) <=> k \in Nat /\ Archived(e, k)
    /\ \A e \in Known : Archive!IsInterval(DOMAIN LogOf(e))
    /\ \A e \in Known : \A r \in RawIn(e) : \A k \in Nat :
           r.start <= k /\ k < r.end => LogOf(e)[k] = r.data[k - r.start + 1]
    /\ \A e \in Known : epochs[e].state = "open" => OpenEpochs(Source) = {e}

\* The logs of a state of the lane are well-formed.
LEMMA LogFacts == LaneInv => LogsOK
BY LogDomain, LogIsInterval, LogAt, CurrentIs DEF LogsOK

\* And those of the next one.
LEMMA LogsAfter == LaneInv' => LogsOK'
BY LogFacts, PTL

\* The first envelope of an epoch begins a log.
LEMMA CommitBegins ==
    ASSUME LaneInv, LaneInv', [Next]_vars, NEW env \in Carried, env.epoch \notin Known,
           NEW screen, CommitRawObject(env, screen), UNCHANGED <<cursor, registry, file>>
    PROVE  Archive!Begin(env.epoch)
<1> DEFINE e == env.epoch
           new == RawOf(env)
<1>1. /\ Known' = Known \cup {e} /\ raw' = raw \cup {new}
      /\ epochs'[e].state = "open"
    BY DEF CommitRawObject, Known
<1>2. new.epoch = e /\ new.start = env.start /\ new.end = env.end
    BY DEF RawOf
<1>3. env.start \in Nat /\ env.end \in Nat /\ env.start < env.end /\ e \in Epochs
    BY CarriedIsRequest DEF Piece, IsRequest
<1> HIDE DEF new
<1>4. \A f \in Known : RawIn(f)' = RawIn(f)
    BY <1>1, <1>2 DEF RawIn
<1>5. \A f \in Known : LogOf(f)' = LogOf(f)
    BY <1>4, LogStays
<1>6. env.start \in DOMAIN LogOf(e)'
    BY <1>1, <1>2, <1>3, LogsAfter DEF LogsOK, Archived, RawIn
<1>7. Archive!IsInterval(DOMAIN LogOf(e)')
    BY <1>1, LogsAfter DEF LogsOK, Archive!IsInterval
<1>8. (IF OpenEpochs(Source) = {} THEN None ELSE CHOOSE x \in OpenEpochs(Source) : TRUE)' = e
    <2>1. OpenEpochs(Source)' = {e}
        BY <1>1, LogsAfter DEF LogsOK
    <2>2. QED BY <2>1
<1>9. \A x \in Epochs : Relied(x)' = Relied(x)
    BY ReliedStays DEF Registered
<1>10. QED BY <1>1, <1>3, <1>5, <1>6, <1>7, <1>8, <1>9 DEF Archive!Begin

\* A further one extends it.
LEMMA CommitExtends ==
    ASSUME LaneInv, LaneInv', [Next]_vars, NEW env \in Carried, env.epoch \in Known,
           NEW screen \in Screens, Verdict(env, screen) = "created",
           CommitRawObject(env, screen), UNCHANGED <<cursor, registry, file>>
    PROVE  Archive!Extend
<1> DEFINE e == env.epoch
           new == RawOf(env)
<1>1. /\ ~EpochMismatch(env) /\ ~RangeConflict(env) /\ env.session \notin tombstones
    BY AdmittedFacts, ScreensAreRefusals
<1>2. /\ Known' = Known /\ raw' = raw \cup {new}
      /\ \A f \in Known \ {e} : epochs'[f] = epochs[f]
    BY DEF CommitRawObject, Known
<1>3. new.epoch = e /\ new.start = env.start /\ new.end = env.end
    BY DEF RawOf
<1>4. env.start \in Nat /\ env.end \in Nat /\ env.start < env.end /\ e \in Epochs
    BY CarriedIsRequest DEF Piece, IsRequest
<1>5. epochs[e].state = "open" /\ epochs'[e].state = "open"
    <2>1. epochs[e].state = "open"
        BY <1>1 DEF EpochMismatch
    <2>2. epochs[e] \in EpochRow
        BY DEF LaneInv, HostInv, HostTypeOK
    <2>3. epochs'[e] = [epochs[e] EXCEPT !.accepted = env.end, !.count = @ + 1]
        BY DEF CommitRawObject, Known, LaneInv, HostInv, HostTypeOK
    <2>4. QED BY <2>1, <2>2, <2>3 DEF EpochRow
<1> HIDE DEF new
<1>6. LogsOK /\ LogsOK'
    BY LogFacts, LogsAfter
<1>7. OpenEpochs(Source) = {e} /\ OpenEpochs(Source)' = {e}
    BY <1>2, <1>5, <1>6 DEF LogsOK
<1>8. \A f \in Known \ {e} : LogOf(f)' = LogOf(f)
    <2>1. \A f \in Known \ {e} : RawIn(f)' = RawIn(f)
        BY <1>2, <1>3 DEF RawIn
    <2>2. QED BY <2>1, LogStays
<1>9. RawIn(e)' = RawIn(e) \cup {new}
    BY <1>2, <1>3 DEF RawIn
<1>10. ASSUME NEW k \in DOMAIN LogOf(e)
       PROVE  k \in DOMAIN LogOf(e)' /\ LogOf(e)'[k] = LogOf(e)[k]
    <2>1. k \in Nat /\ Archived(e, k)
        BY <1>6 DEF LogsOK
    <2>2. PICK r \in RawIn(e) : r.start <= k /\ k < r.end
        BY <2>1 DEF Archived
    <2>3. r \in RawIn(e)'
        BY <1>9, <2>2
    <2>4. LogOf(e)[k] = r.data[k - r.start + 1]
        BY <1>6, <2>1, <2>2 DEF LogsOK
    <2>5. LogOf(e)'[k] = r.data[k - r.start + 1]
        BY <1>2, <1>6, <2>1, <2>2, <2>3 DEF LogsOK
    <2>6. k \in DOMAIN LogOf(e)'
        BY <1>6, <2>1, <2>2, <2>3 DEF LogsOK, Archived
    <2>7. QED BY <2>4, <2>5, <2>6
<1>11. ASSUME NEW k \in DOMAIN LogOf(e), NEW n \in DOMAIN LogOf(e)', n \notin DOMAIN LogOf(e)
       PROVE  k < n
    <2>1. k \in Nat /\ Archived(e, k) /\ n \in Nat /\ Archived(e, n)' /\ ~Archived(e, n)
        <3>1. n \in Nat /\ Archived(e, n)'
            BY <1>6 DEF LogsOK
        <3>2. k \in Nat /\ Archived(e, k)
            BY <1>6 DEF LogsOK
        <3>3. ~Archived(e, n)
            BY <1>6, <1>11, <3>1 DEF LogsOK
        <3>4. QED BY <3>1, <3>2, <3>3
    <2>2. PICK r \in RawIn(e) : r.start <= k /\ k < r.end
        BY <2>1 DEF Archived
    <2>3. new.start <= n
        <3>1. PICK x \in RawIn(e)' : x.start <= n /\ n < x.end
            BY <2>1 DEF Archived
        <3>2. x \notin RawIn(e)
            BY <2>1, <3>1 DEF Archived
        <3>3. QED BY <1>9, <3>1, <3>2
    <2>4. epochs[e].accepted = env.start
        BY <1>1, <2>2, WatermarkIsComputed DEF RangeConflict, LaneInv
    <2>5. r.end <= epochs[e].accepted /\ r.end \in Nat
        BY <2>2 DEF LaneInv, HostInv, HostTypeOK, ContiguousArchive, RawIn
    <2>6. QED BY <1>3, <1>4, <2>1, <2>2, <2>3, <2>4, <2>5
<1>12. Archive!IsInterval(DOMAIN LogOf(e)')
    BY <1>2, <1>6 DEF LogsOK, Archive!IsInterval
<1>13. /\ (IF OpenEpochs(Source) = {} THEN None ELSE CHOOSE x \in OpenEpochs(Source) : TRUE) = e
       /\ (IF OpenEpochs(Source) = {} THEN None ELSE CHOOSE x \in OpenEpochs(Source) : TRUE)' = e
       /\ e # None
    BY <1>4, <1>7, HostAssumption
<1>14. \A x \in Epochs : Relied(x)' = Relied(x)
    BY ReliedStays DEF Registered
<1> HIDE DEF e
<1>15. \A k \in DOMAIN LogOf(e) : k \in DOMAIN LogOf(e)' /\ LogOf(e)'[k] = LogOf(e)[k]
    BY <1>10
<1>16. \A k \in DOMAIN LogOf(e) : \A n \in DOMAIN LogOf(e)' \ DOMAIN LogOf(e) : k < n
    BY <1>11
<1>17. [x \in Epochs |-> Relied(x)]' = [x \in Epochs |-> Relied(x)]
    BY <1>14
<1>18. e \in Known
    BY DEF e
<1>19. /\ [x \in Known |-> LogOf(x)][e] = LogOf(e)
       /\ [x \in Known |-> LogOf(x)]'[e] = LogOf(e)'
       /\ DOMAIN [x \in Known |-> LogOf(x)] = Known
       /\ DOMAIN [x \in Known |-> LogOf(x)]' = Known
       /\ \A f \in Known \ {e} : [x \in Known |-> LogOf(x)]'[f] = [x \in Known |-> LogOf(x)][f]
    BY <1>2, <1>8, <1>18
<1>20. QED BY <1>12, <1>13, <1>15, <1>16, <1>17, <1>19 DEF Archive!Extend

\* No rewind over anything the sending side relies on: there is no startup metadata
\* or no second sender.
Steady == NoMetadata \/ Cardinality(Senders) = 1

\* Then what a rewind passes, before the first restore, is exempt.
LEMMA RewoundIsExempt ==
    ASSUME LaneInv, WatermarkInv, GapInv, OneSenderInv, [Next]_vars, NeverRestored, Steady,
           NEW e \in Registered, NEW k \in cursor'[e] .. (cursor[e] - 1)
    PROVE  Exempt(e, k)
<1>1. cursor[e] \in Nat /\ cursor'[e] \in Nat
    <2>1. CursorOK /\ CursorOK'
        BY LaneStepInv DEF LaneInv
    <2>2. QED BY <2>1, RegistryGrows DEF CursorOK
<1>2. cursor'[e] < cursor[e]
    BY <1>1
<1>3. CASE NoMetadata
    <2>1. cursor[e] <= cursor'[e]
        BY <1>3, CursorsRise DEF WatermarkInv
    <2>2. QED BY <1>1, <1>2, <2>1
<1>4. CASE Cardinality(Senders) = 1
    <2>1. /\ e \in DOMAIN pending
          /\ \A n \in cursor'[e] .. (pending[e].env.start - 1) : Exempt(e, n)
        BY <1>2, RewindFacts
    <2>2. pending[e].env.start = cursor[e]
        BY <1>4, <2>1 DEF OneSenderInv, PendingStartsAtCursor
    <2>3. QED BY <2>1, <2>2
<1>5. QED BY <1>3, <1>4 DEF Steady

\* A moved cursor acknowledges, if it passes anything the archive counts.
LEMMA MoveAcknowledges ==
    ASSUME LaneInv, LaneInv', [Next]_vars, NeverRestored', AckedIsArchived',
           UNCHANGED <<epochs, raw>>, NEW e \in Registered, Registered' = Registered,
           \A k \in cursor'[e] .. (cursor[e] - 1) : Exempt(e, k),
           \A f \in Registered \ {e} : cursor'[f] = cursor[f]
    PROVE  Archive!Acknowledge(e) \/ \A f \in Epochs : Relied(f)' = Relied(f)
<1>1. cursor[e] \in Nat /\ cursor'[e] \in Nat /\ e \in Epochs
    BY DEF LaneInv, CursorOK, RegistryOK
<1>2. \A f \in Known : LogOf(f)' = LogOf(f)
    BY LogStays DEF RawIn
<1>3. \A f \in Epochs \ {e} : Relied(f)' = Relied(f)
    BY ReliedStays
<1>4. \A k : Exempt(e, k)' <=> Exempt(e, k)
    BY RegistryGrows DEF Exempt, Claude
<1>5. Relied(e) \subseteq Relied(e)'
    <2> SUFFICES ASSUME NEW k \in Relied(e) PROVE k \in Relied(e)'
        OBVIOUS
    <2>1. k \in 0 .. (cursor[e] - 1) /\ ~Exempt(e, k)
        BY DEF Relied
    <2>2. k \in 0 .. (cursor'[e] - 1)
        BY <1>1, <2>1
    <2>3. QED BY <1>4, <2>1, <2>2 DEF Relied
<1>6. ASSUME NEW k \in Relied(e)' PROVE e \in Known /\ k \in DOMAIN LogOf(e)
    <2>1. k \in 0 .. (cursor'[e] - 1) /\ ~Exempt(e, k)'
        BY DEF Relied
    <2>2. Archived(e, k)'
        BY <2>1 DEF AckedIsArchived
    <2>3. k \in Nat /\ Archived(e, k)
        BY <1>1, <2>1, <2>2 DEF Archived, RawIn
    <2>4. e \in Known
        BY <2>3 DEF Archived, RawIn, LaneInv, HostInv, HostTypeOK
    <2>5. QED BY <2>3, <2>4, LogDomain
<1>7. Known' = Known /\ OpenEpochs(Source)' = OpenEpochs(Source)
    BY DEF Known, OpenEpochs
<1>8. CASE Relied(e)' = {}
    <2>1. Relied(e)' = Relied(e)
        BY <1>5, <1>8
    <2>2. QED BY <1>3, <2>1
<1>9. CASE Relied(e)' # {}
    <2>1. e \in Known /\ Relied(e)' \subseteq DOMAIN LogOf(e)
        BY <1>6, <1>9
    <2>2. Archive!Acknowledge(e)
        BY <1>1, <1>2, <1>3, <1>5, <1>7, <2>1 DEF Archive!Acknowledge
    <2>3. QED BY <2>2
<1>10. QED BY <1>8, <1>9

\* Nothing else is seen by the archive.
LEMMA OtherwiseStutters ==
    ASSUME LaneInv, [Next]_vars, UNCHANGED <<epochs, raw>>,
           \A x \in Epochs : Relied(x)' = Relied(x)
    PROVE  UNCHANGED Archive!archiveVars
<1>1. \A f \in Known : LogOf(f)' = LogOf(f)
    BY LogStays DEF RawIn
<1>2. Known' = Known /\ OpenEpochs(Source)' = OpenEpochs(Source)
    BY DEF Known, OpenEpochs
<1>3. QED BY <1>1, <1>2 DEF Archive!archiveVars

\* Every step of the lane is a step of the archive, or none.
LEMMA StepRefines ==
    ASSUME LaneInv, LaneInv', WatermarkInv, GapInv, OneSenderInv, AckedIsArchived', [Next]_vars,
           Steady, NeverRestored'
    PROVE  [Archive!Next]_Archive!archiveVars
<1>1. NeverRestored
    BY HostGrows
<1>2. Known \subseteq Epochs /\ Registered \subseteq Epochs
    BY DEF LaneInv, HostInv, HostTypeOK, RegistryOK
<1>3. ASSUME NEW env \in Carried, NEW screen \in Screens, Verdict(env, screen) = "created",
             CommitRawObject(env, screen), UNCHANGED <<cursor, registry, file>>
      PROVE  Archive!Next
    <2>1. env.epoch \in Epochs
        BY CarriedIsRequest DEF IsRequest
    <2>2. QED BY <1>3, <2>1, CommitBegins, CommitExtends DEF Archive!Next
<1>4. CASE UNCHANGED <<epochs, raw>>
    <2>1. ASSUME NEW e \in Registered, Registered' = Registered,
                 \A f \in Registered \ {e} : cursor'[f] = cursor[f]
          PROVE  [Archive!Next]_Archive!archiveVars
        <3>1. \A k \in cursor'[e] .. (cursor[e] - 1) : Exempt(e, k)
            BY <1>1, RewoundIsExempt
        <3>2. Archive!Acknowledge(e) \/ \A f \in Epochs : Relied(f)' = Relied(f)
            BY <1>4, <2>1, <3>1, MoveAcknowledges
        <3>3. Archive!Acknowledge(e) => Archive!Next
            BY <1>2 DEF Archive!Next
        <3>4. QED BY <1>4, <3>2, <3>3, OtherwiseStutters
    <2>2. ASSUME \A e \in Registered : cursor'[e] = cursor[e],
                 \A e \in Registered' \ Registered : \A k \in 0 .. (cursor'[e] - 1) : Exempt(e, k)'
          PROVE  UNCHANGED Archive!archiveVars
        BY <1>4, <2>2, ReliedStays, OtherwiseStutters
    <2>3. CASE \A w \in Senders : ~MovesCursor(w)
        <3>1. cursor' = cursor
            BY <2>3, CursorSteps
        <3>2. Registered' = Registered
            BY <3>1 DEF LaneInv, CursorOK
        <3>3. QED BY <2>2, <3>1, <3>2
    <2>4. ASSUME NEW w \in Senders, ObserveFirst(w) \/ ObserveRotation(w)
          PROVE  UNCHANGED Archive!archiveVars
        BY <2>2, <2>4, RegisteredFacts
    <2>5. ASSUME NEW w \in Senders, MovesCursor(w), ~(ObserveFirst(w) \/ ObserveRotation(w))
          PROVE  [Archive!Next]_Archive!archiveVars
        <3>1. Registered' = Registered
            BY <2>5, CursorMoveFacts DEF Registered
        <3>2. CASE cursor' = cursor
            BY <2>2, <3>1, <3>2
        <3>3. ASSUME NEW env \in Carried, NEW n \in Nat, cursor' = [cursor EXCEPT ![env.epoch] = n]
              PROVE  [Archive!Next]_Archive!archiveVars
            <4>1. env.epoch \in Registered /\ DOMAIN cursor = Registered
                BY CarriedIsRequest DEF Piece, LaneInv, CursorOK
            <4>2. \A f \in Registered \ {env.epoch} : cursor'[f] = cursor[f]
                BY <3>3, <4>1
            <4>3. QED BY <2>1, <3>1, <4>1, <4>2
        <3>4. QED BY <2>5, <3>2, <3>3, CursorMoveFacts
    <2>6. QED BY <2>3, <2>4, <2>5
<1>5. QED BY <1>3, <1>4, HostSteps

\* Nothing is archived or relied on at first.
LEMMA InitRefines == LaneInit => Archive!Init
<1> SUFFICES ASSUME LaneInit PROVE Archive!Init
    OBVIOUS
<1>1. Known = {} /\ OpenEpochs(Source) = {} /\ Registered = {}
    BY DEF LaneInit, HostInit, Known, OpenEpochs, Registered
<1>2. \A e \in Epochs : Relied(e) = {}
    BY <1>1 DEF Relied
<1>3. [e \in Known |-> LogOf(e)] = [e \in {} |-> None]
    BY <1>1
<1>4. QED BY <1>1, <1>2, <1>3 DEF Archive!Init

\* On a host that may be restored, every step before the first restore refines the
\* archive: a backup alone changes nothing of what the lane does.
THEOREM RefinesUntilRestored ==
    ASSUME Steady
    PROVE  Spec => /\ Archive!Init
                   /\ [][NeverRestored' => [Archive!Next]_Archive!archiveVars]_vars
<1> DEFINE Refines == NeverRestored' => [Archive!Next]_Archive!archiveVars
<1>1. /\ LaneInv /\ LaneInv' /\ WatermarkInv /\ GapInv /\ OneSenderInv /\ AckedIsArchived'
      /\ [Next]_vars
      => [Refines]_vars
    BY StepRefines
<1>2. QED
    BY <1>1, InitRefines, LaneInvariant, WatermarkInvariant, GapInvariant, OneSenderInvariant,
       AcknowledgedIsArchived, PTL DEF Spec

\* Files, pending rows, retries, conflicts, races and reconciliation together do
\* nothing but write the newest log at its end and acknowledge what it holds, on a
\* host that keeps its catalog: with any number of senders for a source without
\* startup metadata, with one sender for any source.
THEOREM LaneImplementsArchive ==
    ASSUME MaxRestores = 0, NoMetadata \/ Cardinality(Senders) = 1
    PROVE  Spec => ImplementsArchive
<1>1. /\ LaneInv /\ LaneInv' /\ WatermarkInv /\ GapInv /\ OneSenderInv /\ AckedIsArchived'
      /\ [Next]_vars
      => [Archive!Next]_Archive!archiveVars
    <2>1. LaneInv' => NeverRestored'
        BY LaneAssumption DEF LaneInv, BudgetOK, NeverRestored
    <2>2. QED BY <2>1, StepRefines DEF Steady
<1>2. QED
    BY <1>1, InitRefines, LaneInvariant, WatermarkInvariant, GapInvariant, OneSenderInvariant,
       AcknowledgedIsArchived, PTL DEF Spec, ImplementsArchive, Archive!Spec

-----------------------------------------------------------------------------
(* The catalog under the lane.                                             *)

\* What the agent and its environment do to the host's tables: a request of the
\* agent, the deletion of a session, or a restore.
CatalogStep ==
    \/ \E env \in Carried, screen \in Screens : Ingest(env, screen, Verdict(env, screen))
    \/ \E s \in Sessions : DeleteStorageSession(s)
    \/ RestoreHost

\* Every step does one of these, or leaves the catalog alone.
LEMMA CatalogSteps ==
    ASSUME LaneInv, [Next]_vars
    PROVE  CatalogStep \/ UNCHANGED hostVars
<1>1. ASSUME NEW w \in Senders, Prepare(w) PROVE UNCHANGED hostVars
    BY <1>1 DEF Prepare, FindNothingPending, ResumePending, DiscardOversized,
                RetireEmptySource, ObserveFirst, ObserveRotation, ObserveSame, ReadBatch,
                SkipStartupMetadata, PersistPrepared
<1>2. ASSUME NEW w \in Senders, Ship(w) PROVE CatalogStep \/ UNCHANGED hostVars
    <2>1. ASSUME NEW screen \in Screens, HostAnswers(w, screen)
          PROVE  CatalogStep \/ UNCHANGED hostVars
        BY <2>1, AnswerFacts DEF HostAnswers, CatalogStep
    <2>2. CASE ~\E screen \in Screens : HostAnswers(w, screen)
        BY <1>2, <2>2 DEF Ship, PostEnvelope, ReexamineBlocked, Acknowledge, BlockRejected,
                FetchManifest, ResyncBehindHost, ReconcileProvenPrefix, BlockConflict,
                EndReexamination, ErrorReturn
    <2>3. QED BY <2>1, <2>2
<1>3. CASE Environment
    <2>1. ASSUME NEW env \in late, NEW screen \in Screens, LateArrival(env, screen)
          PROVE  CatalogStep \/ UNCHANGED hostVars
        BY <2>1 DEF LateArrival, CatalogStep, Carried
    <2>2. ASSUME NEW s \in Sessions, DeleteSession(s) PROVE CatalogStep
        BY <2>2 DEF DeleteSession, CatalogStep
    <2>3. CASE \/ AppendRecord
               \/ \E n \in 0 .. MaxLen : ReplaceFile(n) \/ TruncateFile(n)
               \/ \E s \in Sessions : BindSession(s)
               \/ \E w \in Senders : Abandon(w) \/ DiscardUngated(w)
               \/ \E e \in Epochs : OperatorDiscard(e)
               \/ TakeRestorePoint
        BY <2>3 DEF AppendRecord, ReplaceFile, TruncateFile, BindSession, Abandon,
                DiscardUngated, OperatorDiscard, TakeRestorePoint
    <2>4. QED BY <1>3, <2>1, <2>2, <2>3 DEF Environment, CatalogStep
<1>4. CASE UNCHANGED vars
    BY <1>4 DEF vars
<1>5. QED BY <1>1, <1>2, <1>3, <1>4 DEF Next

\* The restore point is kept, taken of the catalog as it is, or used up.
LEMMA BackupSteps ==
    ASSUME [Next]_vars
    PROVE  backup' = backup \/ TakeRestorePoint \/ RestoreHost
<1>1. ASSUME NEW w \in Senders, Prepare(w) PROVE backup' = backup
    BY <1>1 DEF Prepare, FindNothingPending, ResumePending, DiscardOversized,
                RetireEmptySource, ObserveFirst, ObserveRotation, ObserveSame, ReadBatch,
                SkipStartupMetadata, PersistPrepared
<1>2. ASSUME NEW w \in Senders, Ship(w) PROVE backup' = backup
    BY <1>2 DEF Ship, PostEnvelope, ReexamineBlocked, HostAnswers, Acknowledge, BlockRejected,
                FetchManifest, ResyncBehindHost, ReconcileProvenPrefix, BlockConflict,
                EndReexamination, ErrorReturn
<1>3. ASSUME Environment PROVE backup' = backup \/ TakeRestorePoint \/ RestoreHost
    BY <1>3 DEF Environment, AppendRecord, ReplaceFile, TruncateFile, BindSession, DeleteSession,
                Abandon, DiscardUngated, LateArrival, OperatorDiscard
<1>4. QED BY <1>1, <1>2, <1>3 DEF Next, vars, laneVars

\* What readers and projectors rely on, in the catalog and in its restore point.
ViewInv ==
    /\ RowsAreListable /\ ReadersInv
    /\ backup # None => Saved!RetiredTogether /\ IsFiniteSet(backup.raw) /\ Saved!ReadersInv

\* ViewInv is inductive.
LEMMA ViewStep ==
    ASSUME LaneInv, ViewInv, [Next]_vars
    PROVE  ViewInv'
<1>1. CASE RestoreHost
    <2>1. /\ backup # None /\ backup' = None
          /\ epochs' = backup.epochs /\ raw' = backup.raw /\ retired' = backup.retired
          /\ tombstones' = backup.tombstones /\ commitSeq' = backup.commitSeq
          /\ desired' = backup.desired /\ unrendered' = backup.unrendered
        BY <1>1 DEF RestoreHost
    <2>2. Saved!RetiredTogether /\ IsFiniteSet(backup.raw) /\ Saved!ReadersInv
        BY <2>1 DEF ViewInv
    <2>3. RowsAreListable'
        BY <2>1, <2>2 DEF RowsAreListable, RetiredTogether, Saved!RetiredTogether
    <2>4. ReadersInv'
        BY <2>1, <2>2 DEF ReadersInv, ActiveRowsAreLive, DesiredIsPast, Saved!ReadersInv,
                          Saved!ActiveRowsAreLive, Saved!DesiredIsPast
    <2>5. QED BY <2>1, <2>3, <2>4 DEF ViewInv
<1>2. CASE ~RestoreHost
    <2>1. RowsAreListable' /\ ReadersInv'
        <3>1. ASSUME NEW env \in Carried, NEW screen \in Screens,
                     Ingest(env, screen, Verdict(env, screen))
              PROVE  RowsAreListable' /\ ReadersInv'
            BY <3>1, ScreensAreRefusals, IngestKeepsListable, IngestKeepsLive, DesiredStaysPast
               DEF LaneInv, ViewInv, ReadersInv
        <3>2. ASSUME NEW s \in Sessions, DeleteStorageSession(s)
              PROVE  RowsAreListable' /\ ReadersInv'
            BY <3>2, DeleteKeepsListable, DeleteKeepsLive, DesiredStaysPast
               DEF LaneInv, ViewInv, ReadersInv
        <3>3. CASE UNCHANGED hostVars
            BY <3>3 DEF hostVars, ViewInv, RowsAreListable, RetiredTogether, ReadersInv,
                        ActiveRowsAreLive, DesiredIsPast
        <3>4. QED BY <1>2, <3>1, <3>2, <3>3, CatalogSteps DEF CatalogStep
    <2>2. CASE backup' = backup
        BY <2>1, <2>2 DEF ViewInv, Saved!RetiredTogether, Saved!ReadersInv,
            Saved!ActiveRowsAreLive, Saved!DesiredIsPast
    <2>3. CASE TakeRestorePoint
        <3>1. /\ backup'.epochs = epochs /\ backup'.raw = raw /\ backup'.retired = retired
              /\ backup'.tombstones = tombstones /\ backup'.commitSeq = commitSeq
              /\ backup'.desired = desired /\ backup'.unrendered = unrendered
            BY <2>3 DEF TakeRestorePoint
        <3>2. Saved!RetiredTogether' /\ IsFiniteSet(backup'.raw)
            BY <3>1 DEF ViewInv, RowsAreListable, RetiredTogether, Saved!RetiredTogether
        <3>3. Saved!ReadersInv'
            BY <3>1 DEF ViewInv, ReadersInv, ActiveRowsAreLive, DesiredIsPast,
                        Saved!ReadersInv, Saved!ActiveRowsAreLive, Saved!DesiredIsPast
        <3>4. QED BY <2>1, <3>2, <3>3 DEF ViewInv
    <2>4. QED BY <1>2, <2>2, <2>3, BackupSteps
<1>3. QED BY <1>1, <1>2

\* ViewInv holds in every reachable state.
LEMMA ViewInvariant == Spec => []ViewInv
<1>1. LaneInit => ViewInv
    BY FS_EmptySet DEF LaneInit, HostInit, ViewInv, RowsAreListable, RetiredTogether, ReadersInv,
                       ActiveRowsAreLive, DesiredIsPast
<1>2. QED BY <1>1, ViewStep, LaneInvariant, PTL DEF Spec

\* The lane is a client of the catalog: each of its steps is, on the host's tables, a
\* request some sender carries or carried, a deletion, a restore, or nothing.
THEOREM LaneIsAClient == Spec => [][CatalogStep]_hostVars
<1>1. LaneInv /\ [Next]_vars => [CatalogStep]_hostVars
    BY CatalogSteps
<1>2. QED BY <1>1, LaneInvariant, PTL DEF Spec

\* What the catalog promises whatever clients send it keeps under the lane, and after
\* a restore as before it: contiguous rows, one open epoch, one chain of epochs, no
\* superseded row in what readers see, and a watermark the loop over the rows finds.
THEOREM LaneKeepsCatalog ==
    Spec => [](/\ ContiguousArchive /\ OneOpenEpoch /\ LineageIsAChain
               /\ ActiveRowsAreLive /\ WatermarkIsTheWalk)
<1>1. LaneInv /\ ViewInv
      => /\ ContiguousArchive /\ OneOpenEpoch /\ LineageIsAChain
         /\ ActiveRowsAreLive /\ WatermarkIsTheWalk
    BY WalkFindsThePrefix DEF LaneInv, ViewInv, HostInv, ReadersInv
<1>2. QED BY <1>1, LaneInvariant, ViewInvariant, PTL

\* Every step but a restore keeps what the archive holds and, of each session whose
\* readers would see a change, raises the revision or marks the rendering as
\* missing: a lane feeds its sessions from one source, so a session that loses rows
\* to a new epoch loses them all.
THEOREM LaneTellsProjectors ==
    Spec => [][RestoreHost \/ (ArchiveOnlyGrows /\ ChangesAreProjected)]_vars
<1>1. ASSUME LaneInv, ViewInv, [Next]_vars, ~RestoreHost
      PROVE  ArchiveOnlyGrows /\ ChangesAreProjected
    <2>1. HostInv /\ ReadersInv
        BY <1>1 DEF LaneInv, ViewInv
    <2>2. \A s \in Sessions : FromOneSource(s)
        BY <2>1, LaneAssumption DEF HostInv, HostTypeOK, EpochRow, FromOneSource, ActiveOf
    <2>3. ASSUME NEW env \in Carried, NEW screen \in Screens,
                 Ingest(env, screen, Verdict(env, screen))
          PROVE  ArchiveOnlyGrows /\ ChangesAreProjected
        <3>1. IsRequest(env) /\ screen \notin {"created", "replay"}
            BY <1>1, <2>3, CarriedIsRequest, ScreensAreRefusals
        <3>2. QED BY <2>1, <2>2, <2>3, <3>1, IngestGrows, IngestIsProjected
                     DEF ChangesAreProjected
    <2>4. ASSUME NEW s \in Sessions, DeleteStorageSession(s)
          PROVE  ArchiveOnlyGrows /\ ChangesAreProjected
        <3>1. \A f \in Known : epochs[f].accepted \in Nat
            BY <2>1 DEF HostInv, HostTypeOK, EpochRow
        <3>2. ArchiveOnlyGrows
            BY <2>4, <3>1 DEF DeleteStorageSession, ArchiveOnlyGrows, Known
        <3>3. QED BY <2>1, <2>4, <3>2, DeleteIsProjected DEF ChangesAreProjected
    <2>5. CASE UNCHANGED hostVars
        BY <2>1, <2>5, StutterGrows DEF hostVars, ChangesAreProjected, ChangeIsProjected,
                                       ActiveAfter, ActiveOf
    <2>6. QED BY <1>1, <2>3, <2>4, <2>5, CatalogSteps DEF CatalogStep
<1>2. LaneInv /\ ViewInv /\ [Next]_vars
      => [RestoreHost \/ (ArchiveOnlyGrows /\ ChangesAreProjected)]_vars
    BY <1>1
<1>3. QED BY <1>2, LaneInvariant, ViewInvariant, PTL DEF Spec
=============================================================================
